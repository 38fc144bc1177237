------------------------------ MODULE MCLogin ------------------------------
(* Instances of Login for TLC: initiators that send PDUs in any order to    *)
(* targets of every authentication, and honest ones that meet every         *)
(* mapping of two portal groups to two initiator groups.                    *)
EXTENDS Login, TLC

MCGroups == {1, 2}
MCAliases == {"", "me"}
MCMe == "iqn.me"
MCAddr == [family |-> "IPv4", addr |-> <<1, 0>>]
MCConfig ==
  [MaxRecvDataSegmentLength |-> 65536, MaxBurstLength |-> 262144,
   FirstBurstLength |-> 65536, InitialR2T |-> "No", ImmediateData |-> "Yes"]

Name(n, d) == [name |-> n, deny |-> d]
Allow == Name(ALL, FALSE)
Open == [map |-> <<[pg |-> 1, ig |-> 1]>>,
         group |-> <<[initiators |-> <<Allow>>, netmasks |-> {}]>>]

Wild(auth, mutual, digest, discovery, msecret, knows) ==
  [auth |-> auth, mutual |-> mutual, digest |-> digest, discovery |-> discovery,
   msecret |-> msecret, acl |-> Open, knows |-> knows, honest |-> FALSE]
WildSetups ==
  {Wild("chap", TRUE, TRUE, "auto", TRUE, TRUE), Wild("chap", FALSE, FALSE, "chap", FALSE, FALSE),
   Wild("none", FALSE, FALSE, "auto", FALSE, TRUE), Wild("auto", TRUE, FALSE, "none", FALSE, TRUE)}

(* Initiator groups, the mappings of the unit and the netmasks.            *)
Names1 == {<<Allow>>, <<Name(MCMe, TRUE), Allow>>, <<Name("iqn.other", FALSE)>>,
           <<Name("iqn.other", TRUE), Name(MCMe, FALSE)>>}
Masks == {{}, {[family |-> "IPv4", addr |-> <<1, 1>>, bits |-> 1],
               [family |-> "IPv6", addr |-> <<1, 0>>, bits |-> 2]},
          {[family |-> "IPv4", addr |-> <<1, 1>>, bits |-> 2]}}
Acls ==
  {[map |-> m, group |-> <<[initiators |-> a, netmasks |-> k], [initiators |-> b, netmasks |-> {}]>>] :
     m \in {<<[pg |-> p, ig |-> 1], [pg |-> q, ig |-> g]>> : p \in {1, 2}, q \in {1, 2}, g \in {2, 3}},
     a \in Names1, b \in Names1, k \in Masks}
HonestSetups ==
  {[auth |-> s.auth, mutual |-> s.mutual, digest |-> s.digest, discovery |-> s.discovery,
    msecret |-> s.mutual, acl |-> acl, knows |-> s.knows, honest |-> TRUE] :
     s \in {[auth |-> a, mutual |-> a = "chap", digest |-> a = "chap", discovery |-> d, knows |-> k] :
              a \in {"none", "chap", "auto"}, d \in {"none", "chap"}, k \in BOOLEAN},
     acl \in {Open}} \cup
  {[auth |-> "none", mutual |-> FALSE, digest |-> FALSE, discovery |-> "none",
    msecret |-> FALSE, acl |-> acl, knows |-> FALSE, honest |-> TRUE] : acl \in Acls}
MCSetups == WildSetups \cup HonestSetups

Offer(k, v) == [key |-> k, val |-> v]
Sizes == <<Offer("MaxBurstLength", 16384), Offer("FirstBurstLength", 8192),
           Offer("InitialR2T", "Yes"), Offer("ImmediateData", "No"),
           Offer("MaxRecvDataSegmentLength", 131072), Offer("HeaderDigest", <<"None", "CRC32C">>),
           Offer("DefaultTime2Wait", 5)>>
Again == <<Offer("MaxBurstLength", 512), Offer("InitiatorAlias", "me"),
           Offer("MaxBurstLength", 65536), Offer("FirstBurstLength", 500),
           Offer("ImmediateData", "Maybe"), Offer("HeaderDigest", <<"SHA1", "CRC32C">>),
           Offer("InitialR2T", "No"), Offer("X-other", 1), Offer("DefaultTime2Wait", 0),
           Offer("MaxRecvDataSegmentLength", 4096)>>
Small == <<Offer("MaxBurstLength", 4096)>>
Methods(m) == <<Offer("AuthMethod", m)>>

Header(csg, T, nsg) == [version |-> TRUE, T |-> T, C |-> FALSE, csg |-> csg, nsg |-> nsg]
Pdu(h, id, chap, offers) == h @@ [id |-> id, chap |-> chap, offers |-> offers]
NormalId == [stype |-> "Normal", named |-> TRUE, target |-> "known", tsih |-> FALSE]
Ids1 == {NormalId, [NormalId EXCEPT !.stype = "Discovery", !.target = None]}
BadIds == {[NormalId EXCEPT !.named = FALSE], [NormalId EXCEPT !.stype = "Other"],
           [NormalId EXCEPT !.target = "unknown"], [NormalId EXCEPT !.target = None],
           [NormalId EXCEPT !.stype = None], [NormalId EXCEPT !.stype = None, !.tsih = TRUE]}
Chap1 == {[k |-> "A", md5 |-> m] : m \in BOOLEAN}
  \cup [k : {"NR"}, to : 1 .. 2, mutual : {"none", "half", "full"}]
MCPdus ==
  {Pdu(Header(0, TRUE, n), i, None, o) : n \in {1, 3}, i \in Ids1 \cup {None},
     o \in {Methods(<<"CHAP">>), Methods(<<"None">>), Methods(<<"SRP", "None">>), <<>>}} \cup
  {Pdu(Header(1, TRUE, 3), i, None, o) : i \in Ids1 \cup {None}, o \in {<<>>, Sizes, Again, Small}} \cup
  {Pdu(Header(0, FALSE, 0), i, None, <<>>) : i \in BadIds} \cup
  {Pdu(Header(0, t, 1), None, c, <<>>) : t \in BOOLEAN, c \in Chap1} \cup
  {Pdu(h, None, None, Sizes) :
     h \in {Header(1, FALSE, 0), Header(0, TRUE, 0), Header(1, TRUE, 2), Header(3, TRUE, 3),
            [Header(1, TRUE, 3) EXCEPT !.version = FALSE], [Header(1, TRUE, 3) EXCEPT !.C = TRUE]}}

MCTexts ==
  {[F |-> TRUE, C |-> FALSE, offers |-> o, target |-> t] :
     o \in {<<>>, Again, Small}, t \in {None, "ALL", "own"}} \cup
  {[F |-> TRUE, C |-> c, offers |-> <<>>, target |-> "unknown"] : c \in BOOLEAN}

MCOffers == {<<>>, Sizes, Again}
=============================================================================
