------------------------------- MODULE Login -------------------------------
(***************************************************************************)
(* The login of an initiator to one target: op_login, which runs the login *)
(* phases, CHAP and the negotiation, op_text after it, and the logout.     *)
(* Request and response are one step, as the worker handles one PDU at a   *)
(* time.  An initiator is either honest, discovers the target and logs in  *)
(* through a portal group that was listed, or sends login and text PDUs in *)
(* any order; it names itself and the session in its first PDU only.  A    *)
(* connection is the record of what the code keeps in conn and its         *)
(* session; sessions of several connections are left to Registry.          *)
(***************************************************************************)
EXTENDS ParamNegotiation, LuAccess, FiniteSets

CONSTANTS
  Setups,       \* the configurations of target and initiator
  Config,       \* the values of the configuration for the parameters
  Pdus, Texts,  \* the PDUs of an initiator that is not honest
  Offers,       \* what an honest one offers in the operational phase
  Me, Addr,     \* the name and the address of the initiator
  Groups,       \* the tags of the portal groups
  MaxChallenges, MaxConnects

Phases == {"NONE", "START", "SECURITY", "OPERATIONAL", "FULLFEATURE"}
(* A configuration: no_auth_chap, auth_chap or neither for the target and  *)
(* for discovery; whether CHAP has to be mutual; whether header digests    *)
(* are; whether a mutual secret is configured; the access control of the   *)
(* unit; and, of the initiator, whether it has the secret and is honest.   *)
AuthModes == {"none", "chap", "auto"}
SetupOK(s) ==
  /\ s.auth \in AuthModes /\ s.discovery \in AuthModes
  /\ {s.mutual, s.digest, s.msecret, s.knows, s.honest} \subseteq BOOLEAN
  /\ \A i \in DOMAIN s.acl.map : s.acl.map[i].pg \in Groups /\ s.acl.map[i].ig \in Nat

ASSUME GroupsAssumption == IsFiniteSet(Groups) /\ 0 \notin Groups
ASSUME SetupsAssumption == \A s \in Setups : SetupOK(s)
(* A list has a first name, if only the empty one.                          *)
OffersOK(offers) ==
  /\ offers \in Seq(Range(offers))
  /\ \A i \in DOMAIN offers :
       LET k == offers[i].key  v == offers[i].val IN
       /\ k \in Keys /\ Type[k] = "LIST" => v \in Seq(Range(v)) \ {<<>>}
       /\ k \in Keys /\ Type[k] = "DECLARATIVE" => v \in Aliases
ASSUME PdusAssumption ==
  \A p \in Pdus :
    /\ p.T \in BOOLEAN /\ (p.chap # None => p.chap.k \in {"A", "NR"})
    /\ p.id # None => p.id.stype \in {"Normal", "Discovery", "Other", None}
ASSUME OffersAssumption ==
  \A o \in {p.offers : p \in Pdus} \cup {t.offers : t \in Texts} \cup Offers : OffersOK(o)
ASSUME NoneAssumption == None # "missing"
ASSUME BoundAssumption == MaxChallenges \in Nat /\ MaxConnects \in Nat \ {0}
ASSUME ConfigAssumption ==
  /\ DOMAIN Config \subseteq Keys \ {"AuthMethod", "HeaderDigest", "InitiatorAlias"}
  /\ \A k \in DOMAIN Config : Config[k] \in ValuesOf(k)
  /\ Config.FirstBurstLength <= Config.MaxBurstLength

VARIABLES
  setup,   \* which configuration
  conn,    \* the connection, None when there is none
  ini      \* what the initiator knows

vars == <<setup, conn, ini>>

UsedKeys == {"HeaderDigest", "MaxRecvDataSegmentLength", "MaxBurstLength",
             "FirstBurstLength", "InitialR2T", "ImmediateData"}

TypeOK ==
  /\ setup \in Setups
  /\ conn # None =>
       /\ conn.tag \in Groups /\ conn.phase \in Phases
       /\ conn.full \in BOOLEAN /\ conn.authenticated \in BOOLEAN
       /\ conn.req_auth \in BOOLEAN /\ conn.req_mutual \in BOOLEAN
       /\ conn.chap \in {"WAIT_A", "WAIT_NR", "END"}
       /\ conn.chal \in 0 .. MaxChallenges /\ conn.judged \in 0 .. MaxChallenges
       /\ conn.stype \in {"Normal", "Discovery"}
       /\ DOMAIN conn.params = Keys
       /\ \A k \in Keys : conn.params[k].val \in ValuesOf(k)
       /\ DOMAIN conn.used = UsedKeys
       /\ \A k \in UsedKeys : conn.used[k] \in ValuesOf(k)
  /\ ini.told \in Phases /\ ini.full \in BOOLEAN /\ ini.ok \in BOOLEAN
  /\ ini.challenge \in (0 .. MaxChallenges) \cup {None}
  /\ DOMAIN ini.agreed \subseteq Keys
  /\ ini.listed \in (SUBSET Groups) \cup {None}
  /\ ini.connects \in 0 .. MaxConnects

-----------------------------------------------------------------------------
(* istgt_create_conn, as far as the login goes.                            *)
NewConn(tag) ==
  [tag |-> tag, phase |-> "NONE", full |-> FALSE, authenticated |-> FALSE,
   req_auth |-> FALSE, req_mutual |-> FALSE, chap |-> "WAIT_A",
   chal |-> 0, judged |-> 0, stype |-> "Normal", params |-> Defaults,
   used |-> [HeaderDigest |-> "None", MaxRecvDataSegmentLength |-> 8192,
             MaxBurstLength |-> 262144, FirstBurstLength |-> 65536,
             InitialR2T |-> "No", ImmediateData |-> "No"]]

Unconnected(connects, listed) ==
  [told |-> "NONE", full |-> FALSE, agreed |-> <<>>, ok |-> TRUE, challenge |-> None,
   listed |-> listed, connects |-> connects]

Init ==
  /\ setup \in Setups
  /\ conn = None
  /\ ini = Unconnected(0, None)

-----------------------------------------------------------------------------
(* The first login PDU that is accepted.                                   *)

(* The method the target insists on, if it does.                           *)
ForceAuth(c, auth, mutual) ==
  LET only(m) == [val |-> m, list |-> <<m>>] IN
  [c EXCEPT !.req_auth = IF auth = "auto" THEN @ ELSE auth = "chap",
            !.req_mutual = @ \/ mutual,
            !.params.AuthMethod = CASE auth = "none" -> only("None")
                                    [] auth = "chap" -> only("CHAP")
                                    [] auth = "auto" -> @]
ForceDigest(c) ==
  IF setup.digest
    THEN [c EXCEPT !.params.HeaderDigest = [val |-> "CRC32C", list |-> <<"CRC32C">>]]
    ELSE c

(* istgt_create_sess: the configuration becomes the parameters.            *)
create_sess(c) == [c EXCEPT !.params = Set(@, Config)]

Started(c, stype) ==
  [create_sess(IF stype = "Normal" THEN ForceDigest(ForceAuth(c, setup.auth, setup.mutual))
                                   ELSE ForceAuth(c, setup.discovery, setup.mutual))
     EXCEPT !.authenticated = FALSE, !.chap = "WAIT_A", !.stype = stype, !.phase = "START"]

SessionType(id) ==
  IF id.stype = None /\ id.tsih THEN "Normal" ELSE id.stype

(* What is wrong with it, None if nothing is.  There is no session to be   *)
(* included in.                                                            *)
Refusal(c, id) ==
  IF id = None \/ ~id.named \/ SessionType(id) \in {None, "Other"} THEN "missing"
  ELSE IF SessionType(id) = "Discovery" THEN None
  ELSE IF id.target = None THEN "missing"
  ELSE IF id.target = "unknown" \/ ~lu_access(setup.acl, c.tag, Me, Addr) THEN "notfound"
  ELSE IF id.tsih THEN "cannot" ELSE None

-----------------------------------------------------------------------------
(* CHAP: the connection afterwards, whether it goes on, the challenge.     *)

Failed(c) == [conn |-> [c EXCEPT !.chap = "WAIT_A"], ok |-> FALSE, challenge |-> None]
Goes(c, challenge) == [conn |-> c, ok |-> TRUE, challenge |-> challenge]

(* A response is compared with the challenge that is out.  The initiator   *)
(* counts as authenticated before the mutual part is looked at.            *)
AuthResponse(c, m) ==
  LET right == m.to = c.chal /\ setup.knows
      after == [c EXCEPT !.authenticated = @ \/ right, !.judged = c.chal]
  IN  IF right /\ (IF m.mutual = "none" THEN ~c.req_mutual
                                        ELSE m.mutual = "full" /\ setup.msecret)
        THEN Goes([after EXCEPT !.chap = "END"], None)
        ELSE Failed(after)

auth_params(c, m) ==
  CASE m = None -> Goes([c EXCEPT !.chap = "WAIT_A"], None)
    [] m # None /\ m.k = "A" ->
         IF c.chap = "WAIT_A" /\ m.md5
           THEN Goes([c EXCEPT !.chal = @ + 1, !.chap = "WAIT_NR"], c.chal + 1)
           ELSE Failed(c)
    [] m # None /\ m.k = "NR" ->
         IF c.chap = "WAIT_NR" THEN AuthResponse(c, m) ELSE Failed(c)

-----------------------------------------------------------------------------
(* op_login: the connection and the response.                              *)

Outcome(c, status, T, challenge) ==
  [conn |-> c, status |-> status, T |-> T, challenge |-> challenge]

(* SecurityNegotiation.  No transit before the initiator is authenticated. *)
Security(c, p) ==
  IF c.params.AuthMethod.val = "None"
    THEN Outcome([c EXCEPT !.authenticated = TRUE], "ok", p.T, None)
    ELSE LET a == auth_params(c, p.chap) IN
         IF ~a.ok THEN Outcome(a.conn, "auth", p.T, None)
         ELSE Outcome(a.conn, "ok", p.T /\ a.conn.authenticated, a.challenge)

FaultyOperational(c, p) ==
  IF c.phase = "START"
    THEN Outcome([c EXCEPT !.authenticated = TRUE], "ok", p.T, None)
    ELSE IF c.authenticated THEN Outcome(c, "ok", p.T, None)
                            ELSE Outcome(c, "auth", p.T, None)

(* LoginOperationalNegotiation, at once only if nothing else is required.  *)
Operational(c, p) ==
  CASE c.phase = "START" /\ c.req_auth -> Outcome(c, "auth", p.T, None)
    [] c.phase = "START" /\ ~c.req_auth ->
         Outcome([c EXCEPT !.authenticated = TRUE], "ok", p.T, None)
    [] c.phase # "START" ->
         Outcome(c, IF c.authenticated THEN "ok" ELSE "auth", p.T, None)

Stage(c, p) ==
  CASE p.csg = 0 -> Security(c, p)
    [] p.csg = 1 -> Operational(c, p)
    [] OTHER -> Outcome(c, "initiator", p.T, None)

FaultyTransit(o, p) ==
  IF o.status # "ok" \/ ~p.T THEN o
  ELSE CASE p.nsg = 0 -> [o EXCEPT !.conn.phase = "SECURITY"]
         [] p.nsg = 1 -> [o EXCEPT !.conn.phase = "OPERATIONAL"]
         [] p.nsg = 3 -> [o EXCEPT !.conn.phase = "FULLFEATURE", !.conn.full = TRUE]
         [] OTHER -> [o EXCEPT !.status = "initiator"]

Transit(o, p) ==
  IF o.status # "ok" \/ ~o.T THEN o
  ELSE CASE p.nsg = 0 -> [o EXCEPT !.conn.phase = "SECURITY"]
         [] p.nsg = 1 -> [o EXCEPT !.conn.phase = "OPERATIONAL"]
         [] p.nsg = 3 -> [o EXCEPT !.conn.phase = "FULLFEATURE", !.conn.full = TRUE]
         [] OTHER -> [o EXCEPT !.status = "initiator"]

copy_param2var(c) == [c EXCEPT !.used = [k \in UsedKeys |-> c.params[k].val]]
check_values(c) == c.used.FirstBurstLength <= c.used.MaxBurstLength

(* After the response, a connection in full feature takes over the values, *)
(* and is closed when they do not fit.                                     *)
Updated(c) ==
  IF ~c.full THEN c
  ELSE IF check_values(copy_param2var(c)) THEN copy_param2var(c) ELSE None

(* The negotiation comes before the login stage is looked at, so that its  *)
(* answers are in the response even if that refuses the login.             *)
Negotiated(c, p, n) ==
  LET o == Transit(Stage([c EXCEPT !.params = n.params], p), p)
  IN  [conn |-> Updated(o.conn), status |-> o.status, T |-> o.T, nsg |-> p.nsg,
       answers |-> n.answers, challenge |-> o.challenge]

RefuseLogin(c, p, why) ==
  [conn |-> Updated(c), status |-> why, T |-> p.T, nsg |-> p.nsg, answers |-> {},
   challenge |-> None]

op_login(c, p) ==
  LET why == IF c.phase = "NONE" THEN Refusal(c, p.id) ELSE None
      s == IF c.phase = "NONE" THEN Started(c, SessionType(p.id)) ELSE c
  IN  CASE ~p.version -> RefuseLogin(c, p, "version")
        [] p.version /\ why # None -> RefuseLogin(c, p, why)
        [] OTHER -> Negotiated(s, p, Negotiate(s.params, p.offers, s.stype = "Discovery"))

-----------------------------------------------------------------------------
(* What the initiator makes of a response.                                 *)

PhaseOf(nsg) == CASE nsg = 0 -> "SECURITY" [] nsg = 1 -> "OPERATIONAL" [] nsg = 3 -> "FULLFEATURE"

(* The latest answer for a key counts.                                     *)
Agreed(agreed, answers) ==
  LET said == Values(answers) IN
  [k \in DOMAIN said \cup DOMAIN agreed |-> IF k \in DOMAIN said THEN said[k] ELSE agreed[k]]

Login(p) ==
  /\ conn # None
  /\ p.chap # None /\ p.chap.k = "A" => conn.chal < MaxChallenges
  /\ p.id # None => conn.phase = "NONE"
  /\ IF p.T /\ p.C THEN conn' = None /\ UNCHANGED ini
     ELSE \E r \in {op_login(conn, p)} : LET moves == r.status = "ok" /\ r.T IN
          /\ conn' = r.conn
          /\ ini' = [ini EXCEPT
               !.ok = r.status = "ok",
               !.told = IF moves THEN PhaseOf(r.nsg) ELSE @,
               !.full = @ \/ (moves /\ r.nsg = 3),
               !.agreed = Agreed(@, r.answers),
               !.challenge = r.challenge]
  /\ UNCHANGED setup

(* op_text.  Outside a discovery session only one target is listed, the    *)
(* unit of the session when it is not named; there is one target here.     *)
Listed(c, target) ==
  IF \/ target = "ALL" /\ c.stype = "Normal"
     \/ target = "own" /\ c.stype = "Discovery"
     \/ target = "unknown"
    THEN {} ELSE lu_sendtargets(setup.acl, c.tag, Me)

Text(t) ==
  /\ conn # None
  /\ IF ~conn.full \/ (t.F /\ t.C) THEN conn' = None /\ UNCHANGED ini
     ELSE \E n \in {Negotiate(conn.params, t.offers, conn.stype = "Discovery")} :
          /\ conn' = Updated([conn EXCEPT !.params = n.params])
          /\ ini' = [ini EXCEPT
               !.agreed = Agreed(@, n.answers),
               !.listed = IF t.target = None THEN @ ELSE Listed(conn, t.target)]
  /\ UNCHANGED setup

(* A new connection, through a portal group that the initiator knows.      *)
Connect(tag) ==
  /\ conn = None /\ ini.connects < MaxConnects
  /\ setup.honest /\ ini.listed # None => tag \in ini.listed
  /\ conn' = NewConn(tag)
  /\ ini' = Unconnected(ini.connects + 1, ini.listed)
  /\ UNCHANGED setup

(* Logout, or the connection is closed: the worker ends.                   *)
Disconnect ==
  /\ conn # None
  /\ conn' = None
  /\ UNCHANGED <<setup, ini>>

-----------------------------------------------------------------------------
(* An honest initiator.  It offers CHAP if it has the secret, answers the  *)
(* challenge, with one of its own if the target has a secret for that, and *)
(* goes from the security phase to the operational phase to full feature.  *)

Request(csg, T, nsg, id, chap, offers) ==
  [version |-> TRUE, T |-> T, C |-> FALSE, csg |-> csg, nsg |-> nsg, id |-> id,
   chap |-> chap, offers |-> offers]
Method == IF setup.knows THEN <<"CHAP", "None">> ELSE <<"None">>
MyId == [stype |-> IF ini.listed = None THEN "Discovery" ELSE "Normal", named |-> TRUE,
         target |-> IF ini.listed = None THEN None ELSE "known", tsih |-> FALSE]

HonestFirst ==
  /\ conn # None /\ conn.phase = "NONE" /\ ini.ok
  /\ Login(Request(0, TRUE, 1, MyId, None, <<[key |-> "AuthMethod", val |-> Method]>>))
HonestChap ==
  /\ conn # None /\ conn.phase # "NONE" /\ ini.ok
  /\ ini.told = "NONE" /\ "AuthMethod" \in DOMAIN ini.agreed
  /\ IF ini.challenge = None
       THEN Login(Request(0, FALSE, 0, None, [k |-> "A", md5 |-> TRUE], <<>>))
       ELSE Login(Request(0, TRUE, 1, None,
                    [k |-> "NR", to |-> ini.challenge,
                     mutual |-> IF setup.msecret THEN "full" ELSE "none"], <<>>))
HonestOperational ==
  /\ conn # None /\ ini.ok /\ ini.told = "OPERATIONAL"
  /\ \E o \in Offers : Login(Request(1, TRUE, 3, None, None, o))
HonestText ==
  /\ conn # None /\ ini.full /\ conn.stype = "Discovery" /\ ini.listed = None
  /\ Text([F |-> TRUE, C |-> FALSE, offers |-> <<>>, target |-> "ALL"])
HonestLogout ==
  conn # None /\ conn.stype = "Discovery" /\ ini.listed # None /\ Disconnect

Honest == HonestFirst \/ HonestChap \/ HonestOperational \/ HonestText \/ HonestLogout
Other ==
  \/ \E p \in Pdus : Login(p)
  \/ \E t \in Texts : Text(t)
  \/ Disconnect

Next ==
  \/ \E tag \in Groups : Connect(tag)
  \/ setup.honest /\ Honest
  \/ ~setup.honest /\ Other
Spec == Init /\ [][Next]_vars

(* The initiator goes on with its login; the worker answers each PDU.      *)
Fairness ==
  WF_vars(setup.honest /\ ((\E tag \in Groups : Connect(tag)) \/ Honest))
FairSpec == Spec /\ Fairness

-----------------------------------------------------------------------------
(* Where CHAP is required, only an initiator that has the secret gets to   *)
(* the full feature phase, in whatever order it sends the PDUs of the login*)
(* phases and of CHAP, repeats them or answers older challenges.           *)
FullFeatureIsAuthentic ==
  /\ conn # None /\ conn.full
  /\ "chap" = IF conn.stype = "Normal" THEN setup.auth ELSE setup.discovery
  => setup.knows

(* A challenge is good for one response: after a wrong one, or a failed    *)
(* mutual part, the next response meets a new challenge.                   *)
OneResponsePerChallenge == conn # None /\ conn.chap = "WAIT_NR" => conn.judged < conn.chal

(* Both: there is no way around CHAP and no second try at it.              *)
Authentic == FullFeatureIsAuthentic /\ OneResponsePerChallenge

(* The initiator and the target agree on the login phase and on whether    *)
(* the connection is in full feature, although the target does not always  *)
(* make the transit it was asked for and answers refused logins too.       *)
PhaseAgreed ==
  conn # None =>
    /\ ini.told = IF conn.phase = "START" THEN "NONE" ELSE conn.phase
    /\ ini.full = conn.full

(* ... and every variable has its type.                                    *)
InStep == TypeOK /\ PhaseAgreed

(* The transfers use what the initiator was last told for each key, over   *)
(* any number of login and text PDUs, accepted and refused.                *)
AgreedIsUsed ==
  conn # None /\ conn.full =>
    \A k \in UsedKeys \cap DOMAIN ini.agreed : conn.used[k] = ini.agreed[k]

(* What both sides can live with: a value both have, a number within the   *)
(* limits of both, Yes if one of them needs it or if both can.             *)
Fits(k, cur, offer, v) ==
  CASE Type[k] = "LIST" -> Contains(offer, v) /\ Contains(cur.list, v)
    [] Type[k] = "NUMERICAL" ->
         /\ v \in Bounds(k) /\ v <= offer
         /\ v <= IF k = "MaxRecvDataSegmentLength" THEN TargetMaxRecv ELSE cur.val
    [] Type[k] = "NUMERICAL_MAX" -> v \in Bounds(k) /\ v >= offer /\ v >= cur.val
    [] Type[k] = "BOOLEAN_OR" -> v = "No" => offer = "No" /\ cur.val = "No"
    [] Type[k] = "BOOLEAN_AND" -> v = "Yes" => offer = "Yes" /\ cur.val = "Yes"

LastOffer(offers, k) == offers[SelectLastInSeq(offers, LAMBDA o : o.key = k)].val
AllFit(params, offers, n) ==
  LET offered == {offers[i].key : i \in DOMAIN offers} IN
  /\ \A k \in offered \ {"InitiatorAlias"} : Cardinality({a \in n.answers : a.key = k}) = 1
  /\ \A a \in n.answers :
       /\ a.key \in offered
       /\ a.why = "value" => /\ Fits(a.key, params[a.key], LastOffer(offers, a.key), a.val)
                            /\ n.params[a.key].val = a.val
  /\ \A k \in Keys \ (DOMAIN Values(n.answers) \cup {"InitiatorAlias"}) : n.params[k] = params[k]

(* Whatever was negotiated before and whatever is offered next, repeated   *)
(* keys included, every key that is not a mere declaration is answered     *)
(* once, with a value that fits its last offer, and the parameters are     *)
(* those of the answers.                                                   *)
AnswersFit ==
  conn # None /\ ~setup.honest =>
    \A offers \in {p.offers : p \in Pdus} :
    \A n \in {Negotiate(conn.params, offers, conn.stype = "Discovery")} :
      AllFit(conn.params, offers, n)

(* Both: what was agreed on was open to both sides and is what is used.    *)
Agreement == AnswersFit /\ AgreedIsUsed

Looser(k, v, w) ==
  CASE Type[k] = "NUMERICAL" -> v > w
    [] Type[k] = "NUMERICAL_MAX" -> v < w
    [] Type[k] = "BOOLEAN_OR" -> v = "No" /\ w = "Yes"
    [] Type[k] = "BOOLEAN_AND" -> v = "Yes" /\ w = "No"

(* No later PDU loosens what the session has negotiated, nor the           *)
(* configuration it started with.                                          *)
NeverLoosened ==
  [][conn # None /\ conn' # None /\ conn.phase # "NONE" =>
       \A k \in Keys \ (ConnKeys \cup {"InitiatorAlias"}) :
         ~Looser(k, conn'.params[k].val, conn.params[k].val)]_vars

(* No netmask tells addresses apart.                                       *)
MaskFree == \A i \in DOMAIN setup.acl.group : setup.acl.group[i].netmasks = {}

(* An honest initiator that has the secrets the target wants discovers it, *)
(* and is logged in if it is listed: through the phases, CHAP and what it  *)
(* offers (no first burst above the burst it offers: the connection is     *)
(* closed then, after the response was sent).                              *)
Welcome ==
  /\ setup.honest /\ MaskFree
  /\ "chap" \in {setup.auth, setup.discovery} => setup.knows
  /\ setup.knows /\ setup.mutual => setup.msecret
LoginSucceeds ==
  Welcome ~> \/ ini.listed = {}
             \/ conn # None /\ conn.stype = "Normal" /\ conn.full
=============================================================================
