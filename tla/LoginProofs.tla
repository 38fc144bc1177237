----------------------------- MODULE LoginProofs -----------------------------
(***************************************************************************)
(* The safety of the login, for every configuration and every initiator.   *)
(*   AuthenticLogin   nobody gets past CHAP where it is required: SoundConn*)
(*                    is what holds of one connection.  The method a target*)
(*                    insists on is the only one it will choose and the    *)
(*                    negotiation cannot replace it, so that the way       *)
(*                    through the security phase without CHAP is closed;   *)
(*                    the operational phase is closed by req_auth; what    *)
(*                    remains sets authenticated only for the secret.      *)
(*   OnlyTighter      the negotiation only tightens: Typed parameters.     *)
(*   LoginInStep      the types, and that the initiator knows the phase.   *)
(*   AgreementReached the answers fit the offers and are what is used.     *)
(* Each function of the login gets a lemma of what it keeps of the         *)
(* invariants SoundLogin, TypedLogin and Informed.                         *)
(***************************************************************************)
EXTENDS Login, FiniteSetTheorems, WellFoundedInduction, TLAPS

(* What the target insists on stays: the method is CHAP and nothing else.  *)
Forced == [val |-> "CHAP", list |-> <<"CHAP">>]

LEMMA ChosenForced ==
  ASSUME NEW offer
  PROVE  Chosen(offer, <<"CHAP">>) \in {"CHAP", None}
<1>1. \A e : Contains(<<"CHAP">>, e) => e = "CHAP"
  BY DEF Contains
<1>2. Head(<<"CHAP">>) = "CHAP"
  OBVIOUS
<1> QED BY <1>1, <1>2 DEF Chosen

LEMMA ReplyForced ==
  ASSUME NEW params, NEW offer, NEW discovery \in BOOLEAN,
         params["AuthMethod"] = Forced, offer.key = "AuthMethod",
         Reply(params, offer, discovery).why = "value"
  PROVE  Reply(params, offer, discovery).val = "CHAP"
<1>1. "AuthMethod" \in Keys /\ "AuthMethod" \notin IrrelevantKeys /\ Type["AuthMethod"] = "LIST"
  BY DEF Keys, Type, IrrelevantKeys
<1> DEFINE v == Result("AuthMethod", Forced, offer.val)
<1>2. v \in {"CHAP", None}
  BY <1>1, ChosenForced DEF Result, Forced
<1> HIDE DEF v
<1>3. Reply(params, offer, discovery) =
        [key |-> "AuthMethod", why |-> IF v = None THEN "Reject" ELSE "value", val |-> v]
  BY <1>1 DEF Reply, v
<1> QED BY <1>2, <1>3

LEMMA NegotiateForced ==
  ASSUME NEW params, NEW offers, NEW discovery \in BOOLEAN,
         DOMAIN params = Keys, params["AuthMethod"] = Forced
  PROVE  LET p == Negotiate(params, offers, discovery).params IN
         DOMAIN p = Keys /\ p["AuthMethod"] = Forced
<1> DEFINE replies == {Reply(params, offer, discovery) : offer \in Parsed(offers)}
           values == Values(replies)
<1>1. \A r \in replies : r.why = "value" /\ r.key = "AuthMethod" => r.val = "CHAP"
  <2> SUFFICES ASSUME NEW offer \in Parsed(offers),
                      Reply(params, offer, discovery).why = "value",
                      Reply(params, offer, discovery).key = "AuthMethod"
               PROVE  Reply(params, offer, discovery).val = "CHAP"
    OBVIOUS
  <2>1. Reply(params, offer, discovery).key = offer.key
    BY DEF Reply
  <2> QED BY <2>1, ReplyForced
<1>2. "AuthMethod" \in DOMAIN values => values["AuthMethod"] = "CHAP"
  <2> HIDE DEF replies
  <2> QED BY <1>1, Zenon DEF Values
<1>3. Negotiate(params, offers, discovery).params = Set(params, values)
  BY DEF Negotiate
<1> HIDE DEF values
<1>4. "AuthMethod" \in Keys
  BY DEF Keys, Type
<1> QED BY <1>2, <1>3, <1>4 DEF Set, Forced

-----------------------------------------------------------------------------
Fields == {"tag", "phase", "full", "authenticated", "req_auth", "req_mutual", "chap",
           "chal", "judged", "stype", "params", "used"}

(* The session of c wants CHAP.                                            *)
Required(c) == "chap" = IF c.stype = "Normal" THEN setup.auth ELSE setup.discovery

(* What keeps an initiator without the secret out of the full feature phase.*)
Guarded(c) ==
  Required(c) => /\ c.req_auth
                 /\ c.params["AuthMethod"] = Forced
                 /\ c.authenticated => setup.knows
                 /\ c.full => setup.knows

(* A response is only waited for while its challenge is fresh.             *)
OneTry(c) ==
  /\ c.chal \in Nat /\ c.judged \in Nat /\ c.judged <= c.chal
  /\ c.chap = "WAIT_NR" => c.judged < c.chal

Shaped(c) == DOMAIN c = Fields /\ DOMAIN c.params = Keys
Untouched(c) == c.phase = "NONE" => c.params = Defaults /\ ~c.full

(* A connection that has a session, and any connection.                    *)
Busy(c) == Shaped(c) /\ OneTry(c) /\ Guarded(c) /\ c.phase # "NONE"
SoundConn(c) ==
  Shaped(c) /\ OneTry(c) /\ Untouched(c) /\ (c.phase # "NONE" => Guarded(c))

SoundLogin == conn # None => SoundConn(conn)

LEMMA BusyIsSound ==
  ASSUME NEW c, Busy(c)
  PROVE  SoundConn(c)
BY DEF Busy, SoundConn, Untouched

LEMMA UpdatedSound ==
  ASSUME NEW c, SoundConn(c), Updated(c) # None
  PROVE  SoundConn(Updated(c))
<1> DEFINE d == copy_param2var(c)
<1>1. Updated(c) \in {c, d}
  BY DEF Updated
<1>2. d = [c EXCEPT !.used = [k \in UsedKeys |-> c.params[k].val]]
  BY DEF copy_param2var
<1> HIDE DEF d
<1>3. /\ DOMAIN d = DOMAIN c
      /\ \A f \in Fields \ {"used"} : d[f] = c[f]
  BY <1>2 DEF SoundConn, Shaped
<1>4. /\ d.params = c.params /\ d.phase = c.phase /\ d.full = c.full /\ d.chal = c.chal
      /\ d.judged = c.judged /\ d.chap = c.chap /\ d.req_auth = c.req_auth
      /\ d.authenticated = c.authenticated /\ d.stype = c.stype
  BY <1>3 DEF Fields
<1>5. SoundConn(d)
  BY <1>3, <1>4 DEF SoundConn, Shaped, OneTry, Untouched, Guarded, Required
<1> QED BY <1>1, <1>5

LEMMA StartedBusy ==
  ASSUME NEW c, SoundConn(c), c.phase = "NONE", NEW stype
  PROVE  Busy(Started(c, stype))
<1> DEFINE auth == IF stype = "Normal" THEN setup.auth ELSE setup.discovery
           mutual == IF stype = "Normal" THEN setup.mutual ELSE FALSE
           a == IF stype = "Normal" THEN ForceAuth(c, setup.auth, setup.mutual)
                                    ELSE ForceAuth(c, setup.discovery, setup.mutual)
           d == IF stype = "Normal" THEN ForceDigest(a) ELSE a
           e == create_sess(d)
           s == Started(c, stype)
<1>1. DOMAIN c = Fields /\ DOMAIN c.params = Keys /\ c.params = Defaults /\ ~c.full /\ OneTry(c)
  BY DEF SoundConn, Shaped, Untouched
<1>2. /\ DOMAIN a = Fields /\ DOMAIN a.params = Keys
      /\ a.full = c.full /\ a.chal = c.chal /\ a.judged = c.judged
      /\ auth = "chap" => a.req_auth /\ a.params["AuthMethod"] = Forced
  BY <1>1 DEF ForceAuth, Fields, Keys, Type, Forced
<1> HIDE DEF a
<1>3. /\ DOMAIN d = Fields /\ DOMAIN d.params = Keys
      /\ d.full = c.full /\ d.chal = c.chal /\ d.judged = c.judged /\ d.req_auth = a.req_auth
      /\ d.params["AuthMethod"] = a.params["AuthMethod"]
  BY <1>2 DEF ForceDigest, Fields, Keys, Type
<1> HIDE DEF d
<1>4. "AuthMethod" \in Keys /\ "AuthMethod" \notin DOMAIN Config
  BY ConfigAssumption DEF Keys, Type
<1>5. /\ DOMAIN e = Fields /\ DOMAIN e.params = Keys
      /\ e.full = c.full /\ e.chal = c.chal /\ e.judged = c.judged /\ e.req_auth = a.req_auth
      /\ e.params["AuthMethod"] = a.params["AuthMethod"]
  BY <1>3, <1>4 DEF create_sess, Set, Fields
<1> HIDE DEF e
<1>6. s = [e EXCEPT !.authenticated = FALSE, !.chap = "WAIT_A", !.stype = stype, !.phase = "START"]
  BY DEF Started, a, d, e
<1> HIDE DEF s
<1>7. /\ DOMAIN s = Fields /\ DOMAIN s.params = Keys
      /\ s.full = c.full /\ s.chal = c.chal /\ s.judged = c.judged /\ s.req_auth = a.req_auth
      /\ s.params = e.params /\ s.authenticated = FALSE /\ s.chap = "WAIT_A"
      /\ s.stype = stype /\ s.phase = "START"
  BY <1>5, <1>6 DEF Fields
<1>8. Guarded(s)
  BY <1>1, <1>2, <1>5, <1>7 DEF Guarded, Required
<1> QED BY <1>1, <1>7, <1>8 DEF Busy, Shaped, OneTry, s

(* What an initiator can send.                                             *)
ProperPdu(p) ==
  /\ p.T \in BOOLEAN /\ (p.chap # None => p.chap.k \in {"A", "NR"})
  /\ p.id # None => p.id.stype \in {"Normal", "Discovery", "Other", None}
  /\ OffersOK(p.offers)
ProperText(t) == OffersOK(t.offers)

(* CHAP sets authenticated only for an initiator that has the secret, and  *)
(* waits for a response only after a new challenge.                        *)
LEMMA ChapBusy ==
  ASSUME NEW c, Busy(c), NEW m, m # None => m.k \in {"A", "NR"}
  PROVE  Busy(auth_params(c, m).conn)
<1> DEFINE r == auth_params(c, m)
           failed == [c EXCEPT !.chap = "WAIT_A"]
           asked == [c EXCEPT !.chal = @ + 1, !.chap = "WAIT_NR"]
           right == m.to = c.chal /\ setup.knows
           after == [c EXCEPT !.authenticated = @ \/ right, !.judged = c.chal]
           wrong == [after EXCEPT !.chap = "WAIT_A"]
           done == [after EXCEPT !.chap = "END"]
<1>1. r.conn \in {failed, asked, wrong, done}
  BY DEF auth_params, AuthResponse, Failed, Goes
<1> HIDE DEF r
<1>2. Busy(failed)
  BY DEF Busy, Shaped, OneTry, Guarded, Required, Fields
<1>3. Busy(asked)
  BY DEF Busy, Shaped, OneTry, Guarded, Required, Fields
<1>4. /\ DOMAIN after = Fields /\ after.params = c.params /\ after.phase = c.phase
      /\ after.chal = c.chal /\ after.judged = c.chal /\ after.stype = c.stype
      /\ after.full = c.full /\ after.req_auth = c.req_auth
      /\ after.authenticated => c.authenticated \/ setup.knows
  BY DEF Busy, Shaped, Fields
<1> HIDE DEF after
<1>5. Busy(wrong)
  BY <1>4 DEF Busy, Shaped, OneTry, Guarded, Required, Fields
<1>6. Busy(done)
  BY <1>4 DEF Busy, Shaped, OneTry, Guarded, Required, Fields
<1> QED BY <1>1, <1>2, <1>3, <1>5, <1>6 DEF r

(* A stage that goes on has authenticated the initiator.                   *)
LEMMA StageBusy ==
  ASSUME NEW c, Busy(c), NEW p, ProperPdu(p)
  PROVE  LET o == Stage(c, p) IN
         Busy(o.conn) /\ (o.status = "ok" /\ o.T => o.conn.authenticated)
<1> DEFINE o == Stage(c, p)
           passed == [c EXCEPT !.authenticated = TRUE]
<1>1. /\ DOMAIN passed = Fields /\ passed.params = c.params /\ passed.phase = c.phase
      /\ passed.chal = c.chal /\ passed.judged = c.judged /\ passed.stype = c.stype
      /\ passed.full = c.full /\ passed.req_auth = c.req_auth /\ passed.chap = c.chap
      /\ passed.authenticated
  BY DEF Busy, Shaped, Fields
<1>2. ~Required(c) => Busy(passed)
  <2> HIDE DEF passed
  <2> QED BY <1>1 DEF Busy, Shaped, OneTry, Guarded, Required
<1>3. CASE p.csg = 0
  <2>1. o = Security(c, p)
    BY <1>3 DEF Stage
  <2>2. CASE c.params.AuthMethod.val = "None"
    <3>1. ~Required(c)
      BY <2>2 DEF Busy, Guarded, Forced
    <3>2. o.conn = passed
      BY <2>1, <2>2 DEF Security, Outcome
    <3> HIDE DEF passed
    <3> QED BY <3>1, <3>2, <1>1, <1>2
  <2>3. CASE c.params.AuthMethod.val # "None"
    <3> DEFINE a == auth_params(c, p.chap)
    <3>1. Busy(a.conn)
      BY ChapBusy DEF ProperPdu
    <3>2. \/ o = Outcome(a.conn, "auth", p.T, None)
          \/ o = Outcome(a.conn, "ok", p.T /\ a.conn.authenticated, a.challenge)
      BY <2>1, <2>3 DEF Security
    <3> HIDE DEF a, o
    <3>3. o.conn = a.conn
      BY <3>2 DEF Outcome
    <3>4. o.status = "ok" /\ o.T => a.conn.authenticated
      <4>1. CASE o = Outcome(a.conn, "auth", p.T, None)
        BY <4>1 DEF Outcome
      <4>2. CASE o = Outcome(a.conn, "ok", p.T /\ a.conn.authenticated, a.challenge)
        <5> DEFINE T == p.T /\ a.conn.authenticated
        <5>1. T => a.conn.authenticated
          OBVIOUS
        <5> HIDE DEF T
        <5>2. o.T = T
          BY <4>2, Zenon DEF Outcome, T
        <5> QED BY <5>1, <5>2, Zenon
      <4> QED BY <3>2, <4>1, <4>2
    <3> QED BY <3>1, <3>3, <3>4 DEF o
  <2> QED BY <2>2, <2>3
<1>4. CASE p.csg = 1
  <2>1. o = Operational(c, p)
    BY <1>4 DEF Stage
  <2>2. CASE c.phase = "START" /\ c.req_auth
    BY <2>1, <2>2 DEF Operational, Outcome
  <2>3. CASE c.phase = "START" /\ ~c.req_auth
    <3>1. ~Required(c)
      BY <2>3 DEF Busy, Guarded
    <3>2. Operational(c, p) = Outcome(passed, "ok", p.T, None)
      BY <2>3 DEF Operational
    <3>3. Outcome(passed, "ok", p.T, None).conn = passed
      BY DEF Outcome
    <3>4. o.conn = passed
      BY <2>1, <3>2, <3>3, Zenon
    <3>5. Busy(passed) /\ passed.authenticated
      BY <3>1, <1>1, <1>2
    <3> HIDE DEF passed
    <3> QED BY <3>4, <3>5
  <2>4. CASE c.phase # "START"
    BY <2>1, <2>4 DEF Operational, Outcome
  <2> QED BY <2>2, <2>3, <2>4
<1>5. CASE p.csg \notin {0, 1}
  BY <1>5 DEF Stage, Outcome
<1> QED BY <1>3, <1>4, <1>5

(* The transit to full feature is made only by one who is authenticated.   *)
LEMMA TransitBusy ==
  ASSUME NEW p, NEW o, Busy(o.conn), DOMAIN o = {"conn", "status", "T", "challenge"},
         o.status = "ok" /\ o.T => o.conn.authenticated
  PROVE  Busy(Transit(o, p).conn)
<1> DEFINE c == o.conn
           r == Transit(o, p)
           at(phase) == [c EXCEPT !.phase = phase]
           full == [c EXCEPT !.phase = "FULLFEATURE", !.full = TRUE]
<1>1. CASE o.status # "ok" \/ ~o.T
  BY <1>1 DEF Transit
<1>2. CASE ~(o.status # "ok" \/ ~o.T)
  <2>1. c.authenticated
    BY <1>2
  <2>2. r.conn \in {c, at("SECURITY"), at("OPERATIONAL"), full}
    BY <1>2 DEF Transit
  <2>3. ASSUME NEW phase \in {"SECURITY", "OPERATIONAL"}
        PROVE  Busy(at(phase))
    BY <2>3 DEF Busy, Shaped, OneTry, Guarded, Required, Fields
  <2>4. Busy(full)
    BY <2>1 DEF Busy, Shaped, OneTry, Guarded, Required, Fields
  <2> HIDE DEF r, at, full
  <2>5. Busy(r.conn)
    BY <2>2, <2>3, <2>4
  <2> QED BY <2>5 DEF r
<1> QED BY <1>1, <1>2

LEMMA StageShape ==
  ASSUME NEW c, NEW p
  PROVE  DOMAIN Stage(c, p) = {"conn", "status", "T", "challenge"}
<1>1. \A d, status, T, challenge :
        DOMAIN Outcome(d, status, T, challenge) = {"conn", "status", "T", "challenge"}
  BY DEF Outcome
<1>2. \E d, status, T, challenge : Security(c, p) = Outcome(d, status, T, challenge)
  BY Zenon DEF Security
<1>3. Operational(c, p) \in
        {Outcome(c, "auth", p.T, None), Outcome(c, "ok", p.T, None),
         Outcome([c EXCEPT !.authenticated = TRUE], "ok", p.T, None)}
  BY DEF Operational
<1> QED BY <1>1, <1>2, <1>3 DEF Stage

LEMMA NegotiatedBusy ==
  ASSUME NEW c, Busy(c), NEW offers, NEW discovery \in BOOLEAN
  PROVE  Busy([c EXCEPT !.params = Negotiate(c.params, offers, discovery).params])
<1> DEFINE params == Negotiate(c.params, offers, discovery).params
           d == [c EXCEPT !.params = params]
<1>1. /\ DOMAIN params = Keys
      /\ c.params["AuthMethod"] = Forced => params["AuthMethod"] = Forced
  <2>1. DOMAIN c.params = Keys
    BY DEF Busy, Shaped
  <2>2. c.params["AuthMethod"] = Forced => params["AuthMethod"] = Forced
    BY <2>1, NegotiateForced
  <2>3. DOMAIN params = Keys
    BY <2>1 DEF Negotiate, Set
  <2> QED BY <2>2, <2>3
<1> HIDE DEF params
<1>2. /\ DOMAIN d = Fields /\ d.params = params /\ d.phase = c.phase
      /\ d.chal = c.chal /\ d.judged = c.judged /\ d.stype = c.stype
      /\ d.full = c.full /\ d.req_auth = c.req_auth /\ d.chap = c.chap
      /\ d.authenticated = c.authenticated
  BY DEF Busy, Shaped, Fields
<1> HIDE DEF d
<1>3. Busy(d)
  BY <1>1, <1>2 DEF Busy, Shaped, OneTry, Guarded, Required
<1> QED BY <1>3 DEF d, params

(* op_login as a whole.                                                    *)
LEMMA LoginSound ==
  ASSUME NEW c, SoundConn(c), NEW p, ProperPdu(p), op_login(c, p).conn # None
  PROVE  SoundConn(op_login(c, p).conn)
<1> DEFINE why == IF c.phase = "NONE" THEN Refusal(c, p.id) ELSE None
           s == IF c.phase = "NONE" THEN Started(c, SessionType(p.id)) ELSE c
           n == Negotiate(s.params, p.offers, s.stype = "Discovery")
           d == [s EXCEPT !.params = n.params]
           g == Stage(d, p)
           o == Transit(g, p)
<1>1. op_login(c, p).conn \in {Updated(c), Updated(o.conn)}
  BY DEF op_login, RefuseLogin, Negotiated
<1>2. Busy(s)
  BY StartedBusy DEF SoundConn, Busy
<1> HIDE DEF s
<1>3. Busy(d)
  BY <1>2, NegotiatedBusy
<1> HIDE DEF d
<1>4. Busy(g.conn) /\ (g.status = "ok" /\ g.T => g.conn.authenticated)
  BY <1>3, StageBusy
<1>5. DOMAIN g = {"conn", "status", "T", "challenge"}
  BY StageShape
<1> HIDE DEF g
<1>6. Busy(o.conn)
  BY <1>4, <1>5, TransitBusy
<1> QED BY <1>1, <1>6, UpdatedSound, BusyIsSound

-----------------------------------------------------------------------------
LEMMA InitSoundLogin == Init => SoundLogin
BY DEF Init, SoundLogin

LEMMA LoginStep ==
  ASSUME NEW p, ProperPdu(p), SoundLogin, Login(p)
  PROVE  SoundLogin'
<1>1. conn # None /\ setup' = setup
  BY DEF Login
<1>2. CASE conn' = None
  BY <1>2 DEF SoundLogin
<1>3. CASE conn' # None
  <2>1. conn' = op_login(conn, p).conn
    BY <1>3 DEF Login
  <2>2. SoundConn(conn)
    BY <1>1 DEF SoundLogin
  <2> DEFINE d == op_login(conn, p).conn
  <2>3. SoundConn(d)
    BY <1>3, <2>1, <2>2, LoginSound
  <2> HIDE DEF d
  <2>4. conn' = d
    BY <2>1 DEF d
  <2>5. SoundConn(conn)'
    BY <1>1, <2>3, <2>4 DEF SoundConn, Shaped, OneTry, Untouched, Guarded, Required
  <2> QED BY <2>5 DEF SoundLogin
<1> QED BY <1>2, <1>3

LEMMA TextStep ==
  ASSUME NEW t, SoundLogin, Text(t)
  PROVE  SoundLogin'
<1>1. conn # None /\ setup' = setup
  BY DEF Text
<1>2. CASE conn' = None
  BY <1>2 DEF SoundLogin
<1>3. CASE conn' # None
  <2> DEFINE c == [conn EXCEPT !.params =
                     Negotiate(conn.params, t.offers, conn.stype = "Discovery").params]
             d == Updated(c)
  <2>1. conn.full /\ conn' = d
    BY <1>3, Zenon DEF Text
  <2>2. Busy(conn)
    BY <1>1, <2>1 DEF SoundLogin, SoundConn, Untouched, Busy
  <2>3. Busy(c)
    BY <2>2, NegotiatedBusy
  <2> HIDE DEF c
  <2>4. SoundConn(d)
    BY <1>3, <2>1, <2>3, BusyIsSound, UpdatedSound
  <2> HIDE DEF d
  <2>5. SoundConn(conn)'
    BY <1>1, <2>1, <2>4 DEF SoundConn, Shaped, OneTry, Untouched, Guarded, Required
  <2> QED BY <2>5 DEF SoundLogin
<1> QED BY <1>2, <1>3

LEMMA ConnectStep ==
  ASSUME NEW tag, Connect(tag)
  PROVE  SoundLogin'
<1>1. SoundConn(NewConn(tag))
  BY DEF NewConn, SoundConn, Shaped, OneTry, Untouched, Fields, Keys, Type, Defaults
<1>2. SoundConn(conn)'
  BY <1>1 DEF Connect, NewConn, SoundConn, Shaped, OneTry, Untouched, Guarded, Required
<1> QED BY <1>2 DEF SoundLogin

(* What an honest initiator does is one of the others' steps.              *)
LEMMA HonestPdus ==
  ASSUME Honest
  PROVE  \/ \E p : ProperPdu(p) /\ Login(p)
         \/ \E t : ProperText(t) /\ Text(t)
         \/ Disconnect
<1>1. ASSUME NEW csg, NEW T \in BOOLEAN, NEW nsg, NEW id, NEW chap, NEW offers,
             chap # None => chap.k \in {"A", "NR"},
             id # None => id.stype \in {"Normal", "Discovery", "Other", None},
             OffersOK(offers),
             Login(Request(csg, T, nsg, id, chap, offers))
      PROVE  \E p : ProperPdu(p) /\ Login(p)
  BY <1>1 DEF ProperPdu, Request
<1>2. OffersOK(<<>>)
  BY DEF OffersOK
<1>3. CASE HonestFirst
  <2> DEFINE o == <<[key |-> "AuthMethod", val |-> Method]>>
  <2>1. Method \in Seq(Range(Method)) /\ Method # <<>>
    <3>1. /\ <<"CHAP", "None">> \in Seq({"CHAP", "None"}) \ {<<>>}
          /\ Range(<<"CHAP", "None">>) = {"CHAP", "None"}
      BY DEF Range
    <3>2. <<"None">> \in Seq({"None"}) \ {<<>>} /\ Range(<<"None">>) = {"None"}
      BY DEF Range
    <3>3. CASE setup.knows
      <4>1. Method = <<"CHAP", "None">>
        BY <3>3 DEF Method
      <4> QED BY ONLY <3>1, <4>1
    <3>4. CASE ~setup.knows
      <4>1. Method = <<"None">>
        BY <3>4 DEF Method
      <4> QED BY ONLY <3>2, <4>1
    <3> QED BY <3>3, <3>4
  <2>2. o \in Seq(Range(o)) /\ DOMAIN o = {1} /\ o[1] = [key |-> "AuthMethod", val |-> Method]
    BY DEF Range
  <2>3. Type["AuthMethod"] = "LIST"
    BY DEF Type
  <2>4. OffersOK(o)
    <3> HIDE DEF o
    <3> QED BY <2>1, <2>2, <2>3 DEF OffersOK
  <2>5. MyId # None => MyId.stype \in {"Normal", "Discovery", "Other", None}
    BY DEF MyId
  <2> QED BY <1>1, <1>3, <2>4, <2>5 DEF HonestFirst
<1>4. CASE HonestChap
  <2>1. CASE ini.challenge = None
    BY <1>1, <1>2, <1>4, <2>1 DEF HonestChap
  <2>2. CASE ini.challenge # None
    BY <1>1, <1>2, <1>4, <2>2 DEF HonestChap
  <2> QED BY <2>1, <2>2
<1>5. CASE HonestOperational
  BY <1>1, <1>5, OffersAssumption DEF HonestOperational
<1>6. CASE HonestText
  <2> DEFINE t == [F |-> TRUE, C |-> FALSE, offers |-> <<>>, target |-> "ALL"]
  <2>1. Text(t) /\ t.offers = <<>>
    BY <1>6 DEF HonestText
  <2> HIDE DEF t
  <2> QED BY <1>2, <2>1 DEF ProperText
<1>7. CASE HonestLogout
  BY <1>7 DEF HonestLogout
<1> QED BY <1>3, <1>4, <1>5, <1>6, <1>7 DEF Honest

LEMMA PduIsProper ==
  /\ \A p \in Pdus : ProperPdu(p)
  /\ \A t \in Texts : ProperText(t)
<1>1. ASSUME NEW p \in Pdus PROVE OffersOK(p.offers)
  BY OffersAssumption
<1>2. ASSUME NEW t \in Texts PROVE OffersOK(t.offers)
  BY OffersAssumption
<1>3. ASSUME NEW p \in Pdus PROVE ProperPdu(p)
  <2>1. /\ p.T \in BOOLEAN /\ (p.chap # None => p.chap.k \in {"A", "NR"})
        /\ p.id # None => p.id.stype \in {"Normal", "Discovery", "Other", None}
    BY PdusAssumption
  <2> QED BY <1>1, <2>1, Zenon DEF ProperPdu
<1> QED BY <1>2, <1>3 DEF ProperText

LEMMA HonestStep ==
  ASSUME SoundLogin, Honest
  PROVE  SoundLogin'
<1>1. CASE Disconnect
  BY <1>1 DEF Disconnect, SoundLogin
<1> QED BY <1>1, HonestPdus, LoginStep, TextStep

LEMMA NextSoundLogin == SoundLogin /\ [Next]_vars => SoundLogin'
<1> SUFFICES ASSUME SoundLogin, [Next]_vars
             PROVE  SoundLogin'
  OBVIOUS
<1>1. CASE \E tag \in Groups : Connect(tag)
  BY <1>1, ConnectStep
<1>2. CASE Honest
  BY <1>2, HonestStep
<1>3. ASSUME NEW p \in Pdus, Login(p)
      PROVE  SoundLogin'
  BY <1>3, LoginStep, PduIsProper
<1>4. ASSUME NEW t \in Texts, Text(t)
      PROVE  SoundLogin'
  BY <1>4, TextStep
<1>5. CASE Disconnect
  BY <1>5 DEF Disconnect, SoundLogin
<1>6. CASE UNCHANGED vars
  BY <1>6 DEF vars, SoundLogin, SoundConn, Shaped, OneTry, Untouched, Guarded, Required
<1> QED BY <1>1, <1>2, <1>3, <1>4, <1>5, <1>6 DEF Next, Other

LEMMA SoundLoginSuffices == SoundLogin => Authentic
BY DEF SoundLogin, SoundConn, Untouched, Guarded, OneTry, Required,
       Authentic, FullFeatureIsAuthentic, OneResponsePerChallenge

(* For every configuration and every initiator, in whatever order it sends *)
(* login, CHAP and text PDUs: where CHAP is required only one that has the *)
(* secret reaches the full feature phase, and no challenge is tried twice. *)
THEOREM AuthenticLogin == Spec => []Authentic
<1>1. Spec => []SoundLogin
  BY InitSoundLogin, NextSoundLogin, PTL DEF Spec
<1> QED BY <1>1, SoundLoginSuffices, PTL

-----------------------------------------------------------------------------
(* What the parameters are, and that the negotiation tightens them only.   *)
SessKeys == Keys \ (ConnKeys \cup {"InitiatorAlias"})
Typed(params) == \A k \in SessKeys : params[k].val \in ValuesOf(k)
TypedLogin == conn # None => Typed(conn.params)

LEMMA SessTypes ==
  ASSUME NEW k \in SessKeys
  PROVE  /\ Type[k] \in {"NUMERICAL", "NUMERICAL_MAX", "BOOLEAN_OR", "BOOLEAN_AND"}
         /\ Type[k] \in {"NUMERICAL", "NUMERICAL_MAX"} => ValuesOf(k) = Bounds(k)
         /\ Type[k] \in {"BOOLEAN_OR", "BOOLEAN_AND"} => ValuesOf(k) = Booleans
<1>1. Type[k] \in {"NUMERICAL", "NUMERICAL_MAX", "BOOLEAN_OR", "BOOLEAN_AND"}
  BY DEF SessKeys, Keys, ConnKeys, Type
<1>2. Type[k] \in {"NUMERICAL", "NUMERICAL_MAX"} => ValuesOf(k) = Bounds(k)
  BY SMT DEF ValuesOf
<1>3. Type[k] \in {"BOOLEAN_OR", "BOOLEAN_AND"} => ValuesOf(k) = Booleans
  BY SMT DEF ValuesOf
<1> QED BY <1>1, <1>2, <1>3

LEMMA BoundsAreNumbers == \A k : \A n \in Bounds(k) : n \in Int
BY DEF Bounds

LEMMA ResultTighter ==
  ASSUME NEW k \in SessKeys, NEW cur, NEW offer, cur.val \in ValuesOf(k),
         Result(k, cur, offer) # None
  PROVE  /\ Result(k, cur, offer) \in ValuesOf(k)
         /\ ~Looser(k, Result(k, cur, offer), cur.val)
<1>1. \A n \in Bounds(k) : n \in Int
  BY BoundsAreNumbers
<1>2. k # "MaxRecvDataSegmentLength"
  BY DEF SessKeys, ConnKeys
<1>3. CASE Type[k] = "NUMERICAL" /\ ValuesOf(k) = Bounds(k)
  BY <1>1, <1>2, <1>3, SMT DEF Result, Looser, Smaller
<1>4. CASE Type[k] = "NUMERICAL_MAX" /\ ValuesOf(k) = Bounds(k)
  BY <1>1, <1>4, SMT DEF Result, Looser, Larger
<1>5. CASE Type[k] = "BOOLEAN_OR" /\ ValuesOf(k) = Booleans
  BY <1>5, SMT DEF Result, Looser, Booleans
<1>6. CASE Type[k] = "BOOLEAN_AND" /\ ValuesOf(k) = Booleans
  BY <1>6, SMT DEF Result, Looser, Booleans
<1> QED BY <1>3, <1>4, <1>5, <1>6, SessTypes

LEMMA NotLooserThanItself ==
  ASSUME NEW k \in SessKeys, NEW v \in ValuesOf(k)
  PROVE  ~Looser(k, v, v)
<1>1. \A n \in Bounds(k) : n \in Int
  BY BoundsAreNumbers
<1>2. CASE Type[k] = "NUMERICAL" /\ ValuesOf(k) = Bounds(k)
  BY <1>1, <1>2 DEF Looser
<1>3. CASE Type[k] = "NUMERICAL_MAX" /\ ValuesOf(k) = Bounds(k)
  BY <1>1, <1>3 DEF Looser
<1>4. CASE Type[k] = "BOOLEAN_OR"
  BY <1>4 DEF Looser
<1>5. CASE Type[k] = "BOOLEAN_AND"
  BY <1>5 DEF Looser
<1> QED BY <1>2, <1>3, <1>4, <1>5, SessTypes

LEMMA ValuesSaid ==
  ASSUME NEW replies, NEW k \in DOMAIN Values(replies)
  PROVE  \E r \in replies : r.why = "value" /\ r.key = k /\ Values(replies)[k] = r.val
<1> DEFINE said == {r \in replies : r.why = "value"}
<1>1. \E r \in said : r.key = k
  BY Zenon DEF Values
<1>2. Values(replies)[k] = (CHOOSE r \in said : r.key = k).val
  BY Zenon DEF Values
<1>3. PICK r : r \in said /\ r.key = k /\ Values(replies)[k] = r.val
  BY <1>1, <1>2, Zenon
<1> QED BY <1>3

(* No offer loosens anything; parameters keep their types.                 *)
LEMMA NegotiateTighter ==
  ASSUME NEW params, NEW offers, NEW discovery \in BOOLEAN,
         DOMAIN params = Keys, Typed(params)
  PROVE  LET p == Negotiate(params, offers, discovery).params IN
         /\ Typed(p)
         /\ \A k \in SessKeys : ~Looser(k, p[k].val, params[k].val)
<1> DEFINE replies == {Reply(params, offer, discovery) : offer \in Parsed(offers)}
           values == Values(replies)
           p == Negotiate(params, offers, discovery).params
<1>1. \A r \in replies : r.why = "value" /\ r.key \in SessKeys =>
        r.val \in ValuesOf(r.key) /\ ~Looser(r.key, r.val, params[r.key].val)
  <2> SUFFICES ASSUME NEW offer \in Parsed(offers),
                      Reply(params, offer, discovery).why = "value",
                      Reply(params, offer, discovery).key \in SessKeys
               PROVE  LET r == Reply(params, offer, discovery) IN
                      r.val \in ValuesOf(r.key) /\ ~Looser(r.key, r.val, params[r.key].val)
    OBVIOUS
  <2> DEFINE k == offer.key
             v == Result(k, params[k], offer.val)
  <2>1. k \in SessKeys
    BY DEF Reply
  <2>2. k \in Keys
    BY <2>1 DEF SessKeys
  <2> HIDE DEF v
  <2>3. Reply(params, offer, discovery) =
          [key |-> k, why |-> IF v = None THEN "Reject" ELSE "value", val |-> v]
    BY <2>2 DEF Reply, v
  <2>4. v # None
    BY <2>3
  <2>5. v \in ValuesOf(k) /\ ~Looser(k, v, params[k].val)
    BY <2>1, <2>4, ResultTighter DEF v, Typed
  <2> QED BY <2>3, <2>5
<1>2. ASSUME NEW k \in SessKeys, k \in DOMAIN values
      PROVE  values[k] \in ValuesOf(k) /\ ~Looser(k, values[k], params[k].val)
  <2> HIDE DEF replies
  <2> QED BY <1>1, <1>2, ValuesSaid
<1>3. p = Set(params, values)
  BY DEF Negotiate
<1> HIDE DEF values, p
<1>4. ASSUME NEW k \in SessKeys
      PROVE  p[k].val \in ValuesOf(k) /\ ~Looser(k, p[k].val, params[k].val)
  <2>1. k \in DOMAIN params /\ params[k].val \in ValuesOf(k)
    BY DEF SessKeys, Typed
  <2>2. CASE k \notin DOMAIN values
    BY <1>3, <2>1, <2>2, NotLooserThanItself DEF Set
  <2>3. CASE k \in DOMAIN values
    <3>1. p[k] = [params[k] EXCEPT !.val = values[k]]
      BY <1>3, <2>1, <2>3 DEF Set
    <3>2. p[k].val = values[k]
      BY <3>1
    <3> QED BY <1>2, <2>3, <3>2
  <2> QED BY <2>2, <2>3
<1> QED BY <1>4 DEF Typed, p

(* The parameters after a login PDU.                                       *)
LEMMA ChapParams ==
  ASSUME NEW c, Busy(c), NEW m, m # None => m.k \in {"A", "NR"}
  PROVE  auth_params(c, m).conn.params = c.params
<1> DEFINE right == m.to = c.chal /\ setup.knows
           after == [c EXCEPT !.authenticated = @ \/ right, !.judged = c.chal]
           failed == [c EXCEPT !.chap = "WAIT_A"]
           asked == [c EXCEPT !.chal = @ + 1, !.chap = "WAIT_NR"]
           wrong == [after EXCEPT !.chap = "WAIT_A"]
           done == [after EXCEPT !.chap = "END"]
<1>1. auth_params(c, m).conn \in {failed, asked, wrong, done}
  BY DEF auth_params, AuthResponse, Failed, Goes
<1>2. /\ failed.params = c.params /\ asked.params = c.params
      /\ wrong.params = c.params /\ done.params = c.params
  BY DEF Busy, Shaped, Fields
<1> QED BY <1>1, <1>2

LEMMA StageParams ==
  ASSUME NEW c, Busy(c), NEW p, ProperPdu(p)
  PROVE  Stage(c, p).conn.params = c.params
<1> DEFINE a == auth_params(c, p.chap)
           passed == [c EXCEPT !.authenticated = TRUE]
<1>1. passed.params = c.params
  BY DEF Busy, Shaped, Fields
<1>2. a.conn.params = c.params
  BY ChapParams DEF ProperPdu
<1>3. Security(c, p).conn \in {passed, a.conn}
  BY DEF Security, Outcome
<1>4. Operational(c, p).conn \in {c, passed}
  BY DEF Operational, Outcome
<1>5. Stage(c, p).conn \in {passed, a.conn, c}
  BY <1>3, <1>4 DEF Stage, Outcome
<1> QED BY <1>1, <1>2, <1>5

LEMMA TransitParams ==
  ASSUME NEW p, NEW o, Busy(o.conn), DOMAIN o = {"conn", "status", "T", "challenge"}
  PROVE  Transit(o, p).conn.params = o.conn.params
<1> DEFINE at(phase) == [o.conn EXCEPT !.phase = phase]
           full == [o.conn EXCEPT !.phase = "FULLFEATURE", !.full = TRUE]
<1>1. Transit(o, p).conn \in {o.conn, at("SECURITY"), at("OPERATIONAL"), full}
  BY DEF Transit
<1>2. /\ at("SECURITY").params = o.conn.params /\ at("OPERATIONAL").params = o.conn.params
      /\ full.params = o.conn.params
  BY DEF Busy, Shaped, Fields
<1> QED BY <1>1, <1>2

LEMMA UpdatedParams ==
  ASSUME NEW c, Shaped(c), Updated(c) # None
  PROVE  Updated(c).params = c.params
BY DEF Shaped, Fields, Updated, copy_param2var

LEMMA LoginParams ==
  ASSUME NEW c, SoundConn(c), NEW p, ProperPdu(p), op_login(c, p).conn # None
  PROVE  LET s == IF c.phase = "NONE" THEN Started(c, SessionType(p.id)) ELSE c
             n == Negotiate(s.params, p.offers, s.stype = "Discovery")
         IN  op_login(c, p).conn.params \in {c.params, n.params}
<1> DEFINE why == IF c.phase = "NONE" THEN Refusal(c, p.id) ELSE None
           s == IF c.phase = "NONE" THEN Started(c, SessionType(p.id)) ELSE c
           n == Negotiate(s.params, p.offers, s.stype = "Discovery")
           params == n.params
           d == [s EXCEPT !.params = params]
           g == Stage(d, p)
           o == Transit(g, p)
<1>1. op_login(c, p).conn \in {Updated(c), Updated(o.conn)}
  BY DEF op_login, RefuseLogin, Negotiated
<1>2. Busy(s)
  BY StartedBusy DEF SoundConn, Busy
<1>3. Busy(d)
  <2> HIDE DEF s
  <2> QED BY <1>2, NegotiatedBusy
<1>4. d.params = params
  <2> HIDE DEF s, params
  <2> QED BY <1>2 DEF Busy, Shaped, Fields
<1>5. Busy(g.conn) /\ (g.status = "ok" /\ g.T => g.conn.authenticated)
  <2> HIDE DEF d
  <2> QED BY <1>3, StageBusy
<1>6. g.conn.params = params /\ DOMAIN g = {"conn", "status", "T", "challenge"}
  <2> HIDE DEF d, params
  <2> QED BY <1>3, <1>4, StageParams, StageShape
<1> HIDE DEF g, params
<1>7. Busy(o.conn) /\ o.conn.params = params
  BY <1>5, <1>6, TransitBusy, TransitParams
<1> HIDE DEF o
<1>8. op_login(c, p).conn.params \in {c.params, params}
  BY <1>1, <1>7, UpdatedParams DEF Busy, SoundConn
<1> QED BY <1>8 DEF params

LEMMA DefaultsTyped ==
  \A k \in SessKeys : Defaults[k].val \in ValuesOf(k) /\ DOMAIN Defaults[k] = {"val", "list"}
<1>1. 262144 \in 512 .. Largest /\ 65536 \in 512 .. Largest
  <2>1. Largest \in Int /\ 262144 <= Largest /\ 65536 <= Largest
    BY SMT DEF Largest
  <2> QED BY <2>1, SMT
<1>2. /\ 262144 \in ValuesOf("MaxBurstLength") /\ 65536 \in ValuesOf("FirstBurstLength")
      /\ 2 \in ValuesOf("DefaultTime2Wait")
  <2>1. ASSUME NEW k \in {"MaxBurstLength", "FirstBurstLength", "DefaultTime2Wait"},
               NEW n \in Bounds(k)
        PROVE  n \in ValuesOf(k)
    <3>1. k \in SessKeys /\ Type[k] \in {"NUMERICAL", "NUMERICAL_MAX"}
      BY DEF SessKeys, Keys, ConnKeys, Type
    <3> QED BY <3>1, SessTypes
  <2>2. ASSUME NEW n \in 512 .. Largest
        PROVE  n \in Bounds("MaxBurstLength") /\ n \in Bounds("FirstBurstLength")
    BY SMT DEF Bounds
  <2>3. 2 \in Bounds("DefaultTime2Wait")
    BY SMT DEF Bounds
  <2> QED BY <1>1, <2>1, <2>2, <2>3, SMT
<1>3. \A k \in {"InitialR2T", "ImmediateData"} : "Yes" \in ValuesOf(k)
  BY SessTypes DEF SessKeys, Keys, ConnKeys, Type, Booleans
<1>4. SessKeys = {"MaxBurstLength", "FirstBurstLength", "DefaultTime2Wait", "InitialR2T",
                  "ImmediateData"}
  BY DEF SessKeys, Keys, ConnKeys, Type
<1>5. /\ Defaults["MaxBurstLength"] = [val |-> 262144, list |-> <<>>]
      /\ Defaults["FirstBurstLength"] = [val |-> 65536, list |-> <<>>]
      /\ Defaults["DefaultTime2Wait"] = [val |-> 2, list |-> <<>>]
      /\ Defaults["InitialR2T"] = [val |-> "Yes", list |-> <<>>]
      /\ Defaults["ImmediateData"] = [val |-> "Yes", list |-> <<>>]
  BY SMT DEF Defaults
<1> QED BY <1>2, <1>3, <1>4, <1>5, SMT

LEMMA StartedTyped ==
  ASSUME NEW c, SoundConn(c), c.phase = "NONE", NEW stype
  PROVE  Typed(Started(c, stype).params)
<1> DEFINE a == IF stype = "Normal" THEN ForceAuth(c, setup.auth, setup.mutual)
                                    ELSE ForceAuth(c, setup.discovery, setup.mutual)
           d == IF stype = "Normal" THEN ForceDigest(a) ELSE a
           e == create_sess(d)
<1>1. DOMAIN c = Fields /\ DOMAIN c.params = Keys /\ c.params = Defaults
  BY DEF SoundConn, Shaped, Untouched
<1>2. /\ DOMAIN a = Fields /\ DOMAIN a.params = Keys
      /\ \A k \in SessKeys : a.params[k] = Defaults[k]
  <2>1. "AuthMethod" \notin SessKeys
    BY DEF SessKeys, ConnKeys
  <2>2. ASSUME NEW auth, NEW mutual
        PROVE  /\ DOMAIN ForceAuth(c, auth, mutual) = Fields
               /\ DOMAIN ForceAuth(c, auth, mutual).params = Keys
               /\ \A k \in SessKeys : ForceAuth(c, auth, mutual).params[k] = Defaults[k]
    BY <1>1, <2>1 DEF ForceAuth, Fields, SessKeys
  <2> QED BY <2>2
<1> HIDE DEF a
<1>3. /\ DOMAIN d = Fields /\ DOMAIN d.params = Keys
      /\ \A k \in SessKeys : d.params[k] = Defaults[k]
  <2>1. DOMAIN ForceDigest(a) = Fields /\ DOMAIN ForceDigest(a).params = Keys
    BY <1>2 DEF ForceDigest, Fields
  <2>2. ASSUME NEW k \in SessKeys PROVE ForceDigest(a).params[k] = a.params[k]
    BY <1>2 DEF ForceDigest, Fields, SessKeys, ConnKeys
  <2> QED BY <1>2, <2>1, <2>2
<1> HIDE DEF d
<1>4. \A k \in SessKeys : Defaults[k].val \in ValuesOf(k) /\ DOMAIN Defaults[k] = {"val", "list"}
  BY DefaultsTyped
<1>5. \A k \in SessKeys : e.params[k].val \in ValuesOf(k)
  BY <1>3, <1>4, ConfigAssumption DEF create_sess, Set, Fields, SessKeys
<1>6. Started(c, stype).params = e.params
  BY <1>3 DEF Started, a, d, create_sess, Fields
<1> QED BY <1>5, <1>6 DEF Typed

(* One PDU neither spoils the types nor, once the login has started,       *)
(* loosens a parameter.                                                    *)
Tighter ==
  conn # None /\ conn' # None /\ conn.phase # "NONE" =>
    \A k \in SessKeys : ~Looser(k, conn'.params[k].val, conn.params[k].val)

LEMMA SameParams ==
  ASSUME NEW params, Typed(params)
  PROVE  \A k \in SessKeys : ~Looser(k, params[k].val, params[k].val)
BY NotLooserThanItself DEF Typed

LEMMA DefaultParams == Typed(Defaults)
BY DefaultsTyped DEF Typed

LEMMA LoginTightens ==
  ASSUME NEW p, ProperPdu(p), SoundLogin, TypedLogin, Login(p)
  PROVE  TypedLogin' /\ Tighter
<1>1. conn # None
  BY DEF Login
<1>2. CASE conn' = None
  BY <1>2 DEF TypedLogin, Tighter
<1>3. CASE conn' # None
  <2> DEFINE s == IF conn.phase = "NONE" THEN Started(conn, SessionType(p.id)) ELSE conn
             n == Negotiate(s.params, p.offers, s.stype = "Discovery")
             old == conn.params
             params == n.params
             d == op_login(conn, p).conn
  <2>1. conn' = d
    BY <1>3 DEF Login
  <2>2. SoundConn(conn) /\ Typed(old)
    BY <1>1 DEF SoundLogin, TypedLogin
  <2>3. d.params \in {old, params}
    BY <1>3, <2>1, <2>2, LoginParams
  <2>4. Typed(s.params) /\ DOMAIN s.params = Keys /\ (conn.phase # "NONE" => s.params = old)
    BY <2>2, StartedTyped, StartedBusy DEF SoundConn, Shaped, Busy
  <2>5. /\ Typed(params)
        /\ \A k \in SessKeys : ~Looser(k, params[k].val, s.params[k].val)
    <3> HIDE DEF s
    <3> QED BY <2>4, NegotiateTighter
  <2> HIDE DEF d, params, s, n
  <2>6. conn'.params \in {old, params}
    BY <2>1, <2>3
  <2>7. Typed(conn'.params)
    BY <2>2, <2>5, <2>6
  <2>8. conn.phase # "NONE" =>
          \A k \in SessKeys : ~Looser(k, conn'.params[k].val, conn.params[k].val)
    BY <2>2, <2>4, <2>5, <2>6, SameParams
  <2> QED BY <2>7, <2>8 DEF TypedLogin, Typed, Tighter
<1> QED BY <1>2, <1>3

LEMMA TextTightens ==
  ASSUME NEW t, SoundLogin, TypedLogin, Text(t)
  PROVE  TypedLogin' /\ Tighter
<1>1. conn # None
  BY DEF Text
<1>2. CASE conn' = None
  BY <1>2 DEF TypedLogin, Tighter
<1>3. CASE conn' # None
  <2> DEFINE params == Negotiate(conn.params, t.offers, conn.stype = "Discovery").params
             c == [conn EXCEPT !.params = params]
  <2>1. conn' = Updated(c)
    BY <1>3, Zenon DEF Text
  <2>2. Shaped(conn) /\ Typed(conn.params)
    BY <1>1 DEF SoundLogin, SoundConn, TypedLogin
  <2>3. /\ Typed(params) /\ DOMAIN params = Keys
        /\ \A k \in SessKeys : ~Looser(k, params[k].val, conn.params[k].val)
    <3>1. DOMAIN params = Keys
      BY <2>2 DEF Negotiate, Set, Shaped
    <3> QED BY <2>2, <3>1, NegotiateTighter DEF Shaped
  <2> HIDE DEF params
  <2>4. Shaped(c) /\ c.params = params
    BY <2>2, <2>3 DEF Shaped, Fields
  <2> HIDE DEF c
  <2>5. conn'.params = params
    BY <1>3, <2>1, <2>4, UpdatedParams
  <2> QED BY <2>3, <2>5 DEF TypedLogin, Typed, Tighter
<1> QED BY <1>2, <1>3

LEMMA NextTightens == SoundLogin /\ TypedLogin /\ [Next]_vars => TypedLogin' /\ Tighter
<1> SUFFICES ASSUME SoundLogin, TypedLogin, [Next]_vars
             PROVE  TypedLogin' /\ Tighter
  OBVIOUS
<1>1. ASSUME NEW tag, Connect(tag)
      PROVE  TypedLogin' /\ Tighter
  <2>1. conn = None /\ conn'.params = Defaults
    BY <1>1 DEF Connect, NewConn
  <2> QED BY <2>1, DefaultParams DEF TypedLogin, Typed, Tighter
<1>2. CASE Honest
  <2>1. CASE Disconnect
    BY <2>1 DEF Disconnect, TypedLogin, Tighter
  <2> QED BY <1>2, <2>1, HonestPdus, LoginTightens, TextTightens
<1>3. ASSUME NEW p \in Pdus, Login(p)
      PROVE  TypedLogin' /\ Tighter
  BY <1>3, LoginTightens, PduIsProper
<1>4. ASSUME NEW t \in Texts, Text(t)
      PROVE  TypedLogin' /\ Tighter
  BY <1>4, TextTightens
<1>5. CASE Disconnect
  BY <1>5 DEF Disconnect, TypedLogin, Tighter
<1>6. CASE UNCHANGED vars
  BY <1>6, SameParams DEF vars, TypedLogin, Typed, Tighter
<1> QED BY <1>1, <1>2, <1>3, <1>4, <1>5, <1>6 DEF Next, Other

(* Whatever an initiator offers, in login PDUs that are accepted or refused*)
(* and in text PDUs, no parameter of the session gets looser than what was *)
(* negotiated, nor than the configuration it started with.                 *)
THEOREM OnlyTighter == Spec => NeverLoosened
<1> DEFINE Inv == SoundLogin /\ TypedLogin
<1>1. Init => Inv
  BY InitSoundLogin DEF Init, TypedLogin
<1>2. Inv /\ [Next]_vars => Inv' /\ Tighter
  BY NextSoundLogin, NextTightens
<1>3. Tighter <=>
        (conn # None /\ conn' # None /\ conn.phase # "NONE" =>
           \A k \in Keys \ (ConnKeys \cup {"InitiatorAlias"}) :
             ~Looser(k, conn'.params[k].val, conn.params[k].val))
  BY DEF Tighter, SessKeys
<1> QED BY <1>1, <1>2, <1>3, PTL DEF Spec, NeverLoosened

-----------------------------------------------------------------------------
(* What the initiator knows, and the types.  CHAP and the stages leave Kept*)
(* alone, so that the phase and the parameters change in the transit and   *)
(* in the negotiation only, both of which the initiator is told of.        *)
Kept == Fields \ {"authenticated", "chap", "chal", "judged"}

ChapTyped(c) ==
  /\ c.authenticated \in BOOLEAN /\ c.chap \in {"WAIT_A", "WAIT_NR", "END"}
  /\ c.chal \in 0 .. MaxChallenges /\ c.judged \in 0 .. MaxChallenges
Challenges == (0 .. MaxChallenges) \cup {None}

LEMMA ChapKeeps ==
  ASSUME NEW c, Shaped(c), NEW m, m # None => m.k \in {"A", "NR"}
  PROVE  \A f \in Kept : auth_params(c, m).conn[f] = c[f]
<1> DEFINE right == m.to = c.chal /\ setup.knows
           after == [c EXCEPT !.authenticated = @ \/ right, !.judged = c.chal]
           failed == [c EXCEPT !.chap = "WAIT_A"]
           asked == [c EXCEPT !.chal = @ + 1, !.chap = "WAIT_NR"]
           wrong == [after EXCEPT !.chap = "WAIT_A"]
           done == [after EXCEPT !.chap = "END"]
<1>1. auth_params(c, m).conn \in {failed, asked, wrong, done}
  BY DEF auth_params, AuthResponse, Failed, Goes
<1>2. ASSUME NEW f \in Kept
      PROVE  failed[f] = c[f] /\ asked[f] = c[f] /\ wrong[f] = c[f] /\ done[f] = c[f]
  BY DEF Shaped, Fields, Kept
<1> QED BY <1>1, <1>2

LEMMA ChapTypes ==
  ASSUME NEW c, Shaped(c), ChapTyped(c), NEW m, m # None => m.k \in {"A", "NR"},
         m # None /\ m.k = "A" => c.chal < MaxChallenges
  PROVE  LET a == auth_params(c, m) IN ChapTyped(a.conn) /\ a.challenge \in Challenges
<1> DEFINE a == auth_params(c, m)
           right == m.to = c.chal /\ setup.knows
           after == [c EXCEPT !.authenticated = @ \/ right, !.judged = c.chal]
           failed == [c EXCEPT !.chap = "WAIT_A"]
           asked == [c EXCEPT !.chal = @ + 1, !.chap = "WAIT_NR"]
           wrong == [after EXCEPT !.chap = "WAIT_A"]
           done == [after EXCEPT !.chap = "END"]
<1>1. \/ a.conn \in {failed, wrong, done} /\ a.challenge = None
      \/ c.chal < MaxChallenges /\ a.conn = asked /\ a.challenge = c.chal + 1
  BY DEF auth_params, AuthResponse, Failed, Goes
<1>2. MaxChallenges \in Nat
  BY BoundAssumption
<1>3. /\ after.authenticated \in BOOLEAN /\ after.chap = c.chap
      /\ after.chal = c.chal /\ after.judged = c.chal /\ DOMAIN after = Fields
  BY Zenon DEF Shaped, ChapTyped, Fields
<1>4. ChapTyped(failed)
  BY DEF Shaped, ChapTyped, Fields
<1>5. c.chal < MaxChallenges => ChapTyped(asked)
  BY <1>2 DEF Shaped, ChapTyped, Fields
<1> HIDE DEF after
<1>6. ChapTyped(wrong) /\ ChapTyped(done)
  BY <1>3 DEF Shaped, ChapTyped, Fields
<1> HIDE DEF a, failed, asked, wrong, done
<1>7. ChapTyped(a.conn)
  BY <1>1, <1>4, <1>5, <1>6
<1>8. a.challenge \in Challenges
  BY <1>1, <1>2 DEF ChapTyped, Challenges
<1> QED BY <1>7, <1>8 DEF a

LEMMA StageKeeps ==
  ASSUME NEW c, Busy(c), NEW p, ProperPdu(p)
  PROVE  \A f \in Kept : Stage(c, p).conn[f] = c[f]
<1> DEFINE a == auth_params(c, p.chap)
           passed == [c EXCEPT !.authenticated = TRUE]
<1>1. \A f \in Kept : passed[f] = c[f]
  BY DEF Busy, Shaped, Fields, Kept
<1>2. \A f \in Kept : a.conn[f] = c[f]
  BY ChapKeeps DEF ProperPdu, Busy
<1>3. Security(c, p).conn \in {passed, a.conn}
  BY DEF Security, Outcome
<1>4. Operational(c, p).conn \in {c, passed}
  BY DEF Operational, Outcome
<1>5. Stage(c, p).conn \in {passed, a.conn, c}
  BY <1>3, <1>4 DEF Stage, Outcome
<1> HIDE DEF passed, a
<1> QED BY <1>1, <1>2, <1>5

LEMMA StageTypes ==
  ASSUME NEW c, Busy(c), ChapTyped(c), NEW p, ProperPdu(p),
         p.chap # None /\ p.chap.k = "A" => c.chal < MaxChallenges
  PROVE  ChapTyped(Stage(c, p).conn) /\ Stage(c, p).challenge \in Challenges
<1> DEFINE a == auth_params(c, p.chap)
           passed == [c EXCEPT !.authenticated = TRUE]
           o == Stage(c, p)
<1>1. ChapTyped(passed)
  BY DEF Busy, Shaped, Fields, ChapTyped
<1>2. ChapTyped(a.conn) /\ a.challenge \in Challenges
  BY ChapTypes DEF ProperPdu, Busy
<1>3. Security(c, p).conn \in {passed, a.conn} /\ Security(c, p).challenge \in {None, a.challenge}
  BY DEF Security, Outcome
<1>4. Operational(c, p).conn \in {c, passed} /\ Operational(c, p).challenge = None
  BY DEF Operational, Outcome
<1>5. o.conn \in {passed, a.conn, c} /\ o.challenge \in {None, a.challenge}
  BY <1>3, <1>4 DEF Stage, Outcome
<1> HIDE DEF passed, a, o
<1>6. None \in Challenges
  BY DEF Challenges
<1> QED BY <1>1, <1>2, <1>5, <1>6 DEF o

(* The phase changes when the response says so.                            *)
LEMMA TransitTold ==
  ASSUME NEW p, NEW o, Shaped(o.conn), DOMAIN o = {"conn", "status", "T", "challenge"}
  PROVE  LET r == Transit(o, p)
             moves == r.status = "ok" /\ r.T
         IN  /\ r.challenge = o.challenge
             /\ \A f \in Fields \ {"phase", "full"} : r.conn[f] = o.conn[f]
             /\ moves => /\ p.nsg \in {0, 1, 3} /\ r.conn.phase = PhaseOf(p.nsg)
                         /\ r.conn.full = IF p.nsg = 3 THEN TRUE ELSE o.conn.full
             /\ ~moves => r.conn = o.conn
<1> DEFINE c == o.conn
           r == Transit(o, p)
           at(phase) == [c EXCEPT !.phase = phase]
           full == [c EXCEPT !.phase = "FULLFEATURE", !.full = TRUE]
<1>1. CASE o.status # "ok" \/ ~o.T
  BY <1>1 DEF Transit
<1>2. CASE ~(o.status # "ok" \/ ~o.T)
  <2>1. ASSUME NEW phase
        PROVE  /\ at(phase).phase = phase /\ at(phase).full = c.full
               /\ \A f \in Fields \ {"phase", "full"} : at(phase)[f] = c[f]
    BY DEF Shaped, Fields
  <2>2. /\ full.phase = "FULLFEATURE" /\ full.full = TRUE
        /\ \A f \in Fields \ {"phase", "full"} : full[f] = c[f]
    BY DEF Shaped, Fields
  <2>3. \/ r.conn = at("SECURITY") /\ p.nsg = 0 /\ r.status = "ok" /\ r.T
        \/ r.conn = at("OPERATIONAL") /\ p.nsg = 1 /\ r.status = "ok" /\ r.T
        \/ r.conn = full /\ p.nsg = 3 /\ r.status = "ok" /\ r.T
        \/ r.conn = c /\ r.status # "ok"
    BY <1>2 DEF Transit
  <2>4. r.challenge = o.challenge
    BY <1>2 DEF Transit
  <2> HIDE DEF r, at, full
  <2>5. /\ \A f \in Fields \ {"phase", "full"} : r.conn[f] = c[f]
        /\ r.status = "ok" /\ r.T =>
             /\ p.nsg \in {0, 1, 3} /\ r.conn.phase = PhaseOf(p.nsg)
             /\ r.conn.full = IF p.nsg = 3 THEN TRUE ELSE o.conn.full
        /\ ~(r.status = "ok" /\ r.T) => r.conn = c
    <3>1. PhaseOf(0) = "SECURITY" /\ PhaseOf(1) = "OPERATIONAL" /\ PhaseOf(3) = "FULLFEATURE"
      BY DEF PhaseOf
    <3>2. CASE r.conn = at("SECURITY") /\ p.nsg = 0 /\ r.status = "ok" /\ r.T
      BY <2>1, <3>1, <3>2
    <3>3. CASE r.conn = at("OPERATIONAL") /\ p.nsg = 1 /\ r.status = "ok" /\ r.T
      BY <2>1, <3>1, <3>3
    <3>4. CASE r.conn = full /\ p.nsg = 3 /\ r.status = "ok" /\ r.T
      BY <2>2, <3>1, <3>4
    <3>5. CASE r.conn = c /\ r.status # "ok"
      BY <3>5
    <3> QED BY <2>3, <3>2, <3>3, <3>4, <3>5
  <2> QED BY <2>4, <2>5 DEF r
<1> QED BY <1>1, <1>2

(* The replies to a PDU: one for each key, of the type of the key.         *)
LEMMA ParsedOnce ==
  ASSUME NEW offers, OffersOK(offers), NEW a \in Parsed(offers), NEW b \in Parsed(offers),
         a.key = b.key
  PROVE  a = b
<1>1. offers \in Seq(Range(offers))
  BY DEF OffersOK
<1>2. PICK i \in DOMAIN offers : a = offers[i] /\ \A j \in i + 1 .. Len(offers) : offers[j].key # offers[i].key
  BY DEF Parsed
<1>3. PICK j \in DOMAIN offers : b = offers[j] /\ \A l \in j + 1 .. Len(offers) : offers[l].key # offers[j].key
  BY DEF Parsed
<1>4. DOMAIN offers = 1 .. Len(offers) /\ Len(offers) \in Nat
  BY <1>1
<1>5. ~(i < j) /\ ~(j < i)
  BY <1>2, <1>3, <1>4
<1>6. i = j
  BY <1>4, <1>5
<1> QED BY <1>2, <1>3, <1>6

Replies(params, offers, discovery) ==
  {Reply(params, offer, discovery) : offer \in Parsed(offers)}

LEMMA RepliesOnce ==
  ASSUME NEW params, NEW offers, OffersOK(offers), NEW discovery \in BOOLEAN,
         NEW r \in Replies(params, offers, discovery),
         NEW q \in Replies(params, offers, discovery), r.key = q.key
  PROVE  r = q
<1>1. \A offer : Reply(params, offer, discovery).key = offer.key
  BY DEF Reply
<1>2. PICK a \in Parsed(offers) : r = Reply(params, a, discovery)
  BY DEF Replies
<1>3. PICK b \in Parsed(offers) : q = Reply(params, b, discovery)
  BY DEF Replies
<1>4. a = b
  BY <1>1, <1>2, <1>3, ParsedOnce
<1> QED BY <1>2, <1>3, <1>4

LEMMA ValuesOnce ==
  ASSUME NEW S, \A r, q \in S : r.key = q.key => r = q, NEW r \in S, r.why = "value"
  PROVE  r.key \in DOMAIN Values(S) /\ Values(S)[r.key] = r.val
<1>1. r.key \in DOMAIN Values(S)
  BY Zenon DEF Values
<1>2. PICK q \in S : q.why = "value" /\ q.key = r.key /\ Values(S)[r.key] = q.val
  BY <1>1, ValuesSaid
<1> QED BY <1>1, <1>2

(* A connection's parameters: values of their types, and lists with a first*)
(* name, all names of which are values.                                    *)
Lists ==
  [AuthMethod |-> {<<"CHAP", "None">>, <<"CHAP">>, <<"None">>},
   HeaderDigest |-> {<<"CRC32C", "None">>, <<"CRC32C">>}]
AllTyped(params) ==
  /\ DOMAIN params = Keys
  /\ \A k \in Keys : DOMAIN params[k] = {"val", "list"} /\ params[k].val \in ValuesOf(k)
  /\ \A k \in DOMAIN Lists : params[k].list \in Lists[k]

LEMMA ListValues ==
  ASSUME NEW k \in DOMAIN Lists, NEW list \in Lists[k]
  PROVE  /\ list \in Seq(Range(list)) \ {<<>>} /\ Range(list) \subseteq ValuesOf(k)
         /\ k \in Keys /\ Type[k] = "LIST"
<1> DEFINE Fine(l, S) == l \in Seq(Range(l)) \ {<<>>} /\ Range(l) = S
<1>1. k \in Keys /\ Type[k] = "LIST"
  BY DEF Lists, Keys, Type
<1>2. /\ Fine(<<"CHAP", "None">>, {"CHAP", "None"}) /\ Fine(<<"CRC32C", "None">>, {"CRC32C", "None"})
      /\ Fine(<<"CHAP">>, {"CHAP"}) /\ Fine(<<"None">>, {"None"}) /\ Fine(<<"CRC32C">>, {"CRC32C"})
  BY DEF Range
<1>3. ValuesOf(k) = Range(Defaults[k].list)
  BY <1>1, SMT DEF ValuesOf
<1> HIDE DEF Fine
<1>4. CASE k = "AuthMethod"
  <2>1. Defaults[k].list = <<"CHAP", "None">>
    BY <1>4 DEF Defaults
  <2>2. list = <<"CHAP", "None">> \/ list = <<"CHAP">> \/ list = <<"None">>
    BY <1>4 DEF Lists
  <2>3. Fine(list, {"CHAP", "None"}) \/ Fine(list, {"CHAP"}) \/ Fine(list, {"None"})
    BY <1>2, <2>2, Zenon
  <2>4. ValuesOf(k) = {"CHAP", "None"}
    BY <1>2, <1>3, <2>1 DEF Fine
  <2> QED BY <1>1, <2>3, <2>4 DEF Fine
<1>5. CASE k = "HeaderDigest"
  <2>1. Defaults[k].list = <<"CRC32C", "None">>
    BY <1>5 DEF Defaults
  <2>2. list = <<"CRC32C", "None">> \/ list = <<"CRC32C">>
    BY <1>5 DEF Lists
  <2>3. Fine(list, {"CRC32C", "None"}) \/ Fine(list, {"CRC32C"})
    BY <1>2, <2>2, Zenon
  <2>4. ValuesOf(k) = {"CRC32C", "None"}
    BY <1>2, <1>3, <2>1 DEF Fine
  <2> QED BY <1>1, <2>3, <2>4 DEF Fine
<1> QED BY <1>4, <1>5 DEF Lists

LEMMA ChosenListed ==
  ASSUME NEW list, list \in Seq(Range(list)) \ {<<>>}, NEW offer
  PROVE  Chosen(offer, list) \in Range(list) \cup {None}
<1>1. \A e : Contains(list, e) => e \in Range(list)
  BY DEF Contains, Range
<1>2. Head(list) \in Range(list)
  BY DEF Range
<1> QED BY <1>1, <1>2, Zenon DEF Chosen

LEMMA ResultTyped ==
  ASSUME NEW k \in Keys, NEW params, AllTyped(params), NEW v,
         Type[k] = "DECLARATIVE" => v \in Aliases, Result(k, params[k], v) # None
  PROVE  Result(k, params[k], v) \in ValuesOf(k)
<1> DEFINE cur == params[k]
<1>1. CASE k \in SessKeys
  BY <1>1, ResultTighter DEF AllTyped
<1>2. CASE k \in {"AuthMethod", "HeaderDigest"}
  <2>1. k \in DOMAIN Lists
    BY <1>2 DEF Lists
  <2>2. cur.list \in Lists[k]
    BY <2>1 DEF AllTyped
  <2>3. Result(k, cur, v) = Chosen(v, cur.list)
    BY <2>1, <2>2, ListValues DEF Result
  <2> QED BY <2>1, <2>2, <2>3, ListValues, ChosenListed
<1>3. CASE k = "MaxRecvDataSegmentLength"
  <2>1. Type[k] = "NUMERICAL"
    BY <1>3 DEF Type
  <2>2. ValuesOf(k) = Bounds(k) /\ Bounds(k) = 512 .. Largest
    BY <1>3, <2>1, SMT DEF ValuesOf, Bounds
  <2>3. v \in Bounds(k) /\ Result(k, cur, v) = Smaller(v, TargetMaxRecv)
    BY <1>3, <2>1 DEF Result
  <2> QED BY <2>2, <2>3, TargetMaxRecvAssumption DEF Smaller
<1>4. CASE k = "InitiatorAlias"
  <2>1. Type[k] = "DECLARATIVE"
    BY <1>4 DEF Type
  <2> QED BY <2>1, SMT DEF Result, ValuesOf
<1> QED BY <1>1, <1>2, <1>3, <1>4 DEF SessKeys, ConnKeys

LEMMA ReplyValue ==
  ASSUME NEW params, NEW offer, NEW discovery \in BOOLEAN, NEW r,
         r = Reply(params, offer, discovery), r.why = "value"
  PROVE  LET k == offer.key IN
         k \in Keys /\ r.key = k /\ r.val = Result(k, params[k], offer.val) /\ r.val # None
<1> DEFINE k == offer.key
           w == Result(k, params[k], offer.val)
<1> HIDE DEF w
<1>1. Reply(params, offer, discovery) =
        CASE discovery /\ k \in IrrelevantKeys -> [key |-> k, why |-> "Irrelevant", val |-> None]
          [] k \notin Keys -> [key |-> k, why |-> "NotUnderstood", val |-> None]
          [] OTHER -> [key |-> k, why |-> IF w = None THEN "Reject" ELSE "value", val |-> w]
  BY Zenon DEF Reply, w
<1>2. CASE discovery /\ k \in IrrelevantKeys
  <2>1. r.why \in {"Irrelevant", "NotUnderstood"}
    BY <1>1, <1>2
  <2> QED BY <2>1
<1>3. CASE ~(discovery /\ k \in IrrelevantKeys) /\ k \notin Keys
  BY <1>1, <1>3
<1>4. CASE ~(discovery /\ k \in IrrelevantKeys) /\ k \in Keys
  <2>1. r = [key |-> k, why |-> IF w = None THEN "Reject" ELSE "value", val |-> w]
    BY <1>1, <1>4
  <2> QED BY <1>4, <2>1 DEF w
<1> QED BY <1>2, <1>3, <1>4

LEMMA RepliesTyped ==
  ASSUME NEW params, AllTyped(params), NEW offers, OffersOK(offers),
         NEW discovery \in BOOLEAN, NEW r \in Replies(params, offers, discovery),
         r.why = "value"
  PROVE  r.key \in Keys /\ r.val \in ValuesOf(r.key)
<1>1. PICK i \in DOMAIN offers : r = Reply(params, offers[i], discovery)
  BY DEF Replies, Parsed
<1> DEFINE k == offers[i].key
           v == offers[i].val
<1>2. k \in Keys /\ Type[k] = "DECLARATIVE" => v \in Aliases
  BY DEF OffersOK
<1>3. k \in Keys /\ r.key = k /\ r.val = Result(k, params[k], v) /\ r.val # None
  BY <1>1, ReplyValue
<1> QED BY <1>2, <1>3, ResultTyped

(* The parameters are those of the answers; only a declaration is stored   *)
(* without one.                                                            *)
LEMMA NegotiateTyped ==
  ASSUME NEW params, AllTyped(params), NEW offers, OffersOK(offers), NEW discovery \in BOOLEAN
  PROVE  LET n == Negotiate(params, offers, discovery)
             told == Values(n.answers)
         IN  /\ AllTyped(n.params) /\ DOMAIN told \subseteq Keys
             /\ \A k \in Keys \ {"InitiatorAlias"} :
                  /\ n.params[k].list = params[k].list
                  /\ k \in DOMAIN told => n.params[k].val = told[k]
                  /\ k \notin DOMAIN told => n.params[k] = params[k]
<1> DEFINE R == Replies(params, offers, discovery)
           A == {r \in R : r.key \in Keys => Type[r.key] # "DECLARATIVE"}
           n == Negotiate(params, offers, discovery)
           stored == Values(R)
           told == Values(A)
<1>1. n.params = Set(params, stored) /\ n.answers = A
  BY DEF Negotiate, Replies
<1>2. \A r \in R : r.why = "value" => r.key \in Keys /\ r.val \in ValuesOf(r.key)
  BY RepliesTyped
<1>3. \A r, q \in R : r.key = q.key => r = q
  BY RepliesOnce
<1>4. A \subseteq R
  OBVIOUS
<1>5. \A r \in R : r.key \in Keys \ {"InitiatorAlias"} => r \in A
  BY DEF Keys, Type
<1> HIDE DEF R, A, n
<1>6. ASSUME NEW k \in DOMAIN stored
      PROVE  k \in Keys /\ stored[k] \in ValuesOf(k)
  BY <1>2, ValuesSaid
<1>7. ASSUME NEW k \in DOMAIN told
      PROVE  k \in DOMAIN stored /\ told[k] = stored[k]
  <2>1. PICK r \in A : r.why = "value" /\ r.key = k /\ told[k] = r.val
    BY ValuesSaid
  <2> QED BY <1>3, <1>4, <2>1, ValuesOnce
<1>8. ASSUME NEW k \in DOMAIN stored, k # "InitiatorAlias"
      PROVE  k \in DOMAIN told
  <2>1. PICK r \in R : r.why = "value" /\ r.key = k
    BY ValuesSaid
  <2>2. r \in A
    BY <1>5, <1>6, <1>8, <2>1
  <2> QED BY <1>3, <1>4, <2>1, <2>2, ValuesOnce
<1> HIDE DEF stored, told
<1>9. DOMAIN n.params = Keys /\ DOMAIN params = Keys
  BY <1>1 DEF Set, AllTyped
<1>10. ASSUME NEW k \in Keys
       PROVE  /\ DOMAIN n.params[k] = {"val", "list"} /\ n.params[k].list = params[k].list
              /\ k \in DOMAIN stored => n.params[k].val = stored[k]
              /\ k \notin DOMAIN stored => n.params[k] = params[k]
  <2>1. DOMAIN params[k] = {"val", "list"}
    BY DEF AllTyped
  <2>2. n.params[k] = IF k \in DOMAIN stored THEN [params[k] EXCEPT !.val = stored[k]] ELSE params[k]
    BY <1>1, <1>9 DEF Set
  <2> QED BY <2>1, <2>2
<1>11. AllTyped(n.params)
  <2>1. \A k \in Keys : n.params[k].val \in ValuesOf(k)
    BY <1>6, <1>10 DEF AllTyped
  <2>2. \A k \in DOMAIN Lists : n.params[k].list \in Lists[k]
    BY <1>10 DEF AllTyped, Lists, Keys, Type
  <2> QED BY <1>9, <1>10, <2>1, <2>2 DEF AllTyped
<1>12. DOMAIN told \subseteq Keys
  BY <1>6, <1>7
<1>13. ASSUME NEW k \in Keys \ {"InitiatorAlias"}
       PROVE  /\ n.params[k].list = params[k].list
              /\ k \in DOMAIN told => n.params[k].val = told[k]
              /\ k \notin DOMAIN told => n.params[k] = params[k]
  BY <1>7, <1>8, <1>10
<1> QED BY <1>1, <1>11, <1>12, <1>13 DEF n, told

LEMMA SetTyped ==
  ASSUME NEW params, AllTyped(params), NEW values,
         \A k \in Keys \cap DOMAIN values : values[k] \in ValuesOf(k)
  PROVE  AllTyped(Set(params, values))
<1> DEFINE q == Set(params, values)
<1>1. DOMAIN q = Keys
  BY DEF Set, AllTyped
<1>2. ASSUME NEW k \in Keys
      PROVE  DOMAIN q[k] = {"val", "list"} /\ q[k].list = params[k].list /\ q[k].val \in ValuesOf(k)
  <2>1. DOMAIN params[k] = {"val", "list"} /\ params[k].val \in ValuesOf(k)
    BY DEF AllTyped
  <2>2. q[k] = IF k \in DOMAIN values THEN [params[k] EXCEPT !.val = values[k]] ELSE params[k]
    BY DEF Set, AllTyped
  <2> HIDE DEF q
  <2> QED BY <2>1, <2>2
<1> HIDE DEF q
<1>3. \A k \in DOMAIN Lists : q[k].list \in Lists[k]
  BY <1>2 DEF AllTyped, Lists, Keys, Type
<1> QED BY <1>1, <1>2, <1>3 DEF AllTyped, q

LEMMA ForceTyped ==
  ASSUME NEW params, AllTyped(params), NEW k \in DOMAIN Lists, NEW m, <<m>> \in Lists[k]
  PROVE  AllTyped([params EXCEPT ![k] = [val |-> m, list |-> <<m>>]])
<1> DEFINE q == [params EXCEPT ![k] = [val |-> m, list |-> <<m>>]]
<1>1. k \in Keys /\ m \in ValuesOf(k)
  <2>1. m \in Range(<<m>>)
    BY DEF Range
  <2> QED BY <2>1, ListValues
<1>2. DOMAIN q = Keys /\ q[k] = [val |-> m, list |-> <<m>>] /\ \A l \in Keys \ {k} : q[l] = params[l]
  BY <1>1 DEF AllTyped
<1> HIDE DEF q
<1>3. DOMAIN q[k] = {"val", "list"} /\ q[k].val = m /\ q[k].list = <<m>>
  BY <1>2
<1>4. DOMAIN Lists \subseteq Keys
  BY DEF Lists, Keys, Type
<1> QED BY <1>1, <1>2, <1>3, <1>4 DEF AllTyped, q

TypedConn(c) ==
  /\ c.tag \in Groups /\ c.phase \in Phases /\ c.full \in BOOLEAN
  /\ c.req_auth \in BOOLEAN /\ c.req_mutual \in BOOLEAN
  /\ c.stype \in {"Normal", "Discovery"}
  /\ ChapTyped(c) /\ AllTyped(c.params)
  /\ DOMAIN c.used = UsedKeys /\ \A k \in UsedKeys : c.used[k] \in ValuesOf(k)

(* What an initiator that was told this knows of c, and that c uses what it*)
(* negotiated.                                                             *)
Told(c, told, full, agreed) ==
  /\ told = IF c.phase = "START" THEN "NONE" ELSE c.phase
  /\ full = c.full
  /\ c.phase = "NONE" => DOMAIN agreed = {}
  /\ \A k \in UsedKeys \cap DOMAIN agreed : agreed[k] = c.params[k].val
InUse(c) == c.full => \A k \in UsedKeys : c.used[k] = c.params[k].val

LEMMA UsedAreKeys == UsedKeys \subseteq Keys \ {"InitiatorAlias"}
BY DEF UsedKeys, Keys, Type

LEMMA UpdatedTyped ==
  ASSUME NEW c, Shaped(c), TypedConn(c), Updated(c) # None
  PROVE  LET u == Updated(c) IN
         /\ TypedConn(u) /\ InUse(u)
         /\ \A told, full, agreed : Told(c, told, full, agreed) => Told(u, told, full, agreed)
<1> DEFINE d == copy_param2var(c)
<1>1. Updated(c) = IF c.full THEN d ELSE c
  BY DEF Updated
<1>2. /\ \A f \in Fields \ {"used"} : d[f] = c[f]
      /\ d.used = [k \in UsedKeys |-> c.params[k].val]
  BY DEF copy_param2var, Shaped, Fields
<1> HIDE DEF d
<1>3. /\ d.tag = c.tag /\ d.phase = c.phase /\ d.full = c.full /\ d.req_auth = c.req_auth
      /\ d.req_mutual = c.req_mutual /\ d.stype = c.stype /\ d.params = c.params
      /\ d.authenticated = c.authenticated /\ d.chap = c.chap /\ d.chal = c.chal
      /\ d.judged = c.judged
  BY <1>2 DEF Fields
<1>4. \A k \in UsedKeys : d.used[k] = d.params[k].val /\ d.used[k] \in ValuesOf(k)
  BY <1>2, <1>3, UsedAreKeys DEF TypedConn, AllTyped
<1>5. TypedConn(d)
  BY <1>2, <1>3, <1>4 DEF TypedConn, ChapTyped
<1>6. InUse(d)
  BY <1>4 DEF InUse
<1>7. \A told, full, agreed : Told(c, told, full, agreed) => Told(d, told, full, agreed)
  BY <1>3 DEF Told
<1> QED BY <1>1, <1>5, <1>6, <1>7 DEF InUse

LEMMA ForceAuthTyped ==
  ASSUME NEW c, Shaped(c), TypedConn(c), NEW auth \in AuthModes, NEW mutual \in BOOLEAN
  PROVE  LET a == ForceAuth(c, auth, mutual) IN
         /\ Shaped(a) /\ TypedConn(a) /\ a.full = c.full
<1> DEFINE a == ForceAuth(c, auth, mutual)
           none == [c.params EXCEPT !["AuthMethod"] = [val |-> "None", list |-> <<"None">>]]
           chap == [c.params EXCEPT !["AuthMethod"] = [val |-> "CHAP", list |-> <<"CHAP">>]]
           auto == [c.params EXCEPT !["AuthMethod"] = c.params["AuthMethod"]]
<1>1. AllTyped(c.params)
  BY DEF TypedConn
<1>2. AllTyped(none) /\ AllTyped(chap) /\ AllTyped(auto)
  <2>1. "AuthMethod" \in DOMAIN Lists /\ <<"None">> \in Lists["AuthMethod"] /\ <<"CHAP">> \in Lists["AuthMethod"]
    BY DEF Lists
  <2>2. DOMAIN auto = Keys /\ \A k \in Keys : auto[k] = c.params[k]
    BY <1>1 DEF AllTyped
  <2>3. AllTyped(auto)
    <3>1. DOMAIN Lists \subseteq Keys
      BY DEF Lists, Keys, Type
    <3> HIDE DEF auto
    <3> QED BY <1>1, <2>2, <3>1 DEF AllTyped
  <2> QED BY <1>1, <2>1, <2>3, ForceTyped
<1>3. a.params \in {none, chap, auto}
  <2> DEFINE only(m) == [val |-> m, list |-> <<m>>]
             forced == CASE auth = "none" -> only("None") [] auth = "chap" -> only("CHAP")
                         [] auth = "auto" -> c.params["AuthMethod"]
  <2>1. a.params = [c.params EXCEPT !["AuthMethod"] = forced]
    BY DEF ForceAuth, Shaped, Fields
  <2>2. CASE auth = "none"
    BY <2>1, <2>2
  <2>3. CASE auth = "chap"
    BY <2>1, <2>3
  <2>4. CASE auth = "auto"
    <3>1. forced = c.params["AuthMethod"]
      BY <2>4
    <3> HIDE DEF forced, a
    <3> QED BY <2>1, <3>1
  <2> QED BY <2>2, <2>3, <2>4 DEF AuthModes
<1>4. /\ DOMAIN a = Fields
      /\ \A f \in Fields \ {"req_auth", "req_mutual", "params"} : a[f] = c[f]
      /\ a.req_auth = IF auth = "auto" THEN c.req_auth ELSE auth = "chap"
  BY DEF ForceAuth, Shaped, Fields
<1>5. a.req_mutual \in BOOLEAN
  BY Zenon DEF ForceAuth, Shaped, Fields
<1>6. a.req_auth \in BOOLEAN
  BY <1>4 DEF TypedConn
<1> HIDE DEF a, none, chap, auto
<1>7. AllTyped(a.params)
  BY <1>1, <1>2, <1>3
<1>8. /\ a.tag = c.tag /\ a.phase = c.phase /\ a.full = c.full /\ a.stype = c.stype
      /\ a.used = c.used /\ a.authenticated = c.authenticated /\ a.chap = c.chap
      /\ a.chal = c.chal /\ a.judged = c.judged
  BY <1>4 DEF Fields
<1>9. TypedConn(a) /\ Shaped(a)
  BY <1>4, <1>5, <1>6, <1>7, <1>8 DEF TypedConn, ChapTyped, Shaped, AllTyped
<1> QED BY <1>8, <1>9 DEF a

(* A connection that differs from c in its parameters only.                *)
LEMMA ParamsTyped ==
  ASSUME NEW c, Shaped(c), TypedConn(c), NEW params, AllTyped(params)
  PROVE  LET d == [c EXCEPT !.params = params] IN
         /\ Shaped(d) /\ TypedConn(d) /\ d.params = params
         /\ \A f \in Fields \ {"params"} : d[f] = c[f]
<1> DEFINE d == [c EXCEPT !.params = params]
<1>1. DOMAIN d = Fields /\ d.params = params /\ \A f \in Fields \ {"params"} : d[f] = c[f]
  BY DEF Shaped, Fields
<1> HIDE DEF d
<1>2. /\ d.tag = c.tag /\ d.phase = c.phase /\ d.full = c.full /\ d.stype = c.stype
      /\ d.used = c.used /\ d.authenticated = c.authenticated /\ d.chap = c.chap
      /\ d.chal = c.chal /\ d.judged = c.judged /\ d.req_auth = c.req_auth
      /\ d.req_mutual = c.req_mutual
  BY <1>1 DEF Fields
<1>3. TypedConn(d) /\ Shaped(d)
  BY <1>1, <1>2 DEF TypedConn, ChapTyped, Shaped, AllTyped
<1> QED BY <1>1, <1>3 DEF d

LEMMA StartedTypes ==
  ASSUME NEW c, Shaped(c), TypedConn(c), setup \in Setups, NEW stype \in {"Normal", "Discovery"}
  PROVE  LET s == Started(c, stype) IN
         TypedConn(s) /\ s.phase = "START" /\ s.full = c.full /\ s.chal = c.chal
<1> DEFINE auth == IF stype = "Normal" THEN setup.auth ELSE setup.discovery
           a == ForceAuth(c, auth, setup.mutual)
           d == IF stype = "Normal" THEN ForceDigest(a) ELSE a
           e == create_sess(d)
           s == Started(c, stype)
<1>1. auth \in AuthModes /\ setup.mutual \in BOOLEAN
  BY SetupsAssumption DEF SetupOK
<1> HIDE DEF auth
<1>2. Shaped(a) /\ TypedConn(a) /\ a.full = c.full /\ a.chal = c.chal
  <2>1. a.chal = c.chal
    BY DEF ForceAuth, Shaped, Fields
  <2> QED BY <1>1, <2>1, ForceAuthTyped
<1> HIDE DEF a
<1>3. Shaped(d) /\ TypedConn(d) /\ d.full = c.full /\ d.chal = c.chal
  <2> DEFINE params == [a.params EXCEPT !["HeaderDigest"] = [val |-> "CRC32C", list |-> <<"CRC32C">>]]
             x == [a EXCEPT !.params = params]
  <2>1. AllTyped(params)
    <3>1. "HeaderDigest" \in DOMAIN Lists /\ <<"CRC32C">> \in Lists["HeaderDigest"]
      BY DEF Lists
    <3> QED BY <1>2, <3>1, ForceTyped DEF TypedConn
  <2>2. d \in {a, x}
    BY DEF ForceDigest
  <2> HIDE DEF params
  <2>3. Shaped(x) /\ TypedConn(x) /\ \A f \in Fields \ {"params"} : x[f] = a[f]
    BY <1>2, <2>1, ParamsTyped
  <2> HIDE DEF x, d
  <2> QED BY <1>2, <2>2, <2>3 DEF Fields
<1>4. Shaped(e) /\ TypedConn(e) /\ e.full = c.full /\ e.chal = c.chal
  <2> DEFINE params == Set(d.params, Config)
             x == [d EXCEPT !.params = params]
  <2>1. AllTyped(params)
    BY <1>3, ConfigAssumption, SetTyped DEF TypedConn
  <2>2. e = x
    BY DEF create_sess
  <2> HIDE DEF params, d
  <2>3. Shaped(x) /\ TypedConn(x) /\ \A f \in Fields \ {"params"} : x[f] = d[f]
    BY <1>3, <2>1, ParamsTyped
  <2> HIDE DEF x
  <2> QED BY <1>3, <2>2, <2>3 DEF Fields
<1>5. s = [e EXCEPT !.authenticated = FALSE, !.chap = "WAIT_A", !.stype = stype, !.phase = "START"]
  BY DEF Started, a, d, e, auth
<1> HIDE DEF e, s
<1>6. /\ s.authenticated = FALSE /\ s.chap = "WAIT_A" /\ s.stype = stype /\ s.phase = "START"
      /\ s.tag = e.tag /\ s.full = e.full /\ s.used = e.used /\ s.chal = e.chal
      /\ s.judged = e.judged /\ s.req_auth = e.req_auth /\ s.req_mutual = e.req_mutual
      /\ s.params = e.params
  BY <1>4, <1>5 DEF Shaped, Fields
<1>7. TypedConn(s)
  BY <1>4, <1>6 DEF TypedConn, ChapTyped, Phases
<1> QED BY <1>4, <1>6, <1>7 DEF s

(* The stage and the transit, for the types.                               *)
LEMMA PassageTyped ==
  ASSUME NEW c, Busy(c), TypedConn(c), NEW p, ProperPdu(p),
         p.chap # None /\ p.chap.k = "A" => c.chal < MaxChallenges
  PROVE  LET o == Transit(Stage(c, p), p)
             moves == o.status = "ok" /\ o.T
         IN  /\ Shaped(o.conn) /\ TypedConn(o.conn) /\ o.challenge \in Challenges
             /\ o.conn.params = c.params
             /\ moves => /\ p.nsg \in {0, 1, 3} /\ o.conn.phase = PhaseOf(p.nsg)
                         /\ o.conn.full = IF p.nsg = 3 THEN TRUE ELSE c.full
             /\ ~moves => o.conn.phase = c.phase /\ o.conn.full = c.full
<1> DEFINE g == Stage(c, p)
           o == Transit(g, p)
           moves == o.status = "ok" /\ o.T
<1>1. /\ Busy(g.conn) /\ (g.status = "ok" /\ g.T => g.conn.authenticated)
      /\ \A f \in Kept : g.conn[f] = c[f]
      /\ DOMAIN g = {"conn", "status", "T", "challenge"}
  BY StageBusy, StageKeeps, StageShape
<1>2. ChapTyped(g.conn) /\ g.challenge \in Challenges
  BY StageTypes DEF TypedConn
<1> HIDE DEF g
<1>3. Busy(o.conn)
  BY <1>1, TransitBusy
<1>4. /\ o.challenge = g.challenge
      /\ \A f \in Fields \ {"phase", "full"} : o.conn[f] = g.conn[f]
      /\ moves => /\ p.nsg \in {0, 1, 3} /\ o.conn.phase = PhaseOf(p.nsg)
                  /\ o.conn.full = IF p.nsg = 3 THEN TRUE ELSE g.conn.full
      /\ ~moves => o.conn = g.conn
  BY <1>1, TransitTold DEF Busy
<1> HIDE DEF o
<1>5. /\ g.conn.phase = c.phase /\ g.conn.full = c.full
      /\ o.conn.tag = c.tag /\ o.conn.req_auth = c.req_auth /\ o.conn.req_mutual = c.req_mutual
      /\ o.conn.stype = c.stype /\ o.conn.params = c.params /\ o.conn.used = c.used
      /\ o.conn.authenticated = g.conn.authenticated /\ o.conn.chap = g.conn.chap
      /\ o.conn.chal = g.conn.chal /\ o.conn.judged = g.conn.judged
  BY <1>1, <1>4 DEF Fields, Kept
<1>6. o.conn.phase \in Phases /\ o.conn.full \in BOOLEAN
  BY <1>4, <1>5 DEF TypedConn, Phases, PhaseOf
<1>7. TypedConn(o.conn)
  BY <1>2, <1>5, <1>6 DEF TypedConn, ChapTyped
<1>8. Shaped(o.conn)
  BY <1>3 DEF Busy
<1>9. /\ moves => /\ p.nsg \in {0, 1, 3} /\ o.conn.phase = PhaseOf(p.nsg)
                  /\ o.conn.full = IF p.nsg = 3 THEN TRUE ELSE c.full
      /\ ~moves => o.conn.phase = c.phase /\ o.conn.full = c.full
  BY <1>4, <1>5
<1> QED BY <1>2, <1>4, <1>5, <1>7, <1>8, <1>9 DEF o, g

(* The answers are in the response, so that the initiator is up to date.   *)
LEMMA AnswersTold ==
  ASSUME NEW c, AllTyped(c.params), NEW d, NEW offers, OffersOK(offers), NEW discovery \in BOOLEAN,
         d.params = Negotiate(c.params, offers, discovery).params, d.phase # "NONE",
         NEW agreed, \A k \in UsedKeys \cap DOMAIN agreed : agreed[k] = c.params[k].val,
         NEW full, full = d.full, NEW told, told = IF d.phase = "START" THEN "NONE" ELSE d.phase
  PROVE  Told(d, told, full, Agreed(agreed, Negotiate(c.params, offers, discovery).answers))
<1> DEFINE n == Negotiate(c.params, offers, discovery)
           said == Values(n.answers)
           now == Agreed(agreed, n.answers)
<1>1. \A k \in UsedKeys :
        /\ k \in DOMAIN said => d.params[k].val = said[k]
        /\ k \notin DOMAIN said => d.params[k] = c.params[k]
  BY NegotiateTyped, UsedAreKeys
<1>2. now = [k \in DOMAIN said \cup DOMAIN agreed |-> IF k \in DOMAIN said THEN said[k] ELSE agreed[k]]
  BY DEF Agreed
<1> HIDE DEF said, now
<1>3. \A k \in UsedKeys \cap DOMAIN now : now[k] = d.params[k].val
  <2>1. DOMAIN now = DOMAIN said \cup DOMAIN agreed
    BY <1>2
  <2>2. ASSUME NEW k \in DOMAIN now
        PROVE  now[k] = IF k \in DOMAIN said THEN said[k] ELSE agreed[k]
    BY <1>2, <2>1
  <2>3. ASSUME NEW k \in UsedKeys, k \in DOMAIN now
        PROVE  now[k] = d.params[k].val
    <3>1. CASE k \in DOMAIN said
      BY <1>1, <2>2, <2>3, <3>1
    <3>2. CASE k \notin DOMAIN said
      BY <1>1, <2>1, <2>2, <2>3, <3>2
    <3> QED BY <3>1, <3>2
  <2> QED BY <2>3
<1> QED BY <1>3 DEF Told, now

LEMMA LoginOutcome ==
  ASSUME NEW c, SoundConn(c), TypedConn(c), setup \in Setups, NEW p, ProperPdu(p),
         p.chap # None /\ p.chap.k = "A" => c.chal < MaxChallenges,
         NEW told, NEW full, NEW agreed, Told(c, told, full, agreed)
  PROVE  LET r == op_login(c, p)
             moves == r.status = "ok" /\ r.T
         IN  /\ r.challenge \in Challenges /\ DOMAIN Values(r.answers) \subseteq Keys
             /\ moves => r.nsg \in {0, 1, 3}
             /\ r.conn # None =>
                  /\ TypedConn(r.conn) /\ InUse(r.conn)
                  /\ Told(r.conn, IF moves THEN PhaseOf(r.nsg) ELSE told,
                          full \/ (moves /\ r.nsg = 3), Agreed(agreed, r.answers))
<1> DEFINE r == op_login(c, p)
           moves == r.status = "ok" /\ r.T
           why == IF c.phase = "NONE" THEN Refusal(c, p.id) ELSE None
           stype == SessionType(p.id)
           s == IF c.phase = "NONE" THEN Started(c, stype) ELSE c
           n == Negotiate(s.params, p.offers, s.stype = "Discovery")
           Goal == /\ r.challenge \in Challenges /\ DOMAIN Values(r.answers) \subseteq Keys
                   /\ moves => r.nsg \in {0, 1, 3}
                   /\ r.conn # None =>
                        /\ TypedConn(r.conn) /\ InUse(r.conn)
                        /\ Told(r.conn, IF moves THEN PhaseOf(r.nsg) ELSE told,
                                full \/ (moves /\ r.nsg = 3), Agreed(agreed, r.answers))
<1> SUFFICES Goal
  OBVIOUS
<1>1. ASSUME NEW reason, reason # "ok", r = RefuseLogin(c, p, reason)
      PROVE  Goal
  <2>1. /\ r.conn = Updated(c) /\ r.status = reason /\ r.answers = {} /\ r.challenge = None
    BY <1>1 DEF RefuseLogin
  <2> HIDE DEF r
  <2>2. DOMAIN Values({}) = {}
    BY DEF Values
  <2>3. full = c.full /\ c.full \in BOOLEAN
    BY DEF Told, TypedConn
  <2>4. (full \/ (moves /\ r.nsg = 3)) = full
    BY <1>1, <2>1, <2>3
  <2>5. ASSUME NEW d, Told(d, told, full, agreed)
        PROVE  Told(d, told, full, Agreed(agreed, r.answers))
    <3>1. /\ DOMAIN Agreed(agreed, {}) = DOMAIN agreed
          /\ \A k \in DOMAIN agreed : Agreed(agreed, {})[k] = agreed[k]
      BY <2>2 DEF Agreed
    <3> QED BY <2>1, <2>5, <3>1 DEF Told
  <2>6. r.conn # None => TypedConn(r.conn) /\ InUse(r.conn) /\ Told(r.conn, told, full, agreed)
    BY <2>1, UpdatedTyped DEF SoundConn
  <2> QED BY <1>1, <2>1, <2>2, <2>4, <2>5, <2>6 DEF Challenges
<1>2. CASE ~p.version
  BY <1>1, <1>2 DEF op_login
<1>3. CASE p.version /\ why # None
  <2>1. r = RefuseLogin(c, p, why)
    BY <1>3 DEF op_login
  <2>2. why # "ok"
    BY <1>3 DEF Refusal
  <2> QED BY <1>1, <2>1, <2>2
<1>4. CASE p.version /\ why = None
  <2>1. r = Negotiated(s, p, n)
    BY <1>4 DEF op_login
  <2>2. Busy(s)
    BY StartedBusy DEF SoundConn, Busy
  <2>3. /\ TypedConn(s) /\ s.full = c.full /\ s.chal = c.chal
        /\ s.phase = IF c.phase = "NONE" THEN "START" ELSE c.phase
        /\ c.phase # "NONE" => s.params = c.params
    <3>1. CASE c.phase = "NONE"
      <4>1. stype \in {"Normal", "Discovery"}
        <5>1. Refusal(c, p.id) = None
          BY <1>4, <3>1
        <5>2. p.id # None /\ stype \notin {None, "Other"}
          <6>1. "missing" # None
            BY NoneAssumption
          <6> HIDE DEF stype
          <6> QED BY <5>1, <6>1, Zenon DEF Refusal, stype
        <5> QED BY <5>2 DEF ProperPdu, SessionType
      <4> QED BY <3>1, <4>1, StartedTypes DEF SoundConn
    <3>2. CASE c.phase # "NONE"
      BY <3>2
    <3> QED BY <3>1, <3>2
  <2> DEFINE discovery == s.stype = "Discovery"
             d == [s EXCEPT !.params = n.params]
             o == Transit(Stage(d, p), p)
  <2>4. r.conn = Updated(o.conn) /\ r.status = o.status /\ r.T = o.T /\ r.nsg = p.nsg
        /\ r.answers = n.answers /\ r.challenge = o.challenge
    BY <2>1 DEF Negotiated
  <2> HIDE DEF r, s
  <2>5. AllTyped(n.params) /\ DOMAIN Values(n.answers) \subseteq Keys
    BY <2>3, NegotiateTyped DEF TypedConn, ProperPdu
  <2>6. Busy(d)
    BY <2>2, NegotiatedBusy
  <2>7. /\ TypedConn(d) /\ d.params = n.params /\ d.full = c.full /\ d.chal = c.chal
        /\ d.phase = s.phase
    <3> HIDE DEF n
    <3>1. TypedConn(d) /\ d.params = n.params /\ \A f \in Fields \ {"params"} : d[f] = s[f]
      BY <2>2, <2>3, <2>5, ParamsTyped DEF Busy
    <3> QED BY <2>3, <3>1 DEF Fields
  <2> HIDE DEF d
  <2>8. /\ Shaped(o.conn) /\ TypedConn(o.conn) /\ o.challenge \in Challenges
        /\ o.conn.params = d.params
        /\ moves => /\ p.nsg \in {0, 1, 3} /\ o.conn.phase = PhaseOf(p.nsg)
                    /\ o.conn.full = IF p.nsg = 3 THEN TRUE ELSE d.full
        /\ ~moves => o.conn.phase = d.phase /\ o.conn.full = d.full
    <3>1. /\ Shaped(o.conn) /\ TypedConn(o.conn) /\ o.challenge \in Challenges
          /\ o.conn.params = d.params
          /\ o.status = "ok" /\ o.T =>
               /\ p.nsg \in {0, 1, 3} /\ o.conn.phase = PhaseOf(p.nsg)
               /\ o.conn.full = IF p.nsg = 3 THEN TRUE ELSE d.full
          /\ ~(o.status = "ok" /\ o.T) => o.conn.phase = d.phase /\ o.conn.full = d.full
      BY <2>6, <2>7, PassageTyped
    <3> HIDE DEF o
    <3> QED BY <2>4, <3>1
  <2> HIDE DEF o
  <2>9. /\ full = c.full /\ c.full \in BOOLEAN
        /\ told = IF c.phase = "START" THEN "NONE" ELSE c.phase
        /\ c.phase = "NONE" => DOMAIN agreed = {}
        /\ \A k \in UsedKeys \cap DOMAIN agreed : agreed[k] = c.params[k].val
    BY DEF Told, TypedConn
  <2> DEFINE told1 == IF moves THEN PhaseOf(p.nsg) ELSE told
             full1 == full \/ (moves /\ p.nsg = 3)
  <2>10. full1 = o.conn.full
    <3>1. CASE moves
      BY <2>7, <2>8, <2>9, <3>1
    <3>2. CASE ~moves
      BY <2>7, <2>8, <2>9, <3>2
    <3> QED BY <3>1, <3>2
  <2>11. o.conn.phase # "NONE" /\ told1 = IF o.conn.phase = "START" THEN "NONE" ELSE o.conn.phase
    <3>1. CASE moves
      BY <2>8, <3>1 DEF PhaseOf
    <3>2. CASE ~moves
      BY <2>3, <2>7, <2>8, <2>9, <3>2
    <3> QED BY <3>1, <3>2
  <2>12. \A k \in UsedKeys \cap DOMAIN agreed : agreed[k] = s.params[k].val
    BY <2>3, <2>9
  <2>13. Told(o.conn, told1, full1, Agreed(agreed, n.answers))
    <3> HIDE DEF told1, full1
    <3>1. AllTyped(s.params) /\ OffersOK(p.offers)
      BY <2>3 DEF TypedConn, ProperPdu
    <3> QED BY <2>7, <2>8, <2>10, <2>11, <2>12, <3>1, AnswersTold
  <2>14. r.conn # None =>
           /\ TypedConn(r.conn) /\ InUse(r.conn)
           /\ Told(r.conn, told1, full1, Agreed(agreed, r.answers))
    <3> HIDE DEF told1, full1, n
    <3> QED BY <2>4, <2>8, <2>13, UpdatedTyped
  <2> HIDE DEF n
  <2> QED BY <2>4, <2>5, <2>8, <2>14
<1> QED BY <1>2, <1>3, <1>4

LEMMA TextOutcome ==
  ASSUME NEW c, Busy(c), TypedConn(c), NEW offers, OffersOK(offers), NEW discovery \in BOOLEAN,
         NEW told, NEW full, NEW agreed, Told(c, told, full, agreed)
  PROVE  LET n == Negotiate(c.params, offers, discovery)
             d == Updated([c EXCEPT !.params = n.params])
         IN  /\ DOMAIN Values(n.answers) \subseteq Keys
             /\ d # None => /\ TypedConn(d) /\ InUse(d)
                            /\ Told(d, told, full, Agreed(agreed, n.answers))
<1> DEFINE n == Negotiate(c.params, offers, discovery)
           d == [c EXCEPT !.params = n.params]
           now == Agreed(agreed, n.answers)
<1>1. AllTyped(n.params) /\ DOMAIN Values(n.answers) \subseteq Keys
  BY NegotiateTyped DEF TypedConn
<1>2. /\ Shaped(d) /\ TypedConn(d) /\ d.params = n.params /\ d.full = c.full /\ d.phase = c.phase
  <2> HIDE DEF n
  <2>1. /\ Shaped(d) /\ TypedConn(d) /\ d.params = n.params
        /\ \A f \in Fields \ {"params"} : d[f] = c[f]
    BY <1>1, ParamsTyped DEF Busy
  <2> QED BY <2>1 DEF Fields
<1> HIDE DEF d
<1>3. Told(d, told, full, now)
  <2>1. AllTyped(c.params)
    BY DEF TypedConn
  <2>2. \A k \in UsedKeys \cap DOMAIN agreed : agreed[k] = c.params[k].val
    BY DEF Told
  <2>3. d.phase # "NONE" /\ full = d.full /\ told = IF d.phase = "START" THEN "NONE" ELSE d.phase
    BY <1>2 DEF Busy, Told
  <2> QED BY <1>2, <2>1, <2>2, <2>3, AnswersTold
<1> HIDE DEF n, now
<1>4. Updated(d) # None => TypedConn(Updated(d)) /\ InUse(Updated(d)) /\ Told(Updated(d), told, full, now)
  BY <1>2, <1>3, UpdatedTyped
<1> QED BY <1>1, <1>4 DEF d, n, now

LEMMA ListedGroups ==
  ASSUME setup \in Setups, NEW c, NEW target
  PROVE  Listed(c, target) \in SUBSET Groups
<1>1. \A i \in DOMAIN setup.acl.map : setup.acl.map[i].pg \in Groups
  BY SetupsAssumption DEF SetupOK
<1> QED BY <1>1 DEF Listed, lu_sendtargets

(* The invariant.                                                          *)
IniTyped ==
  /\ DOMAIN ini = {"told", "full", "agreed", "ok", "challenge", "listed", "connects"}
  /\ ini.told \in Phases /\ ini.full \in BOOLEAN /\ ini.ok \in BOOLEAN
  /\ ini.challenge \in Challenges
  /\ DOMAIN ini.agreed \subseteq Keys
  /\ ini.listed \in (SUBSET Groups) \cup {None}
  /\ ini.connects \in 0 .. MaxConnects
Known == TypedConn(conn) /\ InUse(conn) /\ Told(conn, ini.told, ini.full, ini.agreed)
Informed == setup \in Setups /\ IniTyped /\ (conn # None => Known)

LEMMA UnconnectedTyped ==
  ASSUME NEW n \in 0 .. MaxConnects, NEW listed \in (SUBSET Groups) \cup {None},
         ini = Unconnected(n, listed)
  PROVE  IniTyped
<1>1. ini.agreed = <<>> /\ DOMAIN <<>> = {}
  BY DEF Unconnected
<1> QED BY <1>1 DEF Unconnected, IniTyped, Phases, Challenges

LEMMA InitInformed == Init => Informed
<1>1. 0 \in 0 .. MaxConnects
  BY BoundAssumption
<1> QED BY <1>1, UnconnectedTyped DEF Init, Informed

LEMMA LoginInforms ==
  ASSUME NEW p, ProperPdu(p), SoundLogin, Informed, Login(p)
  PROVE  Informed'
<1>1. /\ conn # None /\ SoundConn(conn) /\ Known /\ setup' = setup /\ setup \in Setups /\ IniTyped
      /\ p.chap # None /\ p.chap.k = "A" => conn.chal < MaxChallenges
  BY DEF Login, SoundLogin, Informed
<1>2. CASE p.T /\ p.C
  <2>1. conn' = None /\ ini' = ini
    BY <1>2 DEF Login
  <2> QED BY <1>1, <2>1 DEF Informed, IniTyped
<1>3. CASE ~(p.T /\ p.C)
  <2> DEFINE r == op_login(conn, p)
             moves == r.status = "ok" /\ r.T
             told == IF moves THEN PhaseOf(r.nsg) ELSE ini.told
             full == ini.full \/ (moves /\ r.nsg = 3)
             agreed == Agreed(ini.agreed, r.answers)
  <2>1. /\ conn' = r.conn
        /\ ini' = [ini EXCEPT !.ok = r.status = "ok", !.told = told, !.full = full,
                              !.agreed = agreed, !.challenge = r.challenge]
    BY <1>3 DEF Login
  <2>2. /\ r.challenge \in Challenges /\ DOMAIN Values(r.answers) \subseteq Keys
        /\ moves => r.nsg \in {0, 1, 3}
        /\ r.conn # None => TypedConn(r.conn) /\ InUse(r.conn) /\ Told(r.conn, told, full, agreed)
    BY <1>1, LoginOutcome DEF Known
  <2> HIDE DEF r
  <2>3. told \in Phases
    BY <1>1, <2>2 DEF IniTyped, Phases, PhaseOf
  <2>4. full \in BOOLEAN
    BY Zenon
  <2>5. DOMAIN agreed \subseteq Keys
    BY <1>1, <2>2 DEF Agreed, IniTyped
  <2>6. (r.status = "ok") \in BOOLEAN
    BY Zenon
  <2> HIDE DEF told, full, agreed
  <2> DEFINE ok == r.status = "ok"
  <2>7. ok \in BOOLEAN
    BY <2>6
  <2>8. ini' = [ini EXCEPT !.ok = ok, !.told = told, !.full = full,
                          !.agreed = agreed, !.challenge = r.challenge]
    BY <2>1
  <2> HIDE DEF ok
  <2>9. /\ DOMAIN ini' = DOMAIN ini /\ ini'.ok = ok /\ ini'.told = told /\ ini'.full = full
        /\ ini'.agreed = agreed /\ ini'.challenge = r.challenge
        /\ ini'.listed = ini.listed /\ ini'.connects = ini.connects
    BY <1>1, <2>8 DEF IniTyped
  <2>10. IniTyped'
    BY <1>1, <2>2, <2>3, <2>4, <2>5, <2>7, <2>9 DEF IniTyped
  <2>11. conn' # None => Known'
    BY <2>1, <2>2, <2>9 DEF Known, TypedConn, ChapTyped, InUse, Told
  <2> QED BY <1>1, <2>10, <2>11 DEF Informed
<1> QED BY <1>2, <1>3

LEMMA TextInforms ==
  ASSUME NEW t, ProperText(t), SoundLogin, Informed, Text(t)
  PROVE  Informed'
<1>1. conn # None /\ SoundConn(conn) /\ Known /\ setup' = setup /\ setup \in Setups /\ IniTyped
  BY DEF Text, SoundLogin, Informed
<1>2. CASE ~conn.full \/ (t.F /\ t.C)
  <2>1. conn' = None /\ ini' = ini
    BY <1>2 DEF Text
  <2> QED BY <1>1, <2>1 DEF Informed, IniTyped
<1>3. CASE ~(~conn.full \/ (t.F /\ t.C))
  <2> DEFINE n == Negotiate(conn.params, t.offers, conn.stype = "Discovery")
             d == Updated([conn EXCEPT !.params = n.params])
             agreed == Agreed(ini.agreed, n.answers)
             listed == IF t.target = None THEN ini.listed ELSE Listed(conn, t.target)
  <2>1. conn' = d /\ ini' = [ini EXCEPT !.agreed = agreed, !.listed = listed]
    BY <1>3, Zenon DEF Text
  <2>2. Busy(conn)
    BY <1>1, <1>3 DEF SoundConn, Untouched, Busy
  <2>3. /\ DOMAIN Values(n.answers) \subseteq Keys
        /\ d # None => TypedConn(d) /\ InUse(d) /\ Told(d, ini.told, ini.full, agreed)
    BY <1>1, <2>2, TextOutcome DEF Known, ProperText
  <2> HIDE DEF n, d
  <2>4. DOMAIN agreed \subseteq Keys
    BY <1>1, <2>3 DEF Agreed, IniTyped
  <2>5. listed \in (SUBSET Groups) \cup {None}
    BY <1>1, ListedGroups DEF IniTyped
  <2> HIDE DEF agreed, listed
  <2>6. /\ DOMAIN ini' = DOMAIN ini /\ ini'.ok = ini.ok /\ ini'.told = ini.told
        /\ ini'.full = ini.full /\ ini'.agreed = agreed /\ ini'.challenge = ini.challenge
        /\ ini'.listed = listed /\ ini'.connects = ini.connects
    BY <1>1, <2>1 DEF IniTyped
  <2>7. IniTyped'
    BY <1>1, <2>4, <2>5, <2>6 DEF IniTyped
  <2>8. conn' # None => Known'
    BY <2>1, <2>3, <2>6 DEF Known, TypedConn, ChapTyped, InUse, Told
  <2> QED BY <1>1, <2>7, <2>8 DEF Informed
<1> QED BY <1>2, <1>3

LEMMA DefaultsAllTyped == AllTyped(Defaults)
<1>1. DOMAIN Defaults = Keys
  BY DEF Defaults, Keys, Type
<1>2. Defaults["AuthMethod"] = [val |-> "None", list |-> <<"CHAP", "None">>]
  BY DEF Defaults
<1>3. Defaults["HeaderDigest"] = [val |-> "None", list |-> <<"CRC32C", "None">>]
  BY DEF Defaults
<1>4. ASSUME NEW k \in DOMAIN Lists
      PROVE  /\ DOMAIN Defaults[k] = {"val", "list"} /\ Defaults[k].list \in Lists[k]
             /\ Defaults[k].val \in ValuesOf(k)
  <2>1. DOMAIN Defaults[k] = {"val", "list"} /\ Defaults[k].list \in Lists[k] /\ Defaults[k].val = "None"
    BY <1>2, <1>3 DEF Lists
  <2>2. Type[k] = "LIST" /\ k \in Keys
    BY DEF Lists, Keys, Type
  <2>3. ValuesOf(k) = Range(Defaults[k].list)
    BY <2>2, SMT DEF ValuesOf
  <2>4. Defaults[k].list = <<"CHAP", "None">> \/ Defaults[k].list = <<"CRC32C", "None">>
    BY <1>2, <1>3 DEF Lists
  <2>5. "None" \in Range(<<"CHAP", "None">>) /\ "None" \in Range(<<"CRC32C", "None">>)
    BY DEF Range
  <2>6. "None" \in Range(Defaults[k].list)
    BY <2>4, <2>5, Zenon
  <2> QED BY <2>1, <2>3, <2>6
<1>5. /\ Defaults["MaxRecvDataSegmentLength"].val \in ValuesOf("MaxRecvDataSegmentLength")
      /\ DOMAIN Defaults["MaxRecvDataSegmentLength"] = {"val", "list"}
  <2>1. Defaults["MaxRecvDataSegmentLength"] = [val |-> 8192, list |-> <<>>]
    BY DEF Defaults
  <2>2. Type["MaxRecvDataSegmentLength"] = "NUMERICAL"
    BY DEF Type
  <2>3. ValuesOf("MaxRecvDataSegmentLength") = Bounds("MaxRecvDataSegmentLength")
    BY <2>2, SMT DEF ValuesOf
  <2>4. 8192 \in Bounds("MaxRecvDataSegmentLength")
    <3> DEFINE n == 8192
    <3>1. n \in 512 .. Largest
      <4>1. Largest \in Int /\ 8192 <= Largest
        BY SMT DEF Largest
      <4> QED BY <4>1, SMT
    <3>2. Bounds("MaxRecvDataSegmentLength") = 512 .. Largest
      BY DEF Bounds
    <3>3. n \in Bounds("MaxRecvDataSegmentLength")
      <4> HIDE DEF n
      <4> QED BY <3>1, <3>2, Zenon
    <3> QED BY <3>3
  <2> QED BY <2>1, <2>3, <2>4
<1>6. /\ Defaults["InitiatorAlias"].val \in ValuesOf("InitiatorAlias")
      /\ DOMAIN Defaults["InitiatorAlias"] = {"val", "list"}
  <2> DEFINE none == ""
  <2>1. Defaults["InitiatorAlias"] = [val |-> none, list |-> <<>>]
    BY DEF Defaults
  <2>2. Type["InitiatorAlias"] = "DECLARATIVE"
    BY DEF Type
  <2>3. ValuesOf("InitiatorAlias") = Aliases
    BY <2>2, SMT DEF ValuesOf
  <2>4. none \in Aliases
    BY AliasesAssumption
  <2> HIDE DEF none
  <2> QED BY <2>1, <2>3, <2>4
<1>7. Keys = SessKeys \cup DOMAIN Lists \cup {"MaxRecvDataSegmentLength", "InitiatorAlias"}
  BY DEF SessKeys, ConnKeys, Lists, Keys, Type
<1> QED BY <1>1, <1>4, <1>5, <1>6, <1>7, DefaultsTyped DEF AllTyped

LEMMA NewConnTyped ==
  ASSUME NEW tag \in Groups
  PROVE  TypedConn(NewConn(tag)) /\ InUse(NewConn(tag)) /\ Told(NewConn(tag), "NONE", FALSE, <<>>)
<1> DEFINE c == NewConn(tag)
           used == [HeaderDigest |-> "None", MaxRecvDataSegmentLength |-> 8192,
                    MaxBurstLength |-> 262144, FirstBurstLength |-> 65536,
                    InitialR2T |-> "No", ImmediateData |-> "No"]
<1>1. /\ c.tag = tag /\ c.phase = "NONE" /\ c.full = FALSE /\ c.authenticated = FALSE
      /\ c.req_auth = FALSE /\ c.req_mutual = FALSE /\ c.chap = "WAIT_A" /\ c.chal = 0
      /\ c.judged = 0 /\ c.stype = "Normal" /\ c.params = Defaults /\ c.used = used
  BY DEF NewConn
<1>2. DOMAIN used = UsedKeys /\ \A k \in UsedKeys : used[k] \in ValuesOf(k)
  <2>1. ASSUME NEW k \in UsedKeys \ {"InitialR2T", "ImmediateData"}
        PROVE  used[k] = Defaults[k].val
    <3>1. /\ used["HeaderDigest"] = "None" /\ used["MaxRecvDataSegmentLength"] = 8192
          /\ used["MaxBurstLength"] = 262144 /\ used["FirstBurstLength"] = 65536
      OBVIOUS
    <3>2. /\ Defaults["HeaderDigest"].val = "None" /\ Defaults["MaxRecvDataSegmentLength"].val = 8192
          /\ Defaults["MaxBurstLength"].val = 262144 /\ Defaults["FirstBurstLength"].val = 65536
      BY SMT DEF Defaults
    <3> HIDE DEF used
    <3> QED BY <3>1, <3>2 DEF UsedKeys
  <2>2. ASSUME NEW k \in {"InitialR2T", "ImmediateData"}
        PROVE  used[k] = "No" /\ ValuesOf(k) = Booleans
    <3>1. k \in SessKeys /\ Type[k] \in {"BOOLEAN_OR", "BOOLEAN_AND"}
      BY DEF SessKeys, Keys, ConnKeys, Type
    <3> QED BY <3>1, SessTypes
  <2>3. DOMAIN used = UsedKeys
    BY DEF UsedKeys
  <2> HIDE DEF used
  <2> QED BY <2>1, <2>2, <2>3, DefaultsAllTyped, UsedAreKeys DEF AllTyped, Booleans
<1> HIDE DEF c, used
<1>3. MaxChallenges \in Nat
  BY BoundAssumption
<1>4. ChapTyped(c)
  <2>1. 0 \in 0 .. MaxChallenges
    BY <1>3
  <2> QED BY <1>1, <2>1, Zenon DEF ChapTyped
<1>5. AllTyped(c.params)
  BY <1>1, DefaultsAllTyped
<1>6. DOMAIN c.used = UsedKeys /\ \A k \in UsedKeys : c.used[k] \in ValuesOf(k)
  BY <1>1, <1>2
<1>7. TypedConn(c)
  BY <1>1, <1>4, <1>5, <1>6 DEF TypedConn, Phases
<1>8. InUse(c) /\ Told(c, "NONE", FALSE, <<>>)
  BY <1>1 DEF InUse, Told
<1> QED BY <1>7, <1>8 DEF c

LEMMA NextInformed == SoundLogin /\ Informed /\ [Next]_vars => Informed'
<1> SUFFICES ASSUME SoundLogin, Informed, [Next]_vars
             PROVE  Informed'
  OBVIOUS
<1>1. ASSUME NEW tag \in Groups, Connect(tag)
      PROVE  Informed'
  <2>1. /\ ini' = Unconnected(ini.connects + 1, ini.listed) /\ conn' = NewConn(tag)
        /\ setup' = setup /\ ini.connects < MaxConnects
    BY <1>1 DEF Connect
  <2>2. setup \in Setups /\ IniTyped
    BY DEF Informed
  <2>3. ini.connects + 1 \in 0 .. MaxConnects /\ ini.listed \in (SUBSET Groups) \cup {None}
    BY <2>1, <2>2, BoundAssumption DEF IniTyped
  <2>4. IniTyped'
    <3>1. ini'.agreed = <<>> /\ DOMAIN <<>> = {}
      BY <2>1 DEF Unconnected
    <3> QED BY <2>1, <2>3, <3>1 DEF Unconnected, IniTyped, Phases, Challenges
  <2>5. ini'.told = "NONE" /\ ini'.full = FALSE /\ ini'.agreed = <<>>
    BY <2>1 DEF Unconnected
  <2> DEFINE d == NewConn(tag)
  <2>6. TypedConn(d) /\ InUse(d) /\ Told(d, "NONE", FALSE, <<>>) /\ conn' = d
    BY <2>1, NewConnTyped
  <2> HIDE DEF d
  <2>7. Known'
    BY <2>5, <2>6 DEF Known, TypedConn, ChapTyped, InUse, Told
  <2> QED BY <2>1, <2>2, <2>4, <2>7 DEF Informed
<1>2. CASE Disconnect
  BY <1>2 DEF Disconnect, Informed, IniTyped
<1>3. CASE Honest
  BY <1>2, <1>3, HonestPdus, LoginInforms, TextInforms
<1>4. ASSUME NEW p \in Pdus, Login(p)
      PROVE  Informed'
  BY <1>4, LoginInforms, PduIsProper
<1>5. ASSUME NEW t \in Texts, Text(t)
      PROVE  Informed'
  BY <1>5, TextInforms, PduIsProper
<1>6. CASE UNCHANGED vars
  <2>1. setup' = setup /\ conn' = conn /\ ini' = ini
    BY <1>6 DEF vars
  <2>2. IniTyped'
    BY <2>1 DEF Informed, IniTyped
  <2>3. conn # None => Known'
    BY <2>1 DEF Informed, Known, TypedConn, ChapTyped, InUse, Told
  <2> QED BY <2>1, <2>2, <2>3 DEF Informed
<1> QED BY <1>1, <1>2, <1>3, <1>4, <1>5, <1>6 DEF Next, Other

LEMMA InformedAlways == Spec => [](SoundLogin /\ Informed)
<1>1. Init => SoundLogin /\ Informed
  BY InitSoundLogin, InitInformed
<1>2. SoundLogin /\ Informed /\ [Next]_vars => (SoundLogin /\ Informed)'
  BY NextSoundLogin, NextInformed
<1> QED BY <1>1, <1>2, PTL DEF Spec

LEMMA InformedInStep == Informed => InStep
<1> SUFFICES ASSUME Informed PROVE InStep
  OBVIOUS
<1>1. TypeOK
  <2>1. setup \in Setups /\ IniTyped /\ (conn # None => TypedConn(conn))
    BY DEF Informed, Known
  <2>2. conn # None => \A k \in Keys : conn.params[k].val \in ValuesOf(k)
    BY <2>1 DEF TypedConn, AllTyped
  <2> QED BY <2>1, <2>2 DEF TypeOK, IniTyped, TypedConn, ChapTyped, AllTyped, Challenges
<1>2. PhaseAgreed
  BY DEF Informed, Known, Told, PhaseAgreed
<1> QED BY <1>1, <1>2 DEF InStep

(* The variables have their types, among them that every parameter stays   *)
(* within its bounds and its list, and the initiator is always right about *)
(* the phase of the login, however many of its PDUs are refused.           *)
THEOREM LoginInStep == Spec => []InStep
BY InformedAlways, InformedInStep, PTL

-----------------------------------------------------------------------------
(* The answers fit the offers.  No induction over the parameters is needed:*)
(* their types say enough of them.                                         *)
LEMMA GreatestIndex ==
  ASSUME NEW n \in Nat, NEW I \in SUBSET (1 .. n), I # {}
  PROVE  \E i \in I : \A j \in I : j <= i
<1> DEFINE R == {p \in Nat \X Nat : p[1] < p[2]}
           D == {n - i : i \in I}
<1>1. IsWellFoundedOn(R, Nat)
  BY NatLessThanWellFounded DEF OpToRel
<1>8. \A i \in I : i \in Int /\ n - i \in Nat
  OBVIOUS
<1>2. D \subseteq Nat /\ D # {}
  <2>1. PICK i : i \in I
    OBVIOUS
  <2>2. n - i \in D
    BY <2>1
  <2> QED BY <1>8, <2>2
<1>3. \E x \in D : \A y \in D : ~ (<<y, x>> \in R)
  <2> HIDE DEF R, D
  <2> QED BY <1>1, <1>2, WFMin
<1>4. \A x, y \in Nat : ~(<<y, x>> \in R) => x <= y
  OBVIOUS
<1>5. PICK x \in D : \A y \in D : x <= y
  BY <1>2, <1>3, <1>4
<1>6. PICK i \in I : x = n - i
  OBVIOUS
<1>7. ASSUME NEW j \in I
      PROVE  j <= i
  <2>1. n - j \in D
    OBVIOUS
  <2>2. n - i <= n - j
    BY <1>5, <1>6, <2>1
  <2>3. i \in Int /\ j \in Int
    BY <1>8
  <2> HIDE DEF D, R
  <2> QED BY <2>2, <2>3
<1> QED BY <1>7

(* An offer of a PDU is left when it is the last of its key.               *)
LEMMA ParsedIsLast ==
  ASSUME NEW offers, OffersOK(offers), NEW offer \in Parsed(offers)
  PROVE  /\ offer.key \in {offers[i].key : i \in DOMAIN offers}
         /\ offer.val = LastOffer(offers, offer.key)
         /\ \E i \in DOMAIN offers : offer = offers[i]
<1>1. DOMAIN offers = 1 .. Len(offers) /\ Len(offers) \in Nat
  BY DEF OffersOK
<1>2. PICK i \in DOMAIN offers :
        offer = offers[i] /\ \A j \in i + 1 .. Len(offers) : offers[j].key # offers[i].key
  BY DEF Parsed
<1> DEFINE I == {j \in 1 .. Len(offers) : offers[j].key = offer.key}
<1>3. i \in I /\ \A j \in I : j <= i
  BY <1>1, <1>2
<1>4. SelectLastInSeq(offers, LAMBDA o : o.key = offer.key) = Max(I)
  BY <1>3 DEF SelectLastInSeq
<1>5. Max(I) = i
  <2>1. I \subseteq Int
    BY <1>1
  <2> HIDE DEF I
  <2> QED BY <1>3, <2>1 DEF Max
<1>6. LastOffer(offers, offer.key) = offers[i].val
  BY <1>4, <1>5 DEF LastOffer
<1> QED BY <1>2, <1>6

LEMMA OfferedIsParsed ==
  ASSUME NEW offers, OffersOK(offers), NEW k \in {offers[i].key : i \in DOMAIN offers}
  PROVE  \E offer \in Parsed(offers) : offer.key = k
<1>1. DOMAIN offers = 1 .. Len(offers) /\ Len(offers) \in Nat
  BY DEF OffersOK
<1> DEFINE I == {j \in 1 .. Len(offers) : offers[j].key = k}
<1>2. I # {} /\ I \subseteq 1 .. Len(offers)
  BY <1>1
<1>3. PICK i \in I : \A j \in I : j <= i
  <2> HIDE DEF I
  <2> QED BY <1>1, <1>2, GreatestIndex
<1>4. \A j \in i + 1 .. Len(offers) : offers[j].key # offers[i].key
  BY <1>1, <1>3
<1>5. offers[i] \in Parsed(offers)
  BY <1>1, <1>3, <1>4 DEF Parsed
<1> QED BY <1>3, <1>5

LEMMA ResultFits ==
  ASSUME NEW k \in Keys, NEW params, AllTyped(params), NEW v,
         Type[k] = "LIST" => v \in Seq(Range(v)) \ {<<>>},
         Type[k] # "DECLARATIVE", Result(k, params[k], v) # None
  PROVE  Fits(k, params[k], v, Result(k, params[k], v))
<1> DEFINE cur == params[k]
           w == Result(k, cur, v)
<1>1. \A n \in Bounds(k) : n \in Int
  BY BoundsAreNumbers
<1>2. CASE Type[k] = "LIST"
  <2>1. k \in DOMAIN Lists
    BY <1>2 DEF Lists, Keys, Type
  <2>2. cur.list \in Seq(Range(cur.list)) \ {<<>>}
    BY <2>1, ListValues DEF AllTyped
  <2>3. \A s : s \in Seq(Range(s)) \ {<<>>} =>
          Contains(s, Head(s)) /\ \A e : Contains(Tail(s), e) => Contains(s, e)
    BY DEF Contains
  <2>4. w = Chosen(v, cur.list)
    BY <1>2 DEF Result
  <2> HIDE DEF cur, w
  <2>5. Contains(v, w) /\ Contains(cur.list, w)
    BY <1>2, <2>2, <2>3, <2>4 DEF Chosen, w, cur
  <2> QED BY <1>2, <2>5 DEF Fits, cur, w
<1>3. CASE Type[k] = "NUMERICAL"
  <2>1. v \in Bounds(k) /\ w = Smaller(v, IF k = "MaxRecvDataSegmentLength" THEN TargetMaxRecv ELSE cur.val)
    BY <1>3 DEF Result
  <2>2. cur.val \in Bounds(k)
    BY <1>3, SMT DEF AllTyped, ValuesOf
  <2>3. k = "MaxRecvDataSegmentLength" => TargetMaxRecv \in Bounds(k)
    BY TargetMaxRecvAssumption DEF Bounds
  <2> HIDE DEF cur, w
  <2>4. w \in Bounds(k) /\ w <= v /\ w <= IF k = "MaxRecvDataSegmentLength" THEN TargetMaxRecv ELSE cur.val
    BY <1>1, <2>1, <2>2, <2>3 DEF Smaller
  <2> QED BY <1>3, <2>4 DEF Fits, cur, w
<1>4. CASE Type[k] = "NUMERICAL_MAX"
  <2>1. v \in Bounds(k) /\ w = Larger(v, cur.val)
    BY <1>4 DEF Result
  <2>2. cur.val \in Bounds(k)
    BY <1>4, SMT DEF AllTyped, ValuesOf
  <2> HIDE DEF cur, w
  <2>3. w \in Bounds(k) /\ w >= v /\ w >= cur.val
    BY <1>1, <2>1, <2>2 DEF Larger
  <2> QED BY <1>4, <2>3 DEF Fits, cur, w
<1>5. CASE Type[k] \in {"BOOLEAN_OR", "BOOLEAN_AND"}
  <2>1. cur.val \in Booleans
    BY <1>5, SMT DEF AllTyped, ValuesOf
  <2> HIDE DEF cur
  <2>2. CASE Type[k] = "BOOLEAN_OR"
    BY <2>1, <2>2 DEF Fits, Result, Booleans, cur
  <2>3. CASE Type[k] = "BOOLEAN_AND"
    BY <2>1, <2>3 DEF Fits, Result, Booleans, cur
  <2> QED BY <1>5, <2>2, <2>3
<1> QED BY <1>2, <1>3, <1>4, <1>5 DEF Keys, Type

LEMMA RepliesFit ==
  ASSUME NEW params, AllTyped(params), NEW offers, OffersOK(offers), NEW discovery \in BOOLEAN,
         NEW offer \in Parsed(offers), NEW r, r = Reply(params, offer, discovery),
         r.why = "value", Type[r.key] # "DECLARATIVE"
  PROVE  Fits(r.key, params[r.key], offer.val, r.val)
<1> DEFINE k == offer.key
           v == offer.val
           w == Result(k, params[k], v)
<1>1. k \in Keys /\ r.key = k /\ r.val = w /\ w # None
  BY ReplyValue
<1>2. Type[k] = "LIST" => v \in Seq(Range(v)) \ {<<>>}
  <2>1. PICK i \in DOMAIN offers : offer = offers[i]
    BY ParsedIsLast
  <2> QED BY <1>1, <2>1 DEF OffersOK
<1> HIDE DEF w
<1>3. Fits(k, params[k], v, w)
  BY <1>1, <1>2, ResultFits DEF w
<1> QED BY <1>1, <1>3

LEMMA AnswersFitTyped ==
  ASSUME NEW params, AllTyped(params), NEW offers, OffersOK(offers), NEW discovery \in BOOLEAN,
         NEW n, n = Negotiate(params, offers, discovery)
  PROVE  AllFit(params, offers, n)
<1> DEFINE offered == {offers[i].key : i \in DOMAIN offers}
           R == Replies(params, offers, discovery)
           A == n.answers
<1>1. A = {r \in R : r.key \in Keys => Type[r.key] # "DECLARATIVE"}
  BY DEF Negotiate, Replies
<1>2. \A offer : Reply(params, offer, discovery).key = offer.key
  BY DEF Reply
<1>3. \A r, q \in A : r.key = q.key => r = q
  BY <1>1, RepliesOnce
<1>4. ASSUME NEW k \in offered \ {"InitiatorAlias"}
      PROVE  Cardinality({a \in A : a.key = k}) = 1
  <2>1. PICK offer \in Parsed(offers) : offer.key = k
    BY OfferedIsParsed
  <2> DEFINE r == Reply(params, offer, discovery)
  <2>2. r \in R /\ r.key = k
    BY <1>2, <2>1 DEF Replies
  <2> HIDE DEF r, R, A
  <2>3. r \in A
    BY <1>1, <2>2 DEF Keys, Type
  <2>4. {a \in A : a.key = k} = {r}
    BY <1>3, <2>2, <2>3
  <2> QED BY <2>4, FS_Singleton
<1>5. ASSUME NEW a \in A
      PROVE  /\ a.key \in offered
             /\ a.why = "value" => /\ Fits(a.key, params[a.key], LastOffer(offers, a.key), a.val)
                                   /\ n.params[a.key].val = a.val
  <2>1. PICK offer \in Parsed(offers) : a = Reply(params, offer, discovery)
    BY <1>1 DEF Replies
  <2>2. a.key = offer.key /\ a \in R
    BY <1>1, <1>2, <2>1
  <2>3. a.key \in offered /\ offer.val = LastOffer(offers, a.key)
    BY <2>2, ParsedIsLast
  <2>4. ASSUME a.why = "value"
        PROVE  /\ Fits(a.key, params[a.key], LastOffer(offers, a.key), a.val)
               /\ n.params[a.key].val = a.val
    <3>1. a.key \in Keys
      BY <2>2, <2>4, RepliesTyped
    <3>2. Type[a.key] # "DECLARATIVE"
      BY <1>1, <3>1
    <3>3. Fits(a.key, params[a.key], offer.val, a.val)
      BY <2>1, <2>4, <3>2, RepliesFit
    <3>4. a.key \in DOMAIN Values(A) /\ Values(A)[a.key] = a.val
      BY <1>3, <2>4, ValuesOnce
    <3>5. a.key # "InitiatorAlias"
      BY <3>2 DEF Type
    <3>6. n.params[a.key].val = a.val
      BY <3>1, <3>4, <3>5, NegotiateTyped
    <3> QED BY <2>3, <3>3, <3>6
  <2> QED BY <2>3, <2>4
<1>6. \A k \in Keys \ (DOMAIN Values(A) \cup {"InitiatorAlias"}) : n.params[k] = params[k]
  BY NegotiateTyped
<1> QED BY <1>4, <1>5, <1>6 DEF AllFit

(* Whatever is offered, repeated keys included, each key is answered once, *)
(* with a value open to both sides, and what the transfers use is what the *)
(* initiator was told last.                                                *)
THEOREM AgreementReached == Spec => []Agreement
<1>1. ASSUME SoundLogin, Informed
      PROVE  AnswersFit
  <2>1. ASSUME conn # None, NEW p \in Pdus, NEW n,
               n = Negotiate(conn.params, p.offers, conn.stype = "Discovery")
        PROVE  AllFit(conn.params, p.offers, n)
    <3>1. AllTyped(conn.params) /\ OffersOK(p.offers)
      BY <1>1, <2>1, PduIsProper DEF Informed, Known, TypedConn, ProperPdu
    <3> QED BY <2>1, <3>1, AnswersFitTyped
  <2> QED BY <2>1 DEF AnswersFit
<1>2. Informed => AgreedIsUsed
  BY DEF Informed, Known, InUse, Told, AgreedIsUsed
<1>3. SoundLogin /\ Informed => Agreement
  BY <1>1, <1>2 DEF Agreement
<1> QED BY <1>3, InformedAlways, PTL
=============================================================================
