-------------------------- MODULE ParamNegotiation --------------------------
(***************************************************************************)
(* The negotiation of text parameters, istgt_iscsi_negotiate_params: what  *)
(* the target answers to the keys of a login or text PDU and what it keeps.*)
(* The tables have one key of each kind and of each use in the transfers;  *)
(* values are numbers, "Yes" and "No", or, for a list, names.  A value     *)
(* that strtol or strcasecmp does not accept is out of range or "Maybe".   *)
(***************************************************************************)
EXTENDS Integers, Sequences, SequencesExt, FiniteSets

CONSTANTS
  TargetMaxRecv,   \* conn->TargetMaxRecvDataSegmentLength
  Aliases,         \* what an initiator may declare, "" if it does not
  None

(* The largest number of the tables, 2^24 - 1.                             *)
Largest == 16777215
ASSUME TargetMaxRecvAssumption == TargetMaxRecv \in 512 .. Largest
ASSUME AliasesAssumption == "" \in Aliases

(* conn_param_table and sess_param_table: the kind of each key, and the    *)
(* smallest and largest number.                                            *)
Type ==
  [AuthMethod |-> "LIST", HeaderDigest |-> "LIST",
   MaxRecvDataSegmentLength |-> "NUMERICAL",
   MaxBurstLength |-> "NUMERICAL", FirstBurstLength |-> "NUMERICAL",
   DefaultTime2Wait |-> "NUMERICAL_MAX",
   InitialR2T |-> "BOOLEAN_OR", ImmediateData |-> "BOOLEAN_AND",
   InitiatorAlias |-> "DECLARATIVE"]
Keys == DOMAIN Type
ConnKeys == {"AuthMethod", "HeaderDigest", "MaxRecvDataSegmentLength"}
Bounds(k) == IF k = "DefaultTime2Wait" THEN 0 .. 3600 ELSE 512 .. Largest

(* Of no meaning in a discovery session.                                   *)
IrrelevantKeys == {"MaxBurstLength", "FirstBurstLength", "InitialR2T", "ImmediateData"}

(* The parameters of a connection and its session: the value and, for a    *)
(* list, the values the target takes, preferred first.                     *)
Defaults ==
  LET Entry(v, l) == [val |-> v, list |-> l] IN
  [AuthMethod |-> Entry("None", <<"CHAP", "None">>),
   HeaderDigest |-> Entry("None", <<"CRC32C", "None">>),
   MaxRecvDataSegmentLength |-> Entry(8192, <<>>),
   MaxBurstLength |-> Entry(262144, <<>>), FirstBurstLength |-> Entry(65536, <<>>),
   DefaultTime2Wait |-> Entry(2, <<>>),
   InitialR2T |-> Entry("Yes", <<>>), ImmediateData |-> Entry("Yes", <<>>),
   InitiatorAlias |-> Entry("", <<>>)]

Booleans == {"Yes", "No"}
ValuesOf(k) ==
  CASE Type[k] = "LIST" -> Range(Defaults[k].list)
    [] Type[k] \in {"NUMERICAL", "NUMERICAL_MAX"} -> Bounds(k)
    [] Type[k] \in {"BOOLEAN_OR", "BOOLEAN_AND"} -> Booleans
    [] OTHER -> Aliases

-----------------------------------------------------------------------------
(* strsepq cuts the list of the target at its first comma, so that only    *)
(* the first value offered is compared with all of it.                     *)
Chosen(offer, list) ==
  IF Contains(list, Head(offer)) THEN Head(offer)
  ELSE IF Contains(Tail(offer), Head(list)) THEN Head(list) ELSE None

Smaller(a, b) == IF a < b THEN a ELSE b
Larger(a, b)  == IF a > b THEN a ELSE b

FaultyResult_last(k, cur, offer) ==
  CASE Type[k] = "LIST" -> Chosen(offer, cur.list)
    [] Type[k] = "NUMERICAL" /\ offer \in Bounds(k) ->
         Smaller(offer, IF k = "MaxRecvDataSegmentLength" THEN TargetMaxRecv ELSE cur.val)
    [] Type[k] = "NUMERICAL_MAX" /\ offer \in Bounds(k) -> offer
    [] Type[k] \in {"BOOLEAN_OR", "BOOLEAN_AND"} /\ offer \in Booleans -> offer
    [] Type[k] = "DECLARATIVE" -> offer
    [] OTHER -> None

(* The value that results from an offer, None if it is rejected.           *)
Result(k, cur, offer) ==
  CASE Type[k] = "LIST" -> Chosen(offer, cur.list)
    [] Type[k] = "NUMERICAL" /\ offer \in Bounds(k) ->
         Smaller(offer, IF k = "MaxRecvDataSegmentLength" THEN TargetMaxRecv ELSE cur.val)
    [] Type[k] = "NUMERICAL_MAX" /\ offer \in Bounds(k) -> Larger(offer, cur.val)
    [] Type[k] = "BOOLEAN_OR" /\ (cur.val = "Yes" \/ offer \in Booleans) ->
         IF cur.val = "Yes" THEN "Yes" ELSE offer
    [] Type[k] = "BOOLEAN_AND" /\ (cur.val = "No" \/ offer \in Booleans) ->
         IF cur.val = "No" THEN "No" ELSE offer
    [] Type[k] = "DECLARATIVE" -> offer
    [] OTHER -> None

(* What becomes of one key of the PDU.                                     *)
Reply(params, offer, discovery) ==
  LET k == offer.key
      Says(why, v) == [key |-> k, why |-> why, val |-> v]
  IN  CASE discovery /\ k \in IrrelevantKeys -> Says("Irrelevant", None)
        [] k \notin Keys -> Says("NotUnderstood", None)
        [] OTHER -> LET v == Result(k, params[k], offer.val) IN
                    Says(IF v = None THEN "Reject" ELSE "value", v)

FaultyParsed(offers) == Range(offers)

(* istgt_iscsi_param_add: a key that comes again replaces the earlier one. *)
Parsed(offers) ==
  {offers[i] : i \in {i \in DOMAIN offers :
     \A j \in i + 1 .. Len(offers) : offers[j].key # offers[i].key}}

(* What a set of replies settles.                                          *)
Values(replies) ==
  LET said == {r \in replies : r.why = "value"} IN
  [k \in {r.key : r \in said} |-> (CHOOSE r \in said : r.key = k).val]

(* Storing values.                                                         *)
Set(params, values) ==
  [k \in DOMAIN params |->
     IF k \in DOMAIN values THEN [params[k] EXCEPT !.val = values[k]] ELSE params[k]]

(* All keys of a PDU.  As no key is left twice, each meets the parameters  *)
(* as they were; a value that is accepted is stored, and a declaration is  *)
(* not answered.                                                           *)
Negotiate(params, offers, discovery) ==
  LET replies == {Reply(params, offer, discovery) : offer \in Parsed(offers)} IN
  [params |-> Set(params, Values(replies)),
   answers |-> {r \in replies : r.key \in Keys => Type[r.key] # "DECLARATIVE"}]
=============================================================================
