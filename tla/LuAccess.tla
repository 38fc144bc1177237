------------------------------ MODULE LuAccess ------------------------------
(***************************************************************************)
(* Which initiators may log in to a logical unit and which portal groups   *)
(* SendTargets lists.  A unit has a sequence of mappings from a portal     *)
(* group to an initiator group; an initiator group has names, some of them *)
(* denied, and netmasks.  The first name that applies decides.             *)
(***************************************************************************)
EXTENDS Integers, Sequences, SequencesExt

ALL == "ALL"

(* An address is its family and its bits; a netmask of n bits covers the   *)
(* addresses of its family that start as it does, and ALL every address.   *)
allow_netmask(mask, addr) ==
  \/ mask.family = ALL
  \/ /\ mask.family = addr.family
     /\ SubSeq(mask.addr, 1, mask.bits) = SubSeq(addr.addr, 1, mask.bits)

Names(entry, iqn) == entry.name \in {ALL, iqn}

(* The names of the initiator groups of the mappings that are taken, in    *)
(* order, each with the netmasks of its group; a group that does not exist *)
(* has none.                                                               *)
Entries(acl, taken) ==
  FlattenSeq([i \in DOMAIN acl.map |->
    IF i \in taken /\ acl.map[i].ig \in DOMAIN acl.group
      THEN LET g == acl.group[acl.map[i].ig] IN
           [j \in DOMAIN g.initiators |->
              [name |-> g.initiators[j].name, deny |-> g.initiators[j].deny,
               netmasks |-> g.netmasks]]
      ELSE <<>>])

(* The first of the names that apply decides.                              *)
Verdict(applying) == applying # <<>> /\ ~Head(applying).deny

(* Login through the portals of group tag: a name that is allowed counts   *)
(* only from an address of its group.                                      *)
lu_access(acl, tag, iqn, addr) ==
  LET Applies(e) == /\ Names(e, iqn)
                    /\ \/ e.deny \/ e.netmasks = {}
                       \/ \E m \in e.netmasks : allow_netmask(m, addr)
  IN  Verdict(SelectSeq(Entries(acl, {i \in DOMAIN acl.map : acl.map[i].pg = tag}), Applies))

(* The unit is listed to whom it is visible: through any of its groups, if *)
(* the portal asked is of one of them.                                     *)
lu_visible(acl, tag, iqn) ==
  /\ \E i \in DOMAIN acl.map : acl.map[i].pg = tag
  /\ Verdict(SelectSeq(Entries(acl, DOMAIN acl.map), LAMBDA e : Names(e, iqn)))

FaultyPg_visible(acl, tag, iqn) ==
  Verdict(SelectSeq(Entries(acl, {1}), LAMBDA e : Names(e, iqn)))

(* A portal group is listed by its first mapping.                          *)
pg_visible(acl, tag, iqn) ==
  LET first == SelectInSeq(acl.map, LAMBDA m : m.pg = tag) IN
  /\ first # 0
  /\ Verdict(SelectSeq(Entries(acl, {first}), LAMBDA e : Names(e, iqn)))

(* The portal groups listed to an initiator that asks through group tag.   *)
lu_sendtargets(acl, tag, iqn) ==
  IF lu_visible(acl, tag, iqn)
    THEN {pg \in {acl.map[i].pg : i \in DOMAIN acl.map} : pg_visible(acl, pg, iqn)}
    ELSE {}
=============================================================================
