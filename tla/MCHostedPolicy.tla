---------------------------- MODULE MCHostedPolicy ----------------------------
(***************************************************************************)
(* Small instances of HostedPolicy: a role and a grant that refers to it;  *)
(* version v1 is active.                                                   *)
(***************************************************************************)
EXTENDS HostedPolicy

MCWords   == {"v1", "v2", "draft", "rollback"}
MCObjects == {"role", "grant"}
MCNeeds   == [o \in MCObjects |-> IF o = "grant" THEN {"role"} ELSE {}]
MCUpdateOnly == {"grant"}

V1 == <<"v1">>
EmptyGraph == [o \in MCObjects |-> "absent"]

MCVersions == <<[version |-> V1, fingerprint |-> [seed |-> V1, links |-> <<>>], status |-> "active",
                 previous |-> None, graph |-> EmptyGraph]>>

Upsert(object) == [object |-> object, operation |-> "upsert"]
Revoke(object) == [object |-> object, operation |-> "revoke"]

\* A request with the fields it needs; the others are left out or not read.
Plain(op, draft, actor) ==
  [op |-> op, actor |-> actor, key |-> None, draft |-> draft, base |-> None,
   version |-> None, target |-> V1, fingerprint |-> None, change |-> Upsert("role"), seq |-> 0]

Begin1(draft, actor, version) == [Plain("begin_draft", draft, actor) EXCEPT !.version = version]
Change(draft, actor, change)  == [Plain("apply_change", draft, actor) EXCEPT !.change = change]
Review(draft, actor)          == Plain("request_review", draft, actor)
Promote(draft, actor, key)    == [Plain("promote", draft, actor) EXCEPT !.key = key]
Rollback(actor, key, target)  == [Plain("rollback", "d1", actor) EXCEPT !.key = key, !.target = target]

\* A draft from v1 that gives a role and a grant, sent to review.
Reviewed(draft, actor, version) ==
  LET seen(seq, object) == [draft |-> draft, base |-> V1, version |-> version,
                            seq |-> seq, change |-> Upsert(object)]
  IN [status |-> "review_requested", actor |-> actor, base |-> V1, version |-> version,
      fingerprint |-> [seed |-> <<>>, links |-> <<seen(1, "role"), seen(2, "grant")>>],
      promoted |-> <<>>,
      changes |-> [i \in 1..MaxChanges |->
                     CASE i = 1 -> Upsert("role") [] i = 2 -> Upsert("grant") [] OTHER -> None]]

MCDrafts == {"d1", "d2"}
NoDrafts == [d \in MCDrafts |-> NoDraft]
BothReviewed == [d \in MCDrafts |->
  IF d = "d1" THEN Reviewed("d1", "ann", <<"v2">>) ELSE Reviewed("d2", "bob", <<"v2", "draft">>)]

\* One draft from its beginning to its promotion, with a change that comes late,
\* and a second draft of the same actor.
LifecycleAsk ==
  [b1 |-> Begin1("d1", "ann", None), b2 |-> Begin1("d2", "ann", <<"v2">>),
   c1 |-> Change("d1", "ann", Upsert("role")),
   c2 |-> [Change("d1", "ann", Revoke("role")) EXCEPT !.seq = 1],
   s1 |-> Review("d1", "ann"), p1 |-> Promote("d1", "ann", "k1")]

\* Two reviewed drafts are promoted, while a key is used for two rollbacks, one
\* of them under the name of the second draft.
RaceAsk ==
  [p1 |-> Promote("d1", "ann", "k1"), q1 |-> Promote("d2", "bob", "k2"),
   r1 |-> Rollback("bob", "k3", V1),
   r2 |-> [Rollback("bob", "k3", V1) EXCEPT !.version = <<"v2", "draft">>]]

\* A promotion is sent twice, and its draft is not the only one.
DuplicateAsk ==
  [p1 |-> Promote("d1", "ann", "k1"), p2 |-> Promote("d1", "ann", "k1"),
   q1 |-> Promote("d2", "bob", "k2")]

\* A caller that names the active version as the base of an older draft.
StaleAsk ==
  [p1 |-> Promote("d1", "ann", "k1"),
   q1 |-> [Promote("d2", "bob", "k2") EXCEPT !.base = <<"v2">>]]

ChangeAsk == [b1 |-> Begin1("d1", "ann", None), c1 |-> Change("d1", "ann", Upsert("role")),
              s1 |-> Review("d1", "ann")]

MCKeys == {"k1", "k2", "k3"}
MCActors == {"ann", "bob"}

LifecycleIds == DOMAIN LifecycleAsk
RaceIds      == DOMAIN RaceAsk
DuplicateIds == DOMAIN DuplicateAsk
StaleIds     == DOMAIN StaleAsk
ChangeIds    == DOMAIN ChangeAsk

=============================================================================
