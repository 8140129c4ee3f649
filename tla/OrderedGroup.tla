---------------------------- MODULE OrderedGroup ----------------------------
(***************************************************************************)
(* An ordered group of ifrit (grouper.NewOrdered) under a signal monitor   *)
(* (sigmon), as both daemons use it.  The library is not part of the       *)
(* repository; it is modelled by what the two main functions rely on.      *)
(*                                                                         *)
(* Members are started one after the other, each when the one before is    *)
(* ready.  A signal, or the end of any member, makes the group stop the    *)
(* members in reverse order, waiting for each, and return an error if one  *)
(* of them did.                                                            *)
(***************************************************************************)
EXTENDS Integers, Sequences

VARIABLES members,     \* the members of this group, in their order
          member,      \* how far the Run of each one has come
          wasReady,    \* who has closed its ready channel, the group among them
          told,        \* the members that have been sent a signal
          group,       \* how far the group has come
          groupSignal  \* a signal waits for the group

groupVars == <<members, member, wasReady, told, group, groupSignal>>

Launched(i) == member[members[i]] # "new"
Ended(i)    == member[members[i]] \in {"stopped", "failed"}

Launch(i) ==
  /\ group = "starting"
  /\ ~Launched(i)
  /\ \A j \in 1..(i - 1) : members[j] \in wasReady
  /\ member' = [member EXCEPT ![members[i]] = "starting"]
  /\ UNCHANGED <<members, wasReady, told, group, groupSignal>>

GroupReady ==
  /\ group = "starting"
  /\ \A i \in DOMAIN members : members[i] \in wasReady
  /\ group' = "ready"
  /\ wasReady' = wasReady \cup {"group"}
  /\ UNCHANGED <<members, member, told, groupSignal>>

\* In a select: whatever else could be received is left.
BeginStop ==
  /\ group \in {"starting", "ready"}
  /\ Launched(1)
  /\ groupSignal \/ \E i \in DOMAIN members : Ended(i)
  /\ group' = "stopping"
  /\ groupSignal' = FALSE
  /\ UNCHANGED <<members, member, wasReady, told>>

Tell(i) ==
  /\ group = "stopping"
  /\ Launched(i) /\ ~Ended(i) /\ members[i] \notin told
  /\ \A j \in (i + 1)..Len(members) : Launched(j) => Ended(j)
  /\ told' = told \cup {members[i]}
  /\ UNCHANGED <<members, member, wasReady, group, groupSignal>>

GroupExits ==
  /\ group = "stopping"
  /\ \A i \in DOMAIN members : Launched(i) => Ended(i)
  /\ group' = IF \E i \in DOMAIN members : member[members[i]] = "failed"
              THEN "error" ELSE "ok"
  /\ UNCHANGED <<members, member, wasReady, told, groupSignal>>

GroupStep ==
  \/ \E i \in DOMAIN members : Launch(i) \/ Tell(i)
  \/ GroupReady \/ BeginStop \/ GroupExits

-----------------------------------------------------------------------------
(* What the Run of a member does to the group.                             *)

\* close(ready)
BecomesReady(m) ==
  /\ member[m] = "starting"
  /\ member' = [member EXCEPT ![m] = "ready"]
  /\ wasReady' = wasReady \cup {m}
  /\ UNCHANGED <<members, told, group, groupSignal>>

ReturnsError(m, from) ==
  /\ member[m] = from
  /\ member' = [member EXCEPT ![m] = "failed"]
  /\ UNCHANGED <<members, wasReady, told, group, groupSignal>>

\* It receives its signal, for which it looks only once it is ready.
ReceivesSignal(m) ==
  /\ member[m] = "ready"
  /\ m \in told
  /\ member' = [member EXCEPT ![m] = "stopped"]
  /\ UNCHANGED <<members, wasReady, told, group, groupSignal>>

=============================================================================
