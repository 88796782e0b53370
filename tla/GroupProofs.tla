---------------------------- MODULE GroupProofs -----------------------------
(***************************************************************************)
(* However many use cases work on a group at a time and wherever they      *)
(* crash, its members were invited, who accepted is a member, and who was  *)
(* removed never was a member under the keys in use.                       *)
(***************************************************************************)
EXTENDS GroupMembership, TLAPS

-----------------------------------------------------------------------------
(* The inductive invariant.                                                *)

\* Whatever there is of the group is there because its id has been generated.
StartedInv ==
  /\ exists => started
  /\ ~ exists => epoch = 0
  /\ \A h \in Handlers : pc[h] # "idle" => started
  /\ \A i \in Invites : invites[i] # "none" => started

\* An invitation that is being made is nowhere yet, and nobody else works on it.
InvitingInv ==
  /\ \A h \in Handlers : pc[h] = "inviting" =>
       /\ invites[invite[h]] = "none"
       /\ \A k \in Handlers \ {h} : invite[k] # invite[h]
  /\ \A h \in Handlers : pc[h] \in {"creating", "rotating"} => invite[h] = None

Invited(p) == \E i \in Invites : Invitee[i] = p /\ invites[i] = "accepted"

\* Whom a planned group lists was invited.
PlanInv ==
  \A h \in Handlers, p \in Peers : plan[h].members[p] \in {"member", "removed"} => Invited(p)

\* A group that is saved for an invitation lists its invitee.
SavingInv ==
  \A h \in Handlers : pc[h] \in {"saving", "listing"} /\ invite[h] # None =>
    plan[h].members[Invitee[invite[h]]] # "none"

RemovedFrom(ms) == {p \in Peers : ms[p] = "removed"}

\* Who was removed, in the tables or in the group that is being saved, was in
\* no member list under the epoch the group is in; later epochs are unused.
ForcesInv ==
  /\ \A e \in 0..MaxEpoch : e > epoch => forces[e] = {}
  /\ \A p \in RemovedFrom(members) : p \notin UNION forces[epoch]
  /\ \A h \in Handlers : pc[h] = "listing" =>
       \A p \in RemovedFrom(plan[h].members) : p \notin UNION forces[epoch]

\* A group that nobody saved since it was read is saved in a later epoch, or in
\* the same one with nobody removed who was not removed before.
FreshInv ==
  \A h \in fresh :
    \/ loop = Nobody /\ pc[h] \in {"creating", "rotating"}
    \/ pc[h] = "saving"
    => \/ plan[h].epoch > epoch
       \/ plan[h].epoch = epoch /\ RemovedFrom(plan[h].members) \subseteq RemovedFrom(members)

Inv ==
  /\ TypeOK
  /\ StartedInv
  /\ InvitingInv
  /\ PlanInv
  /\ SavingInv
  /\ MembersWereInvited
  /\ AcceptedIsMember
  /\ ~ stale => ForcesInv /\ FreshInv

-----------------------------------------------------------------------------
(* The groups that the use cases make, and the rows they leave.            *)

LEMMA NewGroupIs ==
  ASSUME NEW owner \in Peers
  PROVE  /\ NewGroup(owner) \in Group
         /\ NewGroup(owner).epoch = 0
         /\ \A p \in Peers : NewGroup(owner).members[p] \in {"owner", "none"}
BY GroupAssumption DEF NewGroup, Group, Seat

LEMMA StoredIs ==
  ASSUME TypeOK
  PROVE  Stored \in Group /\ Stored.epoch = epoch /\ Stored.members = members
BY DEF Stored, Group, TypeOK

LEMMA AddMemberIs ==
  ASSUME NEW g \in Group, NEW p \in Peers
  PROVE  /\ AddMember(g, p) \in Group
         /\ AddMember(g, p).epoch = g.epoch
         /\ AddMember(g, p).members[p] = "member"
         /\ \A q \in Peers \ {p} : AddMember(g, p).members[q] = g.members[q]
BY DEF AddMember, Group, Seat

LEMMA RotatedIs ==
  ASSUME NEW g \in Group, g.epoch < MaxEpoch
  PROVE  LET r == [g EXCEPT !.epoch = @ + 1] IN
         r \in Group /\ r.epoch = g.epoch + 1 /\ r.members = g.members
BY GroupAssumption DEF Group

LEMMA RemoveMemberIs ==
  ASSUME NEW g \in Group, g.epoch < MaxEpoch, NEW p \in Peers
  PROVE  /\ RemoveMember(g, p) \in Group
         /\ RemoveMember(g, p).epoch = g.epoch + 1
         /\ \A q \in Peers \ {p} : RemoveMember(g, p).members[q] = g.members[q]
<1>1. g.epoch \in 0..MaxEpoch /\ g.members \in [Peers -> Seat]
  BY DEF Group
<1>2. g.epoch + 1 \in 0..MaxEpoch /\ [g.members EXCEPT ![p] = "removed"] \in [Peers -> Seat]
  BY <1>1, GroupAssumption DEF Seat
<1> QED BY <1>1, <1>2 DEF RemoveMember, Group

\* A planned member is written or the row stays; no row goes.
LEMMA UpsertedIs ==
  ASSUME TypeOK, NEW g \in Group, NEW S \in SUBSET Peers
  PROVE  /\ Upserted(g, S) \in [Peers -> Seat]
         /\ \A p \in Peers : /\ Upserted(g, S)[p] \in {g.members[p], members[p]}
                             /\ members[p] # "none" => Upserted(g, S)[p] # "none"
                             /\ p \in S /\ g.members[p] # "none" =>
                                  Upserted(g, S)[p] = g.members[p]
<1>1. g.members \in [Peers -> Seat] /\ members \in [Peers -> Seat]
  BY DEF Group, TypeOK
<1>2. \A p \in Peers : Upserted(g, S)[p] =
        IF p \in S /\ g.members[p] # "none" THEN g.members[p] ELSE members[p]
  BY DEF Upserted
<1>3. Upserted(g, S) \in [Peers -> Seat]
  BY <1>1 DEF Upserted
<1> QED BY <1>2, <1>3

LEMMA InForceIs ==
  ASSUME TypeOK, NEW ms \in [Peers -> Seat], InForce(epoch, ms)
  PROVE  /\ forces' \in [0..MaxEpoch -> SUBSET SUBSET Peers]
         /\ \A e \in 0..MaxEpoch \ {epoch} : forces'[e] = forces[e]
         /\ \A p \in Peers : p \in UNION forces'[epoch]
                             => p \in UNION forces[epoch] \/ p \in Active(ms)
<1>1. Active(ms) \in SUBSET Peers
  BY DEF Active
<1>2. forces' = [forces EXCEPT ![epoch] =
                   IF Active(ms) = {} THEN forces[epoch]
                                      ELSE forces[epoch] \cup {Active(ms)}]
  BY DEF InForce
<1>3. epoch \in 0..MaxEpoch /\ forces \in [0..MaxEpoch -> SUBSET SUBSET Peers]
  BY DEF TypeOK
<1>4. forces'[epoch] \subseteq forces[epoch] \cup {Active(ms)}
  BY <1>2, <1>3
<1> QED BY <1>1, <1>2, <1>3, <1>4

-----------------------------------------------------------------------------
(* What the parts of the handlers do to the handlers' own state.           *)

\* A handler that begins to wait for the port.
LEMMA WaitEffect ==
  ASSUME TypeOK, NEW h \in Handlers, NEW state \in Waiting,
         NEW i \in Invites \cup {None}, NEW g \in Group, Wait(h, state, i, g),
         state \in {"inviting", "accepting"} => i \in Invites, started' \in BOOLEAN
  PROVE  /\ TypeOK'
         /\ loop = Nobody /\ loop' = Nobody /\ pc[h] = "idle"
         /\ pc'[h] = state /\ invite'[h] = i /\ plan'[h] = g
         /\ \A k \in Handlers \ {h} :
              pc'[k] = pc[k] /\ invite'[k] = invite[k] /\ plan'[k] = plan[k]
         /\ fresh' = fresh \cup {h}
         /\ UNCHANGED <<exists, epoch, members, invites, stale, forces, torn, crashes>>
<1>1. /\ loop = Nobody /\ loop' = Nobody /\ pc[h] = "idle"
      /\ pc'     = [pc EXCEPT ![h] = state]
      /\ invite' = [invite EXCEPT ![h] = i]
      /\ plan'   = [plan EXCEPT ![h] = g]
      /\ fresh'  = fresh \cup {h}
      /\ UNCHANGED <<exists, epoch, members, invites, stale, forces, torn, crashes>>
  BY DEF Wait, group
<1>2. state \notin {"saving", "listing"} /\ Nobody \notin Handlers
  BY GroupAssumption DEF Waiting
<1> QED BY <1>1, <1>2 DEF TypeOK

\* A handler that is over.
LEMMA DoneEffect ==
  ASSUME TypeOK, NEW h \in Handlers, Done(h), loop \in {Nobody, h}
  PROVE  /\ pc' \in [Handlers -> Waiting \cup {"idle", "saving", "listing"}]
         /\ invite' \in [Handlers -> Invites \cup {None}]
         /\ plan' \in [Handlers -> Group]
         /\ loop' = Nobody
         /\ \A k \in Handlers : pc'[k] \notin {"saving", "listing"}
         /\ pc'[h] = "idle" /\ invite'[h] = None /\ plan'[h] = NewGroup(Owner)
         /\ \A k \in Handlers \ {h} :
              pc'[k] = pc[k] /\ invite'[k] = invite[k] /\ plan'[k] = plan[k]
<1>1. NewGroup(Owner) \in Group /\ Nobody \notin Handlers
  BY NewGroupIs, GroupAssumption
<1> QED BY <1>1 DEF Done, TypeOK

\* An invitation that was accepted stays so.
LEMMA InvitedStays ==
  ASSUME NEW p \in Peers, Invited(p),
         \A i \in Invites : invites[i] = "accepted" => invites'[i] = "accepted"
  PROVE  Invited(p)'
BY DEF Invited

-----------------------------------------------------------------------------
(* The use cases up to the call of the port.                               *)

\* Waiting for the port keeps the invariant if the handler has a right to the
\* invitation, and has planned what the tables allow.
LEMMA WaitKeepsInv ==
  ASSUME Inv, NEW h \in Handlers, NEW state \in Waiting,
         NEW i \in Invites \cup {None}, NEW g \in Group, Wait(h, state, i, g), started',
         started' \in BOOLEAN,
         state \in {"creating", "rotating"} => i = None,
         state \in {"inviting", "accepting"} => i \in Invites,
         state = "inviting" => invites[i] = "none" /\ \A k \in Handlers : invite[k] # i,
         state = "accepting" => invites[i] # "none",
         \A p \in Peers : g.members[p] \in {"member", "removed"} => Invited(p),
         state \in {"creating", "rotating"} =>
           \/ g.epoch > epoch
           \/ g.epoch = epoch /\ RemovedFrom(g.members) \subseteq RemovedFrom(members)
  PROVE  Inv'
<1>1. /\ TypeOK'
      /\ loop = Nobody /\ loop' = Nobody /\ pc[h] = "idle"
      /\ pc'[h] = state /\ invite'[h] = i /\ plan'[h] = g
      /\ \A k \in Handlers \ {h} :
           pc'[k] = pc[k] /\ invite'[k] = invite[k] /\ plan'[k] = plan[k]
      /\ fresh' = fresh \cup {h}
      /\ UNCHANGED <<exists, epoch, members, invites, stale, forces, torn, crashes>>
  BY WaitEffect DEF Inv
<1>2. state \notin {"idle", "saving", "listing"}
  BY DEF Waiting
<1>3. StartedInv'
  BY <1>1 DEF Inv, StartedInv
<1>4. InvitingInv'
  <2>1. ASSUME NEW k \in Handlers, pc'[k] = "inviting"
        PROVE  /\ invites[invite'[k]] = "none"
               /\ \A j \in Handlers \ {k} : invite'[j] # invite'[k]
    <3>1. CASE k = h
      BY <1>1, <2>1, <3>1
    <3>2. CASE k # h
      <4>1. pc[k] = "inviting" /\ invite'[k] = invite[k] /\ invite[k] \in Invites
        BY <1>1, <2>1, <3>2 DEF Inv, TypeOK
      <4>2. /\ invites[invite[k]] = "none"
            /\ \A j \in Handlers \ {k} : invite[j] # invite[k]
        BY <4>1 DEF Inv, InvitingInv
      <4>3. i # invite[k]
        BY <4>1, <4>2, GroupAssumption DEF Waiting
      <4> QED BY <1>1, <4>1, <4>2, <4>3
    <3> QED BY <3>1, <3>2
  <2>2. \A k \in Handlers : pc'[k] \in {"creating", "rotating"} => invite'[k] = None
    BY <1>1 DEF Inv, InvitingInv
  <2> QED BY <1>1, <2>1, <2>2 DEF InvitingInv
<1>5. PlanInv'
  BY <1>1 DEF Inv, PlanInv, Invited
<1>6. SavingInv'
  BY <1>1, <1>2 DEF Inv, SavingInv
<1>7. MembersWereInvited' /\ AcceptedIsMember'
  <2>1. MembersWereInvited'
    BY <1>1 DEF Inv, MembersWereInvited
  <2>2. AcceptedIsMember'
    BY <1>1 DEF Inv, AcceptedIsMember
  <2> QED BY <2>1, <2>2
<1>8. ASSUME ~ stale'
      PROVE  ForcesInv' /\ FreshInv'
  <2>1. ForcesInv /\ FreshInv
    BY <1>1, <1>8 DEF Inv
  <2>2. ForcesInv'
    <3>1. \A k \in Handlers : pc'[k] = "listing" => pc[k] = "listing" /\ plan'[k] = plan[k]
      BY <1>1, <1>2
    <3> QED BY <1>1, <2>1, <3>1 DEF ForcesInv
  <2>3. FreshInv'
    <3>1. ASSUME NEW k \in fresh', k # h,
                 \/ loop' = Nobody /\ pc'[k] \in {"creating", "rotating"}
                 \/ pc'[k] = "saving"
          PROVE  \/ plan'[k].epoch > epoch
                 \/ /\ plan'[k].epoch = epoch
                    /\ RemovedFrom(plan'[k].members) \subseteq RemovedFrom(members)
      <4>1. k \in fresh /\ pc'[k] = pc[k] /\ plan'[k] = plan[k]
        BY <1>1, <3>1 DEF Inv, TypeOK
      <4> QED BY <1>1, <2>1, <3>1, <4>1 DEF FreshInv
    <3>2. ASSUME pc'[h] \in {"creating", "rotating"}
          PROVE  \/ plan'[h].epoch > epoch
                 \/ /\ plan'[h].epoch = epoch
                    /\ RemovedFrom(plan'[h].members) \subseteq RemovedFrom(members)
      BY <1>1, <3>2
    <3> QED BY <1>1, <1>2, <3>1, <3>2 DEF FreshInv
  <2> QED BY <2>2, <2>3
<1> QED BY <1>1, <1>3, <1>4, <1>5, <1>6, <1>7, <1>8 DEF Inv

\* A group just read may be planned.
LEMMA StoredIsInvited ==
  ASSUME Inv
  PROVE  \A p \in Peers : Stored.members[p] \in {"member", "removed"} => Invited(p)
BY StoredIs DEF Inv, MembersWereInvited, Invited

LEMMA CreateGroupKeepsInv ==
  ASSUME Inv, NEW h \in Handlers, CreateGroup(h)
  PROVE  Inv'
<1>1. ~ started /\ started' = TRUE /\ Wait(h, "creating", None, NewGroup(Owner))
  BY DEF CreateGroup
<1>2. epoch = 0
  BY <1>1 DEF Inv, StartedInv
<1>3. NewGroup(Owner) \in Group /\ NewGroup(Owner).epoch = 0
      /\ \A p \in Peers : NewGroup(Owner).members[p] \in {"owner", "none"}
  BY NewGroupIs, GroupAssumption
<1>4. RemovedFrom(NewGroup(Owner).members) = {}
  BY <1>3 DEF RemovedFrom
<1> QED BY <1>1, <1>2, <1>3, <1>4, WaitKeepsInv DEF Waiting

LEMMA InvitePeerKeepsInv ==
  ASSUME Inv, NEW h \in Handlers, NEW i \in Invites, InvitePeer(h, i)
  PROVE  Inv'
<1>1. /\ exists /\ started' = started
      /\ invites[i] = "none" /\ \A k \in Handlers : invite[k] # i
      /\ Wait(h, "inviting", i, Stored)
  BY DEF InvitePeer
<1>2. started' /\ started' \in BOOLEAN /\ Stored \in Group
  BY <1>1, StoredIs DEF Inv, StartedInv, TypeOK
<1> QED BY <1>1, <1>2, StoredIsInvited, WaitKeepsInv DEF Waiting

LEMMA AcceptInvitationKeepsInv ==
  ASSUME Inv, NEW h \in Handlers, NEW i \in Invites, AcceptInvitation(h, i)
  PROVE  Inv'
<1>1. /\ invites[i] = "pending_inbound" /\ started' = started
      /\ Wait(h, "accepting", i, NewGroup(Inviter[i]))
  BY DEF AcceptInvitation
<1>2. started' /\ started' \in BOOLEAN
  BY <1>1 DEF Inv, StartedInv, TypeOK
<1>3. NewGroup(Inviter[i]) \in Group
      /\ \A p \in Peers : NewGroup(Inviter[i]).members[p] \in {"owner", "none"}
  BY NewGroupIs, GroupAssumption
<1> QED BY <1>1, <1>2, <1>3, WaitKeepsInv DEF Waiting

LEMMA RemoveGroupMemberKeepsInv ==
  ASSUME Inv, NEW h \in Handlers, NEW p \in Peers, RemoveGroupMember(h, p)
  PROVE  Inv'
<1> DEFINE g == RemoveMember(Stored, p)
<1>1. /\ exists /\ started' = started /\ epoch < MaxEpoch /\ members[p] = "member"
      /\ Wait(h, "rotating", None, g)
  BY DEF RemoveGroupMember
<1>2. started' /\ started' \in BOOLEAN /\ Stored \in Group /\ Stored.epoch = epoch
      /\ Stored.members = members
  BY <1>1, StoredIs DEF Inv, StartedInv, TypeOK
<1>3. g \in Group /\ g.epoch = epoch + 1 /\ \A q \in Peers \ {p} : g.members[q] = members[q]
  BY <1>1, <1>2, RemoveMemberIs
<1>4. \A q \in Peers : g.members[q] \in {"member", "removed"} => Invited(q)
  BY <1>1, <1>2, <1>3, StoredIsInvited
<1>5. g.epoch > epoch
  BY <1>3 DEF Inv, TypeOK
<1> HIDE DEF g
<1> QED BY <1>1, <1>2, <1>3, <1>4, <1>5, WaitKeepsInv DEF Waiting

LEMMA RotateGroupKeysKeepsInv ==
  ASSUME Inv, NEW h \in Handlers, RotateGroupKeys(h)
  PROVE  Inv'
<1> DEFINE g == [Stored EXCEPT !.epoch = @ + 1]
<1>1. /\ exists /\ started' = started /\ epoch < MaxEpoch
      /\ Wait(h, "rotating", None, g)
  BY DEF RotateGroupKeys
<1>2. started' /\ started' \in BOOLEAN /\ Stored \in Group /\ Stored.epoch = epoch
  BY <1>1, StoredIs DEF Inv, StartedInv, TypeOK
<1>3. g \in Group /\ g.epoch = epoch + 1 /\ g.members = Stored.members
  BY <1>1, <1>2, RotatedIs
<1>4. g.epoch > epoch
  BY <1>3 DEF Inv, TypeOK
<1> HIDE DEF g
<1> QED BY <1>1, <1>2, <1>3, <1>4, StoredIsInvited, WaitKeepsInv DEF Waiting

-----------------------------------------------------------------------------
(* The use cases after the port has answered.                              *)

\* A handler that ends and saves nothing but its invitation, not accepted, keeps
\* the invariant.
LEMMA DoneKeepsInv ==
  ASSUME Inv, NEW h \in Handlers, loop = Nobody, Done(h),
         UNCHANGED <<started, group, history, crashes>>,
         invites' \in [Invites -> InviteStatus],
         \A i \in Invites : invites'[i] # invites[i] =>
           /\ invites[i] # "accepted" /\ invites'[i] # "accepted" /\ started
           /\ \A k \in Handlers \ {h} : pc[k] = "inviting" => invite[k] # i
  PROVE  Inv'
<1>1. /\ pc' \in [Handlers -> Waiting \cup {"idle", "saving", "listing"}]
      /\ invite' \in [Handlers -> Invites \cup {None}]
      /\ plan' \in [Handlers -> Group]
      /\ loop' = Nobody
      /\ \A k \in Handlers : pc'[k] \notin {"saving", "listing"}
      /\ pc'[h] = "idle" /\ invite'[h] = None /\ plan'[h] = NewGroup(Owner)
      /\ \A k \in Handlers \ {h} :
           pc'[k] = pc[k] /\ invite'[k] = invite[k] /\ plan'[k] = plan[k]
  BY DoneEffect DEF Inv
<1>2. UNCHANGED <<started, exists, epoch, members, stale, fresh, forces, torn, crashes>>
  BY DEF group, history
<1>3. \A i \in Invites : invites'[i] = "accepted" <=> invites[i] = "accepted"
  OBVIOUS
<1>4. TypeOK'
  BY <1>1, <1>2, GroupAssumption DEF Inv, TypeOK
<1>5. StartedInv'
  BY <1>1, <1>2 DEF Inv, StartedInv
<1>6. InvitingInv'
  <2>1. ASSUME NEW k \in Handlers, pc'[k] = "inviting"
        PROVE  /\ invites'[invite'[k]] = "none"
               /\ \A j \in Handlers \ {k} : invite'[j] # invite'[k]
    <3>1. k # h /\ pc[k] = "inviting" /\ invite'[k] = invite[k] /\ invite[k] \in Invites
      BY <1>1, <2>1 DEF Inv, TypeOK
    <3>2. /\ invites[invite[k]] = "none"
          /\ \A j \in Handlers \ {k} : invite[j] # invite[k]
      BY <3>1 DEF Inv, InvitingInv
    <3>3. invites'[invite[k]] = "none"
      BY <3>1, <3>2
    <3> QED BY <1>1, <3>1, <3>2, <3>3, GroupAssumption
  <2>2. \A k \in Handlers : pc'[k] \in {"creating", "rotating"} => invite'[k] = None
    BY <1>1 DEF Inv, InvitingInv
  <2> QED BY <2>1, <2>2 DEF InvitingInv
<1>7. PlanInv'
  <2>1. \A p \in Peers : NewGroup(Owner).members[p] \in {"owner", "none"}
    BY NewGroupIs, GroupAssumption
  <2> QED BY <1>1, <1>3, <2>1 DEF Inv, PlanInv, Invited
<1>8. SavingInv'
  BY <1>1 DEF SavingInv
<1>9. MembersWereInvited'
  BY <1>2, <1>3 DEF Inv, MembersWereInvited
<1>10. AcceptedIsMember'
  BY <1>1, <1>2, <1>3 DEF Inv, AcceptedIsMember
<1>11. ASSUME ~ stale'
       PROVE  ForcesInv' /\ FreshInv'
  <2>1. ForcesInv /\ FreshInv
    BY <1>2, <1>11 DEF Inv
  <2>2. ForcesInv'
    BY <1>1, <1>2, <2>1 DEF ForcesInv
  <2>3. FreshInv'
    BY <1>1, <1>2, <2>1 DEF FreshInv, Inv, TypeOK
  <2> QED BY <2>2, <2>3
<1> QED BY <1>4, <1>5, <1>6, <1>7, <1>8, <1>9, <1>10, <1>11 DEF Inv

LEMMA SaveOutboundKeepsInv ==
  ASSUME Inv, NEW h \in Handlers, SaveOutbound(h)
  PROVE  Inv'
<1>1. /\ loop = Nobody /\ pc[h] = "inviting" /\ Done(h)
      /\ invites' = [invites EXCEPT ![invite[h]] = "pending_outbound"]
      /\ UNCHANGED <<started, group, history, crashes>>
  BY DEF SaveOutbound
<1>2. invite[h] \in Invites /\ invites[invite[h]] = "none" /\ started
      /\ \A k \in Handlers \ {h} : invite[k] # invite[h]
  BY <1>1 DEF Inv, TypeOK, InvitingInv, StartedInv
<1>3. invites' \in [Invites -> InviteStatus]
  BY <1>1 DEF Inv, TypeOK, InviteStatus
<1>4. invites'[invite[h]] = "pending_outbound"
      /\ \A i \in Invites : i # invite[h] => invites'[i] = invites[i]
  BY <1>1, <1>2 DEF Inv, TypeOK
<1>5. \A i \in Invites : invites'[i] # invites[i] =>
        /\ invites[i] # "accepted" /\ invites'[i] # "accepted" /\ started
        /\ \A k \in Handlers \ {h} : pc[k] = "inviting" => invite[k] # i
  BY <1>2, <1>4
<1> QED BY <1>1, <1>3, <1>5, DoneKeepsInv

LEMMA FailKeepsInv ==
  ASSUME Inv, NEW h \in Handlers, Fail(h)
  PROVE  Inv'
<1>1. /\ loop = Nobody /\ Done(h) /\ invites' = invites
      /\ UNCHANGED <<started, group, history, crashes>>
  BY DEF Fail
<1>2. invites' \in [Invites -> InviteStatus]
  BY <1>1 DEF Inv, TypeOK
<1> QED BY <1>1, <1>2, DoneKeepsInv

\* The invitation is accepted and the group with the invitee is about to be saved.
LEMMA SaveAcceptedKeepsInv ==
  ASSUME Inv, NEW h \in Handlers, SaveAccepted(h)
  PROVE  Inv'
<1>0. PICK i \in Invites : i = invite[h]
  BY DEF SaveAccepted, Inv, TypeOK
<1> DEFINE g == IF exists THEN Stored ELSE NewGroup(Inviter[i])
           new == AddMember(g, Invitee[i])
<1>1. /\ loop = Nobody /\ pc[h] = "accepting"
      /\ invites' = [invites EXCEPT ![i] = "accepted"]
      /\ plan'  = [plan EXCEPT ![h] = new]
      /\ fresh' = fresh \cup {h}
      /\ pc'    = [pc EXCEPT ![h] = "saving"]
      /\ loop'  = h
      /\ UNCHANGED <<started, exists, epoch, members, invite, stale, forces, torn, crashes>>
  BY <1>0 DEF SaveAccepted, group
<1>2. Invitee[i] \in Peers /\ Inviter[i] \in Peers
  BY GroupAssumption
<1>3. /\ g \in Group /\ g.epoch = epoch
      /\ \A p \in Peers : g.members[p] \in {"member", "removed"} => Invited(p)
      /\ RemovedFrom(g.members) \subseteq RemovedFrom(members)
  <2>1. CASE exists
    BY <2>1, StoredIs, StoredIsInvited DEF Inv
  <2>2. CASE ~ exists
    <3>1. epoch = 0
      BY <2>2 DEF Inv, StartedInv
    <3>2. /\ NewGroup(Inviter[i]) \in Group
          /\ NewGroup(Inviter[i]).epoch = 0
          /\ \A p \in Peers : NewGroup(Inviter[i]).members[p] \in {"owner", "none"}
      BY <1>2, NewGroupIs
    <3> QED BY <2>2, <3>1, <3>2 DEF RemovedFrom
  <2> QED BY <2>1, <2>2
<1>4. /\ new \in Group /\ new.epoch = epoch
      /\ new.members[Invitee[i]] = "member"
      /\ \A q \in Peers \ {Invitee[i]} : new.members[q] = g.members[q]
  BY <1>2, <1>3, AddMemberIs
<1>5. RemovedFrom(new.members) \subseteq RemovedFrom(members)
  BY <1>2, <1>3, <1>4 DEF RemovedFrom
<1> HIDE DEF g, new
<1>6. /\ invites' \in [Invites -> InviteStatus]
      /\ invites'[i] = "accepted"
      /\ \A j \in Invites \ {i} : invites'[j] = invites[j]
      /\ \A k \in Handlers \ {h} : pc'[k] = pc[k] /\ plan'[k] = plan[k]
      /\ pc'[h] = "saving" /\ plan'[h] = new
      /\ invite[h] = i
  BY <1>0, <1>1 DEF Inv, TypeOK, InviteStatus
<1>7. \A p \in Peers : Invited(p) => Invited(p)'
  BY <1>6 DEF Invited
<1>8. TypeOK'
  <2>1. /\ pc' \in [Handlers -> Waiting \cup {"idle", "saving", "listing"}]
        /\ plan' \in [Handlers -> Group]
        /\ loop' \in Handlers \cup {Nobody}
        /\ fresh' \in SUBSET Handlers
    BY <1>1, <1>4 DEF Inv, TypeOK
  <2>2. \A k \in Handlers : pc'[k] \in {"saving", "listing"} <=> loop' = k
    BY <1>1, <1>6, GroupAssumption DEF Inv, TypeOK
  <2>3. \A k \in Handlers : pc'[k] \in {"inviting", "accepting"} => invite'[k] \in Invites
    BY <1>1, <1>6 DEF Inv, TypeOK
  <2> QED BY <1>1, <1>6, <2>1, <2>2, <2>3 DEF Inv, TypeOK
<1>9. StartedInv'
  BY <1>1, <1>6 DEF Inv, StartedInv
<1>10. InvitingInv'
  <2>1. \A k \in Handlers : pc'[k] = "inviting" => pc[k] = "inviting" /\ k # h
    BY <1>6
  <2>2. \A k \in Handlers : pc[k] = "inviting" /\ k # h =>
          invite[k] \in Invites \ {i}
    BY <1>6 DEF Inv, TypeOK, InvitingInv
  <2> QED BY <1>1, <1>6, <2>1, <2>2 DEF Inv, InvitingInv
<1>11. PlanInv'
  <2>1. \A p \in Peers : new.members[p] \in {"member", "removed"} => Invited(p)'
    <3>1. Invited(Invitee[i])'
      BY <1>2, <1>6 DEF Invited
    <3> QED BY <1>3, <1>4, <1>7, <3>1
  <2> QED BY <1>6, <1>7, <2>1 DEF Inv, PlanInv
<1>12. SavingInv'
  BY <1>1, <1>4, <1>6 DEF Inv, SavingInv
<1>13. MembersWereInvited'
  BY <1>1, <1>7 DEF Inv, MembersWereInvited, Invited
<1>14. AcceptedIsMember'
  BY <1>1, <1>2, <1>6, GroupAssumption DEF Inv, AcceptedIsMember
<1>15. ASSUME ~ stale'
       PROVE  ForcesInv' /\ FreshInv'
  <2>1. ForcesInv /\ FreshInv
    BY <1>1, <1>15 DEF Inv
  <2>2. ForcesInv'
    <3>1. \A k \in Handlers : pc'[k] = "listing" => pc[k] = "listing" /\ plan'[k] = plan[k]
      BY <1>6
    <3> QED BY <1>1, <2>1, <3>1 DEF ForcesInv
  <2>3. FreshInv'
    <3>1. \A k \in Handlers \ {h} : pc'[k] # "saving"
      BY <1>1, <1>6, <1>8 DEF TypeOK
    <3>2. loop' # Nobody
      BY <1>1, GroupAssumption
    <3> QED BY <1>1, <1>4, <1>5, <1>6, <1>8, <3>1, <3>2 DEF FreshInv, TypeOK
  <2> QED BY <2>2, <2>3
<1> QED BY <1>8, <1>9, <1>10, <1>11, <1>12, <1>13, <1>14, <1>15 DEF Inv

\* The groups row is saved: the epoch stays or is one not used so far.
LEMMA SaveGroupKeepsInv ==
  ASSUME Inv, NEW h \in Handlers, SaveGroup(h)
  PROVE  Inv'
<1>1. /\ \/ loop = Nobody /\ pc[h] \in {"creating", "rotating"}
         \/ loop = h /\ pc[h] = "saving"
      /\ exists' = TRUE /\ epoch' = plan[h].epoch
      /\ stale' = (stale \/ h \notin fresh)
      /\ pc' = [pc EXCEPT ![h] = "listing"]
      /\ loop' = h
      /\ UNCHANGED <<started, members, invites, invite, plan, fresh, forces, torn, crashes>>
  BY DEF SaveGroup
<1>2. /\ pc'[h] = "listing"
      /\ \A k \in Handlers \ {h} : pc'[k] = pc[k] /\ pc[k] \notin {"saving", "listing"}
  BY <1>1, GroupAssumption DEF Inv, TypeOK
<1>3. TypeOK'
  <2>1. epoch' \in 0..MaxEpoch
    BY <1>1 DEF Inv, TypeOK, Group
  <2>2. pc' \in [Handlers -> Waiting \cup {"idle", "saving", "listing"}]
    BY <1>1 DEF Inv, TypeOK
  <2>3. stale' \in BOOLEAN
    BY <1>1, Zenon DEF Inv, TypeOK
  <2>4. \A k \in Handlers : /\ pc'[k] \in {"saving", "listing"} <=> loop' = k
                            /\ pc'[k] \in {"inviting", "accepting"} => invite'[k] \in Invites
    BY <1>1, <1>2 DEF Inv, TypeOK
  <2> QED BY <1>1, <2>1, <2>2, <2>3, <2>4 DEF Inv, TypeOK
<1>4. StartedInv'
  BY <1>1, <1>2 DEF Inv, StartedInv
<1>5. InvitingInv' /\ PlanInv'
  BY <1>1, <1>2 DEF Inv, InvitingInv, PlanInv, Invited
<1>6. SavingInv'
  BY <1>1, <1>2 DEF Inv, SavingInv, InvitingInv
<1>7. MembersWereInvited'
  BY <1>1 DEF Inv, MembersWereInvited
<1>8. AcceptedIsMember'
  BY <1>1, GroupAssumption DEF Inv, AcceptedIsMember
<1>9. ASSUME ~ stale'
      PROVE  ForcesInv' /\ FreshInv'
  <2>1. ~ stale /\ h \in fresh
    BY <1>1, <1>9
  <2>2. ForcesInv /\ FreshInv
    BY <2>1 DEF Inv
  <2>3. \/ plan[h].epoch > epoch
        \/ plan[h].epoch = epoch /\ RemovedFrom(plan[h].members) \subseteq RemovedFrom(members)
    BY <1>1, <2>1, <2>2 DEF FreshInv
  <2>4. epoch \in 0..MaxEpoch /\ epoch' \in 0..MaxEpoch
    BY <1>3 DEF Inv, TypeOK
  <2>5. ForcesInv'
    <3>1. \A k \in Handlers : pc'[k] = "listing" => k = h
      BY <1>2
    <3>2. CASE plan[h].epoch > epoch
      <4>1. \A e \in 0..MaxEpoch : e >= epoch' => forces'[e] = {}
        BY <1>1, <2>2, <2>4, <3>2 DEF ForcesInv
      <4>2. forces'[epoch'] = {}
        BY <2>4, <4>1
      <4> QED BY <2>4, <4>1, <4>2 DEF ForcesInv
    <3>3. CASE /\ plan[h].epoch = epoch
               /\ RemovedFrom(plan[h].members) \subseteq RemovedFrom(members)
      BY <1>1, <2>2, <3>1, <3>3 DEF ForcesInv
    <3> QED BY <2>3, <3>2, <3>3
  <2>6. FreshInv'
    BY <1>1, <1>2, <1>3, GroupAssumption DEF FreshInv, TypeOK
  <2> QED BY <2>5, <2>6
<1> QED BY <1>3, <1>4, <1>5, <1>6, <1>7, <1>8, <1>9 DEF Inv

\* Writing some planned members keeps what is said about the rows.
LEMMA UpsertKeeps ==
  ASSUME Inv, NEW h \in Handlers, pc[h] = "listing", NEW S \in SUBSET Peers,
         members' = Upserted(plan[h], S), InForce(epoch, members'),
         UNCHANGED <<epoch, invites, stale>>
  PROVE  /\ members' \in [Peers -> Seat]
         /\ forces' \in [0..MaxEpoch -> SUBSET SUBSET Peers]
         /\ MembersWereInvited'
         /\ ~ stale => /\ \A e \in 0..MaxEpoch : e > epoch => forces'[e] = {}
                       /\ \A p \in RemovedFrom(members') : p \notin UNION forces'[epoch]
<1>1. plan[h] \in Group /\ TypeOK
  BY DEF Inv, TypeOK
<1>2. /\ members' \in [Peers -> Seat]
      /\ \A p \in Peers : members'[p] \in {plan[h].members[p], members[p]}
  BY <1>1, UpsertedIs
<1>3. /\ forces' \in [0..MaxEpoch -> SUBSET SUBSET Peers]
      /\ \A e \in 0..MaxEpoch \ {epoch} : forces'[e] = forces[e]
      /\ \A p \in Peers : p \in UNION forces'[epoch]
                          => p \in UNION forces[epoch] \/ p \in Active(members')
  BY <1>1, <1>2, InForceIs
<1>4. MembersWereInvited'
  BY <1>2 DEF Inv, MembersWereInvited, PlanInv, Invited
<1>5. ASSUME ~ stale
      PROVE  /\ \A e \in 0..MaxEpoch : e > epoch => forces'[e] = {}
             /\ \A p \in RemovedFrom(members') : p \notin UNION forces'[epoch]
  <2>1. ForcesInv
    BY <1>5 DEF Inv
  <2>2. \A e \in 0..MaxEpoch : e > epoch => forces'[e] = {}
    BY <1>1, <1>3, <2>1 DEF ForcesInv, TypeOK
  <2>3. ASSUME NEW p \in RemovedFrom(members')
        PROVE  p \notin UNION forces'[epoch]
    <3>1. p \in Peers /\ members'[p] = "removed"
      BY <2>3 DEF RemovedFrom
    <3>2. p \in RemovedFrom(members) \/ p \in RemovedFrom(plan[h].members)
      BY <1>2, <3>1 DEF RemovedFrom
    <3>3. p \notin UNION forces[epoch]
      BY <2>1, <3>2 DEF ForcesInv
    <3>4. p \notin Active(members')
      BY <3>1 DEF Active
    <3> QED BY <1>3, <3>1, <3>3, <3>4
  <2> QED BY <2>2, <2>3
<1> QED BY <1>2, <1>3, <1>4, <1>5

LEMMA SaveMembersKeepsInv ==
  ASSUME Inv, NEW h \in Handlers, SaveMembers(h)
  PROVE  Inv'
<1>1. /\ loop = h /\ pc[h] = "listing" /\ Done(h) /\ fresh' = {}
      /\ members' = Upserted(plan[h], Peers) /\ InForce(epoch, members')
      /\ UNCHANGED <<started, exists, epoch, invites, stale, torn, crashes>>
  BY DEF SaveMembers
<1>2. /\ pc' \in [Handlers -> Waiting \cup {"idle", "saving", "listing"}]
      /\ invite' \in [Handlers -> Invites \cup {None}]
      /\ plan' \in [Handlers -> Group]
      /\ loop' = Nobody
      /\ \A k \in Handlers : pc'[k] \notin {"saving", "listing"}
      /\ pc'[h] = "idle" /\ invite'[h] = None /\ plan'[h] = NewGroup(Owner)
      /\ \A k \in Handlers \ {h} :
           pc'[k] = pc[k] /\ invite'[k] = invite[k] /\ plan'[k] = plan[k]
  BY <1>1, DoneEffect DEF Inv
<1>3. /\ members' \in [Peers -> Seat]
      /\ forces' \in [0..MaxEpoch -> SUBSET SUBSET Peers]
      /\ MembersWereInvited'
      /\ ~ stale => /\ \A e \in 0..MaxEpoch : e > epoch => forces'[e] = {}
                    /\ \A p \in RemovedFrom(members') : p \notin UNION forces'[epoch]
  BY <1>1, UpsertKeeps
<1>4. TypeOK'
  <2>1. TypeOK
    BY DEF Inv
  <2>2. /\ started' \in BOOLEAN /\ exists' \in BOOLEAN /\ stale' \in BOOLEAN
        /\ epoch' \in 0..MaxEpoch /\ crashes' \in 0..MaxCrashes
        /\ invites' \in [Invites -> InviteStatus] /\ torn' \in SUBSET Invites
        /\ members' \in [Peers -> Seat] /\ fresh' \in SUBSET Handlers
    BY <1>1, <1>3, <2>1 DEF TypeOK
  <2>3. loop' \in Handlers \cup {Nobody}
    BY <1>2
  <2>4. /\ pc' \in [Handlers -> Waiting \cup {"idle", "saving", "listing"}]
        /\ invite' \in [Handlers -> Invites \cup {None}] /\ plan' \in [Handlers -> Group]
    BY ONLY <1>2
  <2>5. forces' \in [0..MaxEpoch -> SUBSET SUBSET Peers]
    BY ONLY <1>3
  <2>6. ASSUME NEW k \in Handlers
        PROVE  /\ pc'[k] \in {"saving", "listing"} <=> loop' = k
               /\ pc'[k] \in {"inviting", "accepting"} => invite'[k] \in Invites
    <3>1. loop' # k /\ pc'[k] \notin {"saving", "listing"}
      BY <1>2, GroupAssumption
    <3>2. pc'[k] \in {"inviting", "accepting"} => invite'[k] \in Invites
      BY <1>2, <2>1 DEF TypeOK
    <3> QED BY <3>1, <3>2
  <2> QED BY ONLY <2>2, <2>3, <2>4, <2>5, <2>6 DEF TypeOK
<1>5. StartedInv'
  BY <1>1, <1>2 DEF Inv, StartedInv
<1>6. InvitingInv'
  <2>1. \A k \in Handlers : pc'[k] = "inviting" =>
          k # h /\ pc[k] = "inviting" /\ invite[k] \in Invites
    BY <1>2 DEF Inv, TypeOK
  <2> QED BY <1>1, <1>2, <2>1, GroupAssumption DEF Inv, InvitingInv
<1>7. PlanInv'
  <2>1. \A p \in Peers : NewGroup(Owner).members[p] \in {"owner", "none"}
    BY NewGroupIs, GroupAssumption
  <2> QED BY <1>1, <1>2, <2>1 DEF Inv, PlanInv, Invited
<1>8. SavingInv'
  BY <1>2 DEF SavingInv
<1>9. AcceptedIsMember'
  <2> SUFFICES ASSUME NEW i \in Invites, invites[i] = "accepted", i \notin torn
               PROVE  members'[Invitee[i]] # "none"
    BY <1>1 DEF AcceptedIsMember
  <2>1. Invitee[i] \in Peers /\ plan[h] \in Group
    BY GroupAssumption DEF Inv, TypeOK
  <2>2. CASE members[Invitee[i]] # "none"
    BY <1>1, <2>1, <2>2, UpsertedIs DEF Inv
  <2>3. CASE invite[h] = i
    <3>1. plan[h].members[Invitee[i]] # "none"
      BY <1>1, <2>3, GroupAssumption DEF Inv, SavingInv
    <3> QED BY <1>1, <2>1, <3>1, UpsertedIs DEF Inv
  <2> QED BY <1>1, <2>2, <2>3 DEF Inv, AcceptedIsMember
<1>10. ~ stale' => ForcesInv' /\ FreshInv'
  BY <1>1, <1>2, <1>3 DEF ForcesInv, FreshInv
<1> QED BY <1>3, <1>4, <1>5, <1>6, <1>7, <1>8, <1>9, <1>10 DEF Inv

-----------------------------------------------------------------------------
(* Outside the use cases.                                                  *)

\* A new or a rejected invitation, on which no handler works that is making it.
LEMMA InvitationKeepsInv ==
  ASSUME Inv, NEW i \in Invites,
         NEW status \in {"pending_inbound", "rejected"},
         invites' = [invites EXCEPT ![i] = status],
         invites[i] # "accepted", started',
         \A h \in Handlers : pc[h] = "inviting" => invite[h] # i,
         started' \in BOOLEAN, loop = Nobody,
         UNCHANGED <<group, pc, invite, plan, loop, history, crashes>>
  PROVE  Inv'
<1>1. /\ UNCHANGED <<exists, epoch, members, stale, fresh, forces, torn>>
      /\ \A j \in Invites \ {i} : invites'[j] = invites[j]
      /\ invites'[i] = status
      /\ invites' \in [Invites -> InviteStatus]
  BY DEF group, history, Inv, TypeOK, InviteStatus
<1>2. \A j \in Invites : invites'[j] = "accepted" <=> invites[j] = "accepted"
  BY <1>1
<1>3. TypeOK'
  BY <1>1 DEF Inv, TypeOK
<1>4. StartedInv'
  BY <1>1 DEF Inv, StartedInv
<1>5. InvitingInv'
  BY <1>1 DEF Inv, InvitingInv, TypeOK
<1>6. PlanInv' /\ SavingInv'
  BY <1>2 DEF Inv, PlanInv, SavingInv, Invited
<1>7. MembersWereInvited' /\ AcceptedIsMember'
  BY <1>1, <1>2 DEF Inv, MembersWereInvited, AcceptedIsMember
<1>8. ~ stale' => ForcesInv' /\ FreshInv'
  BY <1>1 DEF Inv, ForcesInv, FreshInv
<1> QED BY <1>3, <1>4, <1>5, <1>6, <1>7, <1>8 DEF Inv

LEMMA RejectKeepsInv ==
  ASSUME Inv, NEW i \in Invites, RejectInvitation(i)
  PROVE  Inv'
<1>1. /\ invites[i] \in {"pending_inbound", "pending_outbound"} /\ loop = Nobody
      /\ invites' = [invites EXCEPT ![i] = "rejected"]
      /\ UNCHANGED <<started, group, pc, invite, plan, loop, history, crashes>>
  BY DEF RejectInvitation
<1>2. started' /\ started' \in BOOLEAN
  BY <1>1 DEF Inv, StartedInv, TypeOK
<1>3. \A h \in Handlers : pc[h] = "inviting" => invite[h] # i
  BY <1>1 DEF Inv, InvitingInv
<1> QED BY <1>1, <1>2, <1>3, InvitationKeepsInv

LEMMA ReceiveKeepsInv ==
  ASSUME Inv, NEW i \in Invites, ReceiveInvitation(i)
  PROVE  Inv'
<1>1. /\ loop = Nobody /\ invites[i] = "none" /\ \A k \in Handlers : invite[k] # i
      /\ started' = TRUE
      /\ invites' = [invites EXCEPT ![i] = "pending_inbound"]
      /\ UNCHANGED <<group, pc, invite, plan, loop, history, crashes>>
  BY DEF ReceiveInvitation
<1> QED BY <1>1, InvitationKeepsInv

\* A crash in the middle of the member rows has written some of them; any other
\* crash leaves the rows, which are in force afterwards.
LEMMA CrashRows ==
  ASSUME Inv, CrashRestart
  PROVE  /\ members' \in [Peers -> Seat]
         /\ forces' \in [0..MaxEpoch -> SUBSET SUBSET Peers]
         /\ MembersWereInvited'
         /\ ~ stale => /\ \A e \in 0..MaxEpoch : e > epoch => forces'[e] = {}
                       /\ \A p \in RemovedFrom(members') : p \notin UNION forces'[epoch]
<1>1. PICK S \in SUBSET Peers :
        members' = IF loop # Nobody /\ pc[loop] = "listing" THEN Upserted(plan[loop], S)
                   ELSE members
  BY DEF CrashRestart
<1>2. InForce(epoch, members') /\ UNCHANGED <<epoch, invites, stale>>
  BY DEF CrashRestart
<1>3. CASE loop # Nobody /\ pc[loop] = "listing"
  <2>1. loop \in Handlers
    BY <1>3 DEF Inv, TypeOK
  <2> QED BY <1>1, <1>2, <1>3, <2>1, UpsertKeeps
<1>4. CASE ~ (loop # Nobody /\ pc[loop] = "listing")
  <2>1. members' = members /\ members \in [Peers -> Seat] /\ InForce(epoch, members)
    BY <1>1, <1>2, <1>4 DEF Inv, TypeOK
  <2>2. /\ forces' \in [0..MaxEpoch -> SUBSET SUBSET Peers]
        /\ \A e \in 0..MaxEpoch \ {epoch} : forces'[e] = forces[e]
        /\ \A p \in Peers : p \in UNION forces'[epoch]
                            => p \in UNION forces[epoch] \/ p \in Active(members)
    BY <2>1, InForceIs DEF Inv
  <2>3. MembersWereInvited'
    BY <1>2, <2>1 DEF Inv, MembersWereInvited
  <2>4. ASSUME ~ stale
        PROVE  /\ \A e \in 0..MaxEpoch : e > epoch => forces'[e] = {}
               /\ \A p \in RemovedFrom(members') : p \notin UNION forces'[epoch]
    <3>1. ForcesInv
      BY <2>4 DEF Inv
    <3>2. \A e \in 0..MaxEpoch : e > epoch => forces'[e] = {}
      BY <2>2, <3>1 DEF Inv, ForcesInv, TypeOK
    <3>3. \A p \in RemovedFrom(members) :
            p \in Peers /\ p \notin Active(members) /\ p \notin UNION forces[epoch]
      BY <3>1 DEF ForcesInv, RemovedFrom, Active
    <3> QED BY <2>1, <2>2, <3>2, <3>3
  <2> QED BY <2>1, <2>2, <2>3, <2>4
<1> QED BY <1>3, <1>4

\* A row that a crash finds is there after it.
LEMMA CrashKeepsRows ==
  ASSUME Inv, CrashRestart, NEW p \in Peers, members[p] # "none"
  PROVE  members'[p] # "none"
<1>1. PICK S \in SUBSET Peers :
        members' = IF loop # Nobody /\ pc[loop] = "listing" THEN Upserted(plan[loop], S)
                   ELSE members
  BY DEF CrashRestart
<1>2. CASE loop # Nobody /\ pc[loop] = "listing"
  <2>1. loop \in Handlers
    BY <1>2 DEF Inv, TypeOK
  <2>2. PICK g \in Group : g = plan[loop]
    BY <2>1 DEF Inv, TypeOK
  <2> QED BY <1>1, <1>2, <2>2, UpsertedIs DEF Inv
<1>3. CASE ~ (loop # Nobody /\ pc[loop] = "listing")
  BY <1>1, <1>3
<1> QED BY <1>2, <1>3

LEMMA CrashKeepsInv ==
  ASSUME Inv, CrashRestart
  PROVE  Inv'
<1>1. /\ crashes < MaxCrashes /\ crashes' = crashes + 1
      /\ pc'     = [h \in Handlers |-> "idle"]
      /\ invite' = [h \in Handlers |-> None]
      /\ plan'   = [h \in Handlers |-> NewGroup(Owner)]
      /\ loop'   = Nobody
      /\ fresh'  = {}
      /\ torn'   = torn \cup {i \in Invites : loop # Nobody /\ invite[loop] = i}
      /\ UNCHANGED <<started, exists, epoch, invites, stale>>
  BY DEF CrashRestart
<1>2. /\ members' \in [Peers -> Seat]
      /\ forces' \in [0..MaxEpoch -> SUBSET SUBSET Peers]
      /\ MembersWereInvited'
      /\ ~ stale => /\ \A e \in 0..MaxEpoch : e > epoch => forces'[e] = {}
                    /\ \A p \in RemovedFrom(members') : p \notin UNION forces'[epoch]
  BY CrashRows
<1>3. /\ NewGroup(Owner) \in Group
      /\ \A p \in Peers : NewGroup(Owner).members[p] \in {"owner", "none"}
  BY NewGroupIs, GroupAssumption
<1>4. crashes' \in 0..MaxCrashes /\ torn' \in SUBSET Invites
  BY <1>1, GroupAssumption DEF Inv, TypeOK
<1>5. TypeOK'
  <2>1. /\ pc' \in [Handlers -> Waiting \cup {"idle", "saving", "listing"}]
        /\ invite' \in [Handlers -> Invites \cup {None}]
        /\ plan' \in [Handlers -> Group]
        /\ loop' \in Handlers \cup {Nobody}
        /\ fresh' \in SUBSET Handlers
    BY <1>1, <1>3
  <2>2. \A h \in Handlers : pc'[h] = "idle" /\ loop' # h
    BY <1>1, GroupAssumption
  <2> QED BY <1>1, <1>2, <1>4, <2>1, <2>2 DEF Inv, TypeOK
<1>6. StartedInv' /\ InvitingInv'
  BY <1>1 DEF Inv, StartedInv, InvitingInv
<1>7. PlanInv' /\ SavingInv'
  BY <1>1, <1>3 DEF PlanInv, SavingInv
<1>8. AcceptedIsMember'
  <2> SUFFICES ASSUME NEW i \in Invites, invites[i] = "accepted", i \notin torn'
               PROVE  members'[Invitee[i]] # "none"
    BY <1>1 DEF AcceptedIsMember
  <2>1. i \notin torn /\ ~ (loop # Nobody /\ invite[loop] = i)
    BY <1>1
  <2>2. members[Invitee[i]] # "none" /\ Invitee[i] \in Peers
    BY <2>1, GroupAssumption DEF Inv, AcceptedIsMember
  <2> QED BY <2>2, CrashKeepsRows
<1>9. ~ stale' => ForcesInv' /\ FreshInv'
  BY <1>1, <1>2 DEF ForcesInv, FreshInv
<1> QED BY <1>2, <1>5, <1>6, <1>7, <1>8, <1>9 DEF Inv

-----------------------------------------------------------------------------
(* The invariant and the properties.                                       *)

LEMMA InitInv ==
  ASSUME Init
  PROVE  Inv
<1>1. /\ NewGroup(Owner) \in Group
      /\ \A p \in Peers : NewGroup(Owner).members[p] \in {"owner", "none"}
  BY NewGroupIs, GroupAssumption
<1>2. TypeOK
  <2>1. started \in BOOLEAN /\ exists \in BOOLEAN /\ stale \in BOOLEAN
    BY Zenon DEF Init
  <2>2. epoch \in 0..MaxEpoch /\ crashes \in 0..MaxCrashes
        /\ forces \in [0..MaxEpoch -> SUBSET SUBSET Peers] /\ torn \in SUBSET Invites
    BY GroupAssumption DEF Init
  <2>3. members \in [Peers -> Seat] /\ invites \in [Invites -> InviteStatus]
    BY DEF Init, Seat, InviteStatus
  <2>4. /\ pc \in [Handlers -> Waiting \cup {"idle", "saving", "listing"}]
        /\ invite \in [Handlers -> Invites \cup {None}]
        /\ plan \in [Handlers -> Group]
        /\ loop \in Handlers \cup {Nobody}
        /\ fresh \in SUBSET Handlers
    BY <1>1 DEF Init
  <2>5. \A h \in Handlers : pc[h] = "idle" /\ loop # h
    BY GroupAssumption DEF Init
  <2> QED BY <2>1, <2>2, <2>3, <2>4, <2>5 DEF TypeOK
<1>3. StartedInv /\ InvitingInv
  BY DEF Init, StartedInv, InvitingInv
<1>4. PlanInv /\ SavingInv
  BY <1>1 DEF Init, PlanInv, SavingInv
<1>5. MembersWereInvited /\ AcceptedIsMember
  BY DEF Init, MembersWereInvited, AcceptedIsMember
<1>6. ForcesInv /\ FreshInv
  BY DEF Init, ForcesInv, FreshInv, RemovedFrom
<1> QED BY <1>2, <1>3, <1>4, <1>5, <1>6 DEF Inv

LEMMA StutterKeepsInv ==
  ASSUME Inv, UNCHANGED vars
  PROVE  Inv'
<1>1. UNCHANGED <<started, exists, epoch, members, invites, pc, invite, plan, loop,
                  fresh, stale, forces, torn, crashes>>
  BY DEF vars, group, history
<1>2. TypeOK'
  BY <1>1 DEF Inv, TypeOK
<1>3. StartedInv' /\ InvitingInv' /\ PlanInv' /\ SavingInv'
  BY <1>1 DEF Inv, StartedInv, InvitingInv, PlanInv, SavingInv, Invited
<1>4. MembersWereInvited' /\ AcceptedIsMember'
  BY <1>1 DEF Inv, MembersWereInvited, AcceptedIsMember
<1>5. ~ stale' => ForcesInv' /\ FreshInv'
  BY <1>1 DEF Inv, ForcesInv, FreshInv
<1> QED BY <1>2, <1>3, <1>4, <1>5 DEF Inv

LEMMA NextKeepsInv ==
  ASSUME Inv, Next
  PROVE  Inv'
<1>1. ASSUME NEW h \in Handlers,
             \/ CreateGroup(h) \/ RotateGroupKeys(h)
             \/ SaveOutbound(h) \/ SaveAccepted(h) \/ Fail(h) \/ SaveGroup(h) \/ SaveMembers(h)
      PROVE  Inv'
  BY <1>1, CreateGroupKeepsInv, RotateGroupKeysKeepsInv, SaveOutboundKeepsInv,
     SaveAcceptedKeepsInv, FailKeepsInv, SaveGroupKeepsInv, SaveMembersKeepsInv
<1>2. ASSUME NEW h \in Handlers, NEW i \in Invites, InvitePeer(h, i) \/ AcceptInvitation(h, i)
      PROVE  Inv'
  BY <1>2, InvitePeerKeepsInv, AcceptInvitationKeepsInv
<1>3. ASSUME NEW h \in Handlers, NEW p \in Peers, RemoveGroupMember(h, p)
      PROVE  Inv'
  BY <1>3, RemoveGroupMemberKeepsInv
<1>4. ASSUME NEW i \in Invites, RejectInvitation(i) \/ ReceiveInvitation(i)
      PROVE  Inv'
  BY <1>4, RejectKeepsInv, ReceiveKeepsInv
<1> QED BY <1>1, <1>2, <1>3, <1>4, CrashKeepsInv DEF Next

\* Inv holds in every state of the group.
THEOREM InvCorrect == Spec => []Inv
<1>1. Init => Inv
  BY InitInv
<1>2. Inv /\ [Next]_vars => Inv'
  BY NextKeepsInv, StutterKeepsInv
<1> QED BY <1>1, <1>2, PTL DEF Spec

\* The variables of the group keep their types, and one handler at most is
\* between two writes of a save, that which holds the event loop.
THEOREM TypeCorrect == Spec => []TypeOK
<1>1. Inv => TypeOK
  BY DEF Inv
<1> QED BY <1>1, InvCorrect, PTL

\* Whoever the member list of a node names, its owner apart, accepted an
\* invitation, for any number of executions and crashes.
THEOREM MembersWereInvitedCorrect == Spec => []MembersWereInvited
<1>1. Inv => MembersWereInvited
  BY DEF Inv
<1> QED BY <1>1, InvCorrect, PTL

\* Who accepted an invitation is in the member list or is about to be, and no
\* later save of an older group and no crash takes it out, for any number of
\* executions and crashes; the invitations that a crash caught within their
\* acceptance's own saves excepted.
THEOREM AcceptedIsMemberCorrect == Spec => []AcceptedIsMember
<1>1. Inv => AcceptedIsMember
  BY DEF Inv
<1> QED BY <1>1, InvCorrect, PTL

\* Unless a group was saved that had changed since it was read, a removed member
\* holds none of the keys in use.
THEOREM RemovedLosesAccessCorrect == Spec => []RemovedLosesAccess
<1>1. Inv => RemovedLosesAccess
  BY DEF Inv, ForcesInv, RemovedFrom, RemovedLosesAccess
<1> QED BY <1>1, InvCorrect, PTL
=============================================================================
