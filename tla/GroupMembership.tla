--------------------------- MODULE GroupMembership ---------------------------
(***************************************************************************)
(* One node's copy of one group: the group use cases, the Group and        *)
(* GroupInvitation aggregates, and the tables groups, group_members and    *)
(* group_invitations.                                                      *)
(*                                                                         *)
(* A use case reads the aggregate, changes it in memory, waits for the     *)
(* GroupCryptoPort, and only then writes it back (plan): two executions    *)
(* can work on the same group.  The writes of one save are not in a        *)
(* transaction: they hold the event loop (variable loop), but a crash can  *)
(* come between them.                                                      *)
(***************************************************************************)
EXTENDS Integers, FiniteSets

CONSTANTS Peers,      \* peer ids
          Owner,      \* the creator of the group
          Contacts,   \* peers that are accepted contacts of this node
          Invites,    \* invitation ids
          Inviter,    \* Inviter[i]: who invites
          Invitee,    \* Invitee[i]: who is invited
          Handlers,   \* concurrent executions of the use cases
          MaxEpoch,   \* bound: key epochs
          MaxCrashes, \* bound: crashes of the process
          Nobody,     \* loop value when no handler holds the event loop
          None        \* the invitation of a handler that has none

ASSUME GroupAssumption ==
  /\ Owner \in Peers
  /\ Contacts \subseteq Peers
  /\ Inviter \in [Invites -> Peers]
  /\ Invitee \in [Invites -> Peers]
  /\ MaxEpoch \in Nat
  /\ MaxCrashes \in Nat
  /\ Nobody \notin Handlers
  /\ None \notin Invites

VARIABLES started, \* the group id has been generated, here or elsewhere
          exists,  \* there is a groups row
          epoch,   \* its key_epoch
          members, \* group_members rows: peer -> role and status
          invites, \* group_invitations rows: id -> status
          pc,      \* where each handler is
          invite,  \* the invitation it works on
          plan,    \* the group it will save
          loop,    \* the handler that holds the event loop between two writes
          fresh,   \* history: handlers whose group nobody saved since they read it
          stale,   \* history: a handler saved a group that had changed meanwhile
          forces,  \* history: the sets of active members each epoch was used with
          torn,    \* history: invitations whose acceptance a crash cut in two
          crashes  \* crashes so far

group   == <<exists, epoch, members>>
history == <<fresh, stale, forces, torn>>
vars    == <<started, group, invites, pc, invite, plan, loop, history, crashes>>

-----------------------------------------------------------------------------
Seat == {"none", "owner", "member", "removed"}
InviteStatus == {"none", "pending_outbound", "pending_inbound", "accepted", "rejected"}
Waiting == {"creating", "inviting", "accepting", "rotating"}
Group == [epoch : 0..MaxEpoch, members : [Peers -> Seat]]

IsActive(g, p) == g.members[p] \in {"owner", "member"}
Active(ms) == {p \in Peers : ms[p] \in {"owner", "member"}}

\* groups.findById
Stored == [epoch |-> epoch, members |-> members]

\* Group.create
NewGroup(owner) ==
  [epoch |-> 0, members |-> [p \in Peers |-> IF p = owner THEN "owner" ELSE "none"]]

\* Mutant of AddMember: the new member is not put into the list.
AddMemberLost(g, p) == g

\* Group.addMember, for a peer that is not an active member.
AddMember(g, p) == [g EXCEPT !.members[p] = "member"]

\* Mutants of RemoveMember: the keys are not rotated; they are rotated twice.
RemoveOnly(g, p) == [g EXCEPT !.members[p] = "removed"]
RemoveRotatingTwice(g, p) == [g EXCEPT !.members[p] = "removed", !.epoch = @ + 2]

\* Group.removeMember, which rotates the keys.
RemoveMember(g, p) ==
  [epoch |-> g.epoch + 1, members |-> [g.members EXCEPT ![p] = "removed"]]

\* The member rows after upserting the planned members that are in S.
Upserted(g, S) ==
  [p \in Peers |-> IF p \in S /\ g.members[p] # "none" THEN g.members[p] ELSE members[p]]

\* The members ms are now in force under the epoch e.
InForce(e, ms) ==
  forces' = [forces EXCEPT ![e] = IF Active(ms) = {} THEN @ ELSE @ \cup {Active(ms)}]

Init ==
  /\ started = FALSE
  /\ exists  = FALSE
  /\ epoch   = 0
  /\ members = [p \in Peers |-> "none"]
  /\ invites = [i \in Invites |-> "none"]
  /\ pc      = [h \in Handlers |-> "idle"]
  /\ invite  = [h \in Handlers |-> None]
  /\ plan    = [h \in Handlers |-> NewGroup(Owner)]
  /\ loop    = Nobody
  /\ fresh   = {}
  /\ stale   = FALSE
  /\ forces  = [e \in 0..MaxEpoch |-> {}]
  /\ torn    = {}
  /\ crashes = 0

\* The handler h waits for the port, to save the group g, read just now.
Wait(h, state, i, g) ==
  /\ loop = Nobody
  /\ pc[h] = "idle"
  /\ pc'     = [pc EXCEPT ![h] = state]
  /\ invite' = [invite EXCEPT ![h] = i]
  /\ plan'   = [plan EXCEPT ![h] = g]
  /\ fresh'  = fresh \cup {h}
  /\ UNCHANGED <<group, invites, loop, stale, forces, torn, crashes>>

\* The handler h is over; its locals are forgotten.
Done(h) ==
  /\ pc'     = [pc EXCEPT ![h] = "idle"]
  /\ invite' = [invite EXCEPT ![h] = None]
  /\ plan'   = [plan EXCEPT ![h] = NewGroup(Owner)]
  /\ loop'   = Nobody

-----------------------------------------------------------------------------
(* The use cases, up to the call of the port *)

\* CreateGroupUseCase: the group id is new.
CreateGroup(h) ==
  /\ ~ started
  /\ started' = TRUE
  /\ Wait(h, "creating", None, NewGroup(Owner))

\* InvitePeerToGroupUseCase
InvitePeer(h, i) ==
  /\ exists
  /\ invites[i] = "none"
  /\ \A k \in Handlers : invite[k] # i
  /\ IsActive(Stored, Inviter[i])
  /\ Invitee[i] \in Contacts
  /\ Wait(h, "inviting", i, Stored)
  /\ UNCHANGED started

\* AcceptGroupInvitationUseCase; the group is read after the wait.
AcceptInvitation(h, i) ==
  /\ invites[i] = "pending_inbound"
  /\ Wait(h, "accepting", i, NewGroup(Inviter[i]))
  /\ UNCHANGED started

\* RemoveGroupMemberUseCase, of an active member that is not the owner.
RemoveGroupMember(h, p) ==
  /\ exists
  /\ members[p] = "member"
  /\ epoch < MaxEpoch
  /\ Wait(h, "rotating", None, RemoveMember(Stored, p))
  /\ UNCHANGED started

\* RotateGroupKeysUseCase
RotateGroupKeys(h) ==
  /\ exists
  /\ epoch < MaxEpoch
  /\ Wait(h, "rotating", None, [Stored EXCEPT !.epoch = @ + 1])
  /\ UNCHANGED started

\* RejectGroupInvitationUseCase, which waits for nothing.
RejectInvitation(i) ==
  /\ loop = Nobody
  /\ invites[i] \in {"pending_inbound", "pending_outbound"}
  /\ invites' = [invites EXCEPT ![i] = "rejected"]
  /\ UNCHANGED <<started, group, pc, invite, plan, loop, history, crashes>>

-----------------------------------------------------------------------------
(* The use cases, after the port has answered *)

\* createWelcome resolves: invitations.save.
SaveOutbound(h) ==
  /\ loop = Nobody
  /\ pc[h] = "inviting"
  /\ invites' = [invites EXCEPT ![invite[h]] = "pending_outbound"]
  /\ Done(h)
  /\ UNCHANGED <<started, group, history, crashes>>

\* Mutant of SaveAccepted: the invitation is not saved as accepted.
SaveAcceptedUnsaved(h) ==
  LET i == invite[h]
      g == IF exists THEN Stored ELSE NewGroup(Inviter[i]) IN
  /\ loop = Nobody
  /\ pc[h] = "accepting"
  /\ ~ IsActive(g, Invitee[i])
  /\ plan'  = [plan EXCEPT ![h] = AddMember(g, Invitee[i])]
  /\ fresh' = fresh \cup {h}
  /\ pc'    = [pc EXCEPT ![h] = "saving"]
  /\ loop'  = h
  /\ UNCHANGED <<started, group, invites, invite, stale, forces, torn, crashes>>

\* acceptWelcome resolves: the group is read, or made with the inviter as its
\* owner; the invitee is added and invitations.save done, groups.save follows.
SaveAccepted(h) ==
  LET i == invite[h]
      g == IF exists THEN Stored ELSE NewGroup(Inviter[i]) IN
  /\ loop = Nobody
  /\ pc[h] = "accepting"
  /\ ~ IsActive(g, Invitee[i])
  /\ invites' = [invites EXCEPT ![i] = "accepted"]
  /\ plan'  = [plan EXCEPT ![h] = AddMember(g, Invitee[i])]
  /\ fresh' = fresh \cup {h}
  /\ pc'    = [pc EXCEPT ![h] = "saving"]
  /\ loop'  = h
  /\ UNCHANGED <<started, group, invite, stale, forces, torn, crashes>>

\* acceptWelcome resolves and the invitee is an active member already, or the
\* port throws: nothing is saved.
Fail(h) ==
  /\ loop = Nobody
  /\ pc[h] \in Waiting
  /\ Done(h)
  /\ UNCHANGED <<started, group, invites, history, crashes>>

\* groups.save, the groups row.
SaveGroup(h) ==
  /\ \/ loop = Nobody /\ pc[h] \in {"creating", "rotating"}
     \/ loop = h /\ pc[h] = "saving"
  /\ exists' = TRUE
  /\ epoch'  = plan[h].epoch
  /\ stale'  = (stale \/ h \notin fresh)
  /\ pc'     = [pc EXCEPT ![h] = "listing"]
  /\ loop'   = h
  /\ UNCHANGED <<started, members, invites, invite, plan, fresh, forces, torn, crashes>>

\* groups.save, the rows of the planned members; rows of others stay.
SaveMembers(h) ==
  /\ loop = h
  /\ pc[h] = "listing"
  /\ members' = Upserted(plan[h], Peers)
  /\ InForce(epoch, members')
  /\ fresh' = {}
  /\ Done(h)
  /\ UNCHANGED <<started, exists, epoch, invites, stale, torn, crashes>>

-----------------------------------------------------------------------------
(* Outside the use cases *)

\* An inbound invitation is recorded (by an adapter that is not there yet).
ReceiveInvitation(i) ==
  /\ loop = Nobody
  /\ invites[i] = "none"
  /\ \A k \in Handlers : invite[k] # i
  /\ started' = TRUE
  /\ invites' = [invites EXCEPT ![i] = "pending_inbound"]
  /\ UNCHANGED <<group, pc, invite, plan, loop, history, crashes>>

\* The process dies between any two steps and is started again.  A crash among
\* the member rows leaves some of them written, in an order left open here.
CrashRestart ==
  /\ crashes < MaxCrashes
  /\ crashes' = crashes + 1
  /\ \E S \in SUBSET Peers :
       members' = IF loop # Nobody /\ pc[loop] = "listing" THEN Upserted(plan[loop], S)
                  ELSE members
  /\ InForce(epoch, members')
  /\ torn'   = torn \cup {i \in Invites : loop # Nobody /\ invite[loop] = i}
  /\ pc'     = [h \in Handlers |-> "idle"]
  /\ invite' = [h \in Handlers |-> None]
  /\ plan'   = [h \in Handlers |-> NewGroup(Owner)]
  /\ loop'   = Nobody
  /\ fresh'  = {}
  /\ UNCHANGED <<started, exists, epoch, invites, stale>>

Next ==
  \/ \E h \in Handlers :
       \/ CreateGroup(h) \/ RotateGroupKeys(h)
       \/ SaveOutbound(h) \/ SaveAccepted(h) \/ Fail(h) \/ SaveGroup(h) \/ SaveMembers(h)
       \/ \E i \in Invites : InvitePeer(h, i) \/ AcceptInvitation(h, i)
       \/ \E p \in Peers : RemoveGroupMember(h, p)
  \/ \E i \in Invites : RejectInvitation(i) \/ ReceiveInvitation(i)
  \/ CrashRestart

Spec == Init /\ [][Next]_vars

-----------------------------------------------------------------------------
(* Properties *)

\* Every variable has its type, and the loop is held only between two writes of
\* one save.
TypeOK ==
  /\ started \in BOOLEAN
  /\ exists  \in BOOLEAN
  /\ epoch   \in 0..MaxEpoch
  /\ members \in [Peers -> Seat]
  /\ invites \in [Invites -> InviteStatus]
  /\ pc      \in [Handlers -> Waiting \cup {"idle", "saving", "listing"}]
  /\ invite  \in [Handlers -> Invites \cup {None}]
  /\ plan    \in [Handlers -> Group]
  /\ loop    \in Handlers \cup {Nobody}
  /\ fresh   \in SUBSET Handlers
  /\ stale   \in BOOLEAN
  /\ forces  \in [0..MaxEpoch -> SUBSET SUBSET Peers]
  /\ torn    \in SUBSET Invites
  /\ crashes \in 0..MaxCrashes
  /\ \A h \in Handlers : /\ pc[h] \in {"saving", "listing"} <=> loop = h
                         /\ pc[h] \in {"inviting", "accepting"} => invite[h] \in Invites

\* Nobody is in the member list of a node but the owner it knows and peers that
\* accepted an invitation, however executions interleave and crash.
MembersWereInvited ==
  \A p \in Peers : members[p] \in {"member", "removed"} =>
    \E i \in Invites : Invitee[i] = p /\ invites[i] = "accepted"

\* An accepted invitation made its invitee a member, however executions
\* interleave and crash, except the invitations that a crash caught between
\* their own save and that of the group's member rows.
AcceptedIsMember ==
  \A i \in Invites : invites[i] = "accepted" /\ i \notin torn =>
    \/ members[Invitee[i]] # "none"
    \/ loop # Nobody /\ invite[loop] = i

\* A removed member never was a member under the epoch the group is in, so that
\* it holds no key in use: a crash within the save included, a save of a group
\* that changed since it was read excepted.
RemovedLosesAccess ==
  loop = Nobody /\ ~ stale =>
    \A p \in Peers : members[p] = "removed" => p \notin UNION forces[epoch]

=============================================================================
