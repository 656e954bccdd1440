-------------------------- MODULE AcceptedAnswers --------------------------
(***************************************************************************)
(* The accepted answer of a forum post and the points it earns: forums     *)
(* moves the answer from reply to reply and announces each change with     *)
(* ReplyAccepted; contributions-scoring consumes the events in whatever    *)
(* order SQS delivers them and keeps one award flag per reply.             *)
(*                                                                         *)
(*   answer      acceptedReplyId of the post                               *)
(*   accepted    replies whose row says accepted                           *)
(*   deleted     soft-deleted replies                                      *)
(*   call[c]     the acceptAnswer or deleteReply request c is running      *)
(*   sent        ReplyAccepted events published, as a sequence             *)
(*   queue       indices of sent that SQS may deliver                      *)
(*   idem        indices of sent claimed in the idempotency table          *)
(*   awarded     replies whose REPLY#/META row says awarded                *)
(*   worker[w]   the index w has flipped the flag for and not yet paid     *)
(*   net[r]      sum of the ledger entries written for r                   *)
(***************************************************************************)
EXTENDS Integers, Sequences, FiniteSets

CONSTANTS Replies, NoReply,
          Members,       \* replies whose author's role earns points
          Points,        \* points of activity forum-accepted-reply
          Callers, Workers,
          MaxSent,       \* bound on published events
          MaxCopies,     \* bound on redeliveries
          MaxCrashes     \* bound on requests that die half-way

ReplyAssumption == NoReply \notin Replies /\ Members \subseteq Replies
PointsAssumption == Points \in Nat \ {0}
BoundAssumption == {MaxSent, MaxCopies, MaxCrashes} \subseteq Nat

VARIABLES answer, accepted, deleted, call, sent, queue, idem, awarded, worker, net, budget

forum == <<answer, accepted, deleted, call>>
bus == <<sent, queue>>
scoring == <<idem, awarded, worker, net>>
vars == <<forum, bus, scoring, budget>>

Idle == [pc |-> "idle", old |-> NoReply, new |-> NoReply]

\* A bound is a budget: an action that needs one uses it up.
Spend(what) == budget[what] > 0 /\ budget' = [budget EXCEPT ![what] = @ - 1]

Init ==
  /\ answer = NoReply
  /\ accepted = {}
  /\ deleted = {}
  /\ call = [c \in Callers |-> Idle]
  /\ sent = <<>>
  /\ queue = {}
  /\ idem = {}
  /\ awarded = {}
  /\ worker = [w \in Workers |-> 0]
  /\ net = [r \in Replies |-> 0]
  /\ budget = [copy |-> MaxCopies, crash |-> MaxCrashes]

-----------------------------------------------------------------------------
(* forums: _accept_answer, one step per write. *)

Goto(c, pc) == call' = [call EXCEPT ![c].pc = pc]
Return(c) == call' = [call EXCEPT ![c] = Idle]

Emit(r, yes) ==
  /\ Len(sent) < MaxSent
  /\ sent' = Append(sent, [reply |-> r, accepted |-> yes])
  /\ queue' = queue \cup {Len(sent) + 1}

\* The post is read once; new = NoReply clears the answer.
AcceptRead(c, new) ==
  /\ call[c].pc = "idle"
  /\ call' = [call EXCEPT ![c] =
                [pc |-> IF answer \notin {NoReply, new} THEN "clear" ELSE "set",
                 old |-> answer, new |-> new]]
  /\ UNCHANGED <<answer, accepted, deleted, bus, scoring, budget>>

AcceptClear(c) ==
  /\ call[c].pc = "clear"
  /\ accepted' = accepted \ {call[c].old}
  /\ Emit(call[c].old, FALSE)
  /\ Goto(c, "set")
  /\ UNCHANGED <<answer, deleted, scoring, budget>>

AcceptSet(c) ==
  /\ call[c].pc = "set"
  /\ IF call[c].new = NoReply
     THEN UNCHANGED <<accepted, bus>>
     ELSE accepted' = accepted \cup {call[c].new} /\ Emit(call[c].new, TRUE)
  /\ Goto(c, "post")
  /\ UNCHANGED <<answer, deleted, scoring, budget>>

AcceptPost(c) ==
  /\ call[c].pc = "post"
  /\ answer' = call[c].new
  /\ Return(c)
  /\ UNCHANGED <<accepted, deleted, bus, scoring, budget>>

\* _delete_reply reads post and reply, then writes both in one transaction.
DeleteRead(c, r) ==
  /\ call[c].pc = "idle" /\ r \notin deleted
  /\ call' = [call EXCEPT ![c] = [pc |-> "delete", old |-> answer, new |-> r]]
  /\ UNCHANGED <<answer, accepted, deleted, bus, scoring, budget>>

DeleteWrite(c) ==
  /\ call[c].pc = "delete"
  /\ deleted' = deleted \cup {call[c].new}
  /\ answer' = IF call[c].old = call[c].new THEN NoReply ELSE answer
  /\ Return(c)
  /\ UNCHANGED <<accepted, bus, scoring, budget>>

Die(c) ==
  /\ call[c].pc # "idle"
  /\ Spend("crash")
  /\ Return(c)
  /\ UNCHANGED <<answer, accepted, deleted, bus, scoring>>

-----------------------------------------------------------------------------
(* contributions-scoring: ForumConsumer and award_accepted_reply. *)

Redeliver(i) ==
  /\ i \in idem \ queue
  /\ Spend("copy")
  /\ queue' = queue \cup {i}
  /\ UNCHANGED <<forum, sent, scoring>>

\* Mutant: the flag does not gate the payment.
FlipAnyway(w, i) ==
  /\ worker[w] = 0 /\ i \in queue
  /\ queue' = queue \ {i}
  /\ idem' = idem \cup {i}
  /\ IF i \in idem
     THEN UNCHANGED <<awarded, worker>>
     ELSE /\ awarded' = IF sent[i].accepted THEN awarded \cup {sent[i].reply}
                                            ELSE awarded \ {sent[i].reply}
          /\ worker' = [worker EXCEPT ![w] = i]
  /\ UNCHANGED <<forum, sent, net, budget>>

\* run_once claims the event; set_reply_awarded flips the flag only when that
\* changes it, which is also what the preceding read decides.
Flip(w, i) ==
  /\ worker[w] = 0 /\ i \in queue
  /\ queue' = queue \ {i}
  /\ idem' = idem \cup {i}
  /\ IF i \in idem \/ (sent[i].accepted <=> sent[i].reply \in awarded)
     THEN UNCHANGED <<awarded, worker>>
     ELSE /\ awarded' = IF sent[i].accepted THEN awarded \cup {sent[i].reply}
                                            ELSE awarded \ {sent[i].reply}
          /\ worker' = [worker EXCEPT ![w] = i]
  /\ UNCHANGED <<forum, sent, net, budget>>

\* What is paid for event i once the flag has been flipped: an award depends on
\* the author's role, a reversal does not.
Pays(i) == IF ~ sent[i].accepted THEN -Points
           ELSE IF sent[i].reply \in Members THEN Points ELSE 0

Pay(w) ==
  /\ worker[w] # 0
  /\ net' = [net EXCEPT ![sent[worker[w]].reply] = @ + Pays(worker[w])]
  /\ worker' = [worker EXCEPT ![w] = 0]
  /\ UNCHANGED <<forum, bus, idem, awarded, budget>>

-----------------------------------------------------------------------------
Accept(c) == AcceptClear(c) \/ AcceptSet(c) \/ AcceptPost(c)

Next ==
  \/ \E c \in Callers :
       \/ \E new \in Replies \cup {NoReply} : AcceptRead(c, new)
       \/ Accept(c)
       \/ \E r \in Replies : DeleteRead(c, r)
       \/ DeleteWrite(c) \/ Die(c)
  \/ \E i \in idem : Redeliver(i)
  \/ \E w \in Workers : Pay(w) \/ \E i \in queue : Flip(w, i)

Spec == Init /\ [][Next]_vars

-----------------------------------------------------------------------------
TypeOK ==
  /\ answer \in Replies \cup {NoReply}
  /\ accepted \subseteq Replies /\ deleted \subseteq Replies
  /\ \A c \in Callers :
       /\ call[c].pc \in {"idle", "clear", "set", "post", "delete"}
       /\ call[c].old \in Replies \cup {NoReply} /\ call[c].new \in Replies \cup {NoReply}
       /\ call[c].pc = "clear" => call[c].old # NoReply
  /\ sent \in Seq([reply : Replies, accepted : BOOLEAN])
  /\ queue \subseteq DOMAIN sent /\ idem \subseteq DOMAIN sent
  /\ awarded \subseteq Replies
  /\ \A w \in Workers : worker[w] \in {0} \cup idem
  /\ net \in [Replies -> Int]

\* Points still to be written by the workers that have flipped the flag of a member's reply r.
Paying(r, yes) ==
  {w \in Workers : worker[w] # 0 /\ sent[worker[w]] = [reply |-> r, accepted |-> yes]}
Owed(r) == Points * (Cardinality(Paying(r, TRUE)) - Cardinality(Paying(r, FALSE)))

\* What a reply has earned, with what its workers are about to write, is exactly what
\* its flag says, in whatever order and however often its events are delivered
\* (award_accepted_reply: "accept -> +activity.points once; un-accept ->
\* compensating reversal once").
NetMatchesFlag ==
  \A r \in Members : net[r] + Owed(r) = (IF r \in awarded THEN Points ELSE 0)

\* Between requests, unless one died half-way, the replies shown as accepted are
\* the post's answer and no other, through accepting, moving, clearing and deleting
\* it (BR-15 of the forums design: "exactly one at a time").
OneAnswer ==
  (\A c \in Callers : call[c].pc = "idle") /\ budget.crash = MaxCrashes =>
    /\ accepted \ deleted \subseteq {answer}
    /\ answer # NoReply => answer \in accepted

(* The types and the two of them together. *)
AnswersHold == TypeOK /\ NetMatchesFlag /\ OneAnswer
=============================================================================
