--------------------------- MODULE ThreadsProofs ---------------------------
(***************************************************************************)
(* Proofs about a thread, for any people, replies, kinds of reaction,      *)
(* reports, requests at once, limits and hours: the post's counts are      *)
(* those of its rows and its answer can be seen, the hourly limit is       *)
(* exceeded by the requests at once and no more, a reporter has one open   *)
(* report, and what a report was actioned for is gone.                     *)
(*                                                                         *)
(* A request is looked at through what it does next (At) and what it       *)
(* holds; the sequences it is kept in are left behind after the first      *)
(* lemmas.                                                                 *)
(***************************************************************************)
EXTENDS Threads, FiniteSetTheorems, TLAPS

Programs == {<<"store", "rate">>, <<"rate">>, <<"drop">>, <<"point">>, <<"react">>, <<"report">>,
             <<"Dismissed", "allow">>, <<"allow">>, <<"remove", "Actioned">>, <<"Actioned">>,
             <<"remove">>}
Subjects == ({"reply"} \X Replies) \cup ({"reaction"} \X People)
            \cup ({"report", "moderate"} \X Reports) \cup {<<"post", 1>>}
Holding == [todo : Programs, who : People, on : Subjects, reply : Replies \cup {NoOne},
            accepted : BOOLEAN, from : Kinds \cup {NoOne}, to : Kinds \cup {NoOne},
            report : Reports \cup {NoOne}]
Calls == [Callers -> {<<>>} \cup {<<q>> : q \in Holding}]

\* What c does next; a post is removed by a moderator or deleted.
At(c) == IF call[c] = <<>> THEN "idle"
         ELSE IF call[c][1].todo = <<"remove">> THEN "delete" ELSE Head(call[c][1].todo)
\* What c holds.
Who(c) == call[c][1].who
On(c) == call[c][1].on
ReplyOf(c) == call[c][1].reply
ReportOf(c) == call[c][1].report
WasAnswer(c) == call[c][1].accepted
From(c) == call[c][1].from
To(c) == call[c][1].to

OnReply == {"store", "rate", "drop", "point"}
OnReport == {"Dismissed", "allow", "remove", "Actioned"}
Stages == OnReply \cup OnReport \cup {"idle", "react", "report", "delete"}

\* What c is about.
Aimed(c) ==
  /\ At(c) # "idle" => Who(c) \in People
  /\ At(c) \in OnReply => ReplyOf(c) \in Replies /\ On(c) = <<"reply", ReplyOf(c)>>
  /\ At(c) = "react" => /\ On(c) = <<"reaction", Who(c)>>
                        /\ From(c) \in Kinds \cup {NoOne} /\ To(c) \in Kinds \cup {NoOne}
                        /\ From(c) # To(c)
  /\ At(c) = "report" => ReportOf(c) \in Reports /\ On(c) = <<"report", ReportOf(c)>>
  /\ At(c) \in OnReport => ReportOf(c) \in Reports /\ On(c) = <<"moderate", ReportOf(c)>>
  /\ At(c) = "delete" => On(c) = <<"post", 1>>

Types ==
  /\ TypeOK
  /\ call \in Calls
  /\ \A c \in Callers : Aimed(c)

-----------------------------------------------------------------------------
(* What a step does to the requests. *)

\* c keeps what it holds.
Keeps(c) ==
  /\ Who(c)' = Who(c) /\ On(c)' = On(c) /\ ReplyOf(c)' = ReplyOf(c) /\ ReportOf(c)' = ReportOf(c)
  /\ WasAnswer(c)' = WasAnswer(c) /\ From(c)' = From(c) /\ To(c)' = To(c)
Alone(c) == \A d \in Callers : d # c => At(d)' = At(d) /\ Keeps(d)

Goes(c, from, to) ==
  /\ At(c) = from /\ At(c)' = to /\ (to # "idle" => Keeps(c)) /\ Alone(c) /\ UNCHANGED crossed
Starts(c, p, at, subject) ==
  /\ At(c) = "idle" /\ At(c)' = at /\ Who(c)' = p /\ On(c)' = subject /\ Alone(c)
  /\ crossed' = (crossed \/ \E o \in Callers \ {c} : At(o) # "idle" /\ On(o) = subject)

LEMMA Heads ==
  /\ Head(<<"store", "rate">>) = "store" /\ Head(<<"rate">>) = "rate"
  /\ Head(<<"drop">>) = "drop" /\ Head(<<"point">>) = "point" /\ Head(<<"react">>) = "react"
  /\ Head(<<"report">>) = "report" /\ Head(<<"Dismissed", "allow">>) = "Dismissed"
  /\ Head(<<"allow">>) = "allow" /\ Head(<<"remove", "Actioned">>) = "remove"
  /\ Head(<<"Actioned">>) = "Actioned" /\ Head(<<"remove">>) = "remove"
  OBVIOUS

LEMMA Pairs ==
  ASSUME NEW s, NEW t
  PROVE  Len(<<s, t>>) = 2 /\ Tail(<<s, t>>) = <<t>> /\ Len(<<s>>) = 1 /\ <<s, t>> # <<"remove">>
         /\ Head(<<s, t>>) = s /\ Head(<<t>>) = t /\ (t # "remove" => <<t>> # <<"remove">>)
<1>1. Len(<<s, t>>) = 2  OBVIOUS
<1>2. Tail(<<s, t>>) = <<t>>  OBVIOUS
<1>3. Len(<<s>>) = 1  OBVIOUS
<1>4. <<s, t>> # <<"remove">>  OBVIOUS
<1>5. Head(<<s, t>>) = s /\ Head(<<t>>) = t  OBVIOUS
<1>6. t # "remove" => <<t>> # <<"remove">>  OBVIOUS
<1>7. QED BY <1>1, <1>2, <1>3, <1>4, <1>5, <1>6

\* What is held is a request, and is held by one that is not idle.
LEMMA Held ==
  ASSUME call \in Calls, NEW c \in Callers
  PROVE  /\ call[c] # <<>> => call[c][1] \in Holding /\ call[c] = <<call[c][1]>> /\ At(c) # "idle"
         /\ call[c] = <<>> => At(c) = "idle"
         /\ At(c) \in Stages
<1>1. CASE call[c] = <<>>  BY <1>1 DEF At, Stages
<1>2. CASE call[c] # <<>>
  <2>1. PICK q \in Holding : call[c] = <<q>>  BY <1>2 DEF Calls
  <2>2. call[c][1] = q  BY <2>1
  <2>3. q.todo \in Programs  BY DEF Holding
  <2>4. At(c) # "idle" /\ At(c) \in Stages
    BY <1>2, <2>2, <2>3, Heads DEF At, Programs, Stages, OnReply, OnReport
  <2>5. QED BY <1>2, <2>1, <2>2, <2>4
<1>3. QED BY <1>1, <1>2

LEMMA Empties ==
  ASSUME call \in Calls, NEW c \in Callers, call' = [call EXCEPT ![c] = <<>>]
  PROVE  call' \in Calls /\ At(c)' = "idle" /\ Alone(c)
<1>1. call' \in Calls  BY DEF Calls
<1>2. call'[c] = <<>> /\ \A d \in Callers : d # c => call'[d] = call[d]  BY DEF Calls
<1>3. At(c)' = "idle"  BY <1>2 DEF At
<1>4. Alone(c)  BY <1>2 DEF Alone, Keeps, At, Who, On, ReplyOf, ReportOf, WasAnswer, From, To
<1>5. QED BY <1>1, <1>3, <1>4

LEMMA Sets ==
  ASSUME call \in Calls, NEW c \in Callers, NEW q \in Holding, call' = [call EXCEPT ![c] = <<q>>]
  PROVE  /\ call' \in Calls /\ Alone(c)
         /\ At(c)' = (IF q.todo = <<"remove">> THEN "delete" ELSE Head(q.todo))
         /\ Who(c)' = q.who /\ On(c)' = q.on /\ ReplyOf(c)' = q.reply /\ ReportOf(c)' = q.report
         /\ WasAnswer(c)' = q.accepted /\ From(c)' = q.from /\ To(c)' = q.to
<1>1. call' \in Calls  BY DEF Calls
<1>2. call'[c] = <<q>> /\ \A d \in Callers : d # c => call'[d] = call[d]  BY DEF Calls
<1>3. call'[c] # <<>> /\ call'[c][1] = q  BY <1>2
<1>4. At(c)' = (IF q.todo = <<"remove">> THEN "delete" ELSE Head(q.todo))  BY <1>3 DEF At
<1>5. /\ Who(c)' = q.who /\ On(c)' = q.on /\ ReplyOf(c)' = q.reply /\ ReportOf(c)' = q.report
      /\ WasAnswer(c)' = q.accepted /\ From(c)' = q.from /\ To(c)' = q.to
  BY <1>3 DEF Who, On, ReplyOf, ReportOf, WasAnswer, From, To
<1>6. Alone(c)  BY <1>2 DEF Alone, Keeps, At, Who, On, ReplyOf, ReportOf, WasAnswer, From, To
<1>7. QED BY <1>1, <1>4, <1>5, <1>6

\* Where a step leads.
After(at) == CASE at = "store" -> "rate" [] at = "Dismissed" -> "allow" [] at = "remove" -> "Actioned"
               [] OTHER -> "idle"

LEMMA StepMoves ==
  ASSUME call \in Calls, NEW c \in Callers, Step(c), call[c] # <<>>
  PROVE  call' \in Calls /\ Goes(c, At(c), After(At(c))) /\ UNCHANGED budget
<1>1. UNCHANGED <<crossed, budget>>  BY DEF Step
<1>2. PICK q \in Holding : call[c] = <<q>> /\ call[c][1] = q  BY Held
<1>3. call' = [call EXCEPT ![c] = IF Len(q.todo) = 1 THEN <<>>
                                  ELSE <<[q EXCEPT !.todo = Tail(q.todo)]>>]
  BY <1>2 DEF Step
<1>5. At(c) = IF q.todo = <<"remove">> THEN "delete" ELSE Head(q.todo)  BY <1>2 DEF At
<1>6. ASSUME NEW s \in {"rate", "drop", "point", "react", "report", "allow", "Actioned", "remove"},
             q.todo = <<s>>
      PROVE  call' \in Calls /\ Goes(c, At(c), After(At(c)))
  <2>1. call' = [call EXCEPT ![c] = <<>>]  BY <1>3, <1>6, Pairs
  <2>2. call' \in Calls /\ At(c)' = "idle" /\ Alone(c)  BY <2>1, Empties
  <2>3. After(At(c)) = "idle"
    BY <1>5, <1>6, Heads DEF After
  <2>4. QED BY <1>1, <2>2, <2>3 DEF Goes
<1>7. ASSUME NEW s \in {"store", "Dismissed", "remove"}, NEW t \in {"rate", "allow", "Actioned"},
             t = After(s), q.todo = <<s, t>>
      PROVE  call' \in Calls /\ Goes(c, At(c), After(At(c)))
  <2>0. <<t>> \in Programs /\ t # "remove"  BY DEF Programs
  <2> DEFINE r == [q EXCEPT !.todo = <<t>>]
  <2>1. call' = [call EXCEPT ![c] = <<r>>]  BY <1>3, <1>7, Pairs
  <2>2. r \in Holding  BY <2>0 DEF Holding
  <2>3. /\ r.todo = <<t>> /\ r.who = q.who /\ r.on = q.on /\ r.reply = q.reply
        /\ r.report = q.report /\ r.accepted = q.accepted /\ r.from = q.from /\ r.to = q.to
    BY DEF Holding
  <2> HIDE DEF r
  <2>4. At(c) = s  BY <1>5, <1>7, Pairs
  <2>5. At(c)' = t
    <3>1. r.todo # <<"remove">> /\ Head(r.todo) = t  BY <2>0, <2>3, Pairs
    <3>2. QED BY <3>1, <2>1, <2>2, Sets
  <2>6. Keeps(c)
    BY <1>2, <2>1, <2>2, <2>3, Sets DEF Keeps, Who, On, ReplyOf, ReportOf, WasAnswer, From, To
  <2>7. QED BY <1>1, <1>7, <2>1, <2>2, <2>4, <2>5, <2>6, Sets DEF Goes
<1>8. q.todo \in Programs  BY DEF Holding
<1>9. CASE \E s \in {"rate", "drop", "point", "react", "report", "allow", "Actioned", "remove"} :
             q.todo = <<s>>
  BY <1>1, <1>6, <1>9
<1>10. After("store") = "rate" /\ After("Dismissed") = "allow" /\ After("remove") = "Actioned"
  BY DEF After
<1>11. CASE \/ q.todo = <<"store", "rate">> \/ q.todo = <<"Dismissed", "allow">>
            \/ q.todo = <<"remove", "Actioned">>
  <2>1. \E s \in {"store", "Dismissed", "remove"}, t \in {"rate", "allow", "Actioned"} :
          t = After(s) /\ q.todo = <<s, t>>
    BY <1>10, <1>11
  <2>2. QED BY <1>1, <1>7, <2>1
<1>12. QED BY <1>8, <1>9, <1>11 DEF Programs

\* What a request brings before it is begun.
Blank == [todo : {<<>>}, who : {NoOne}, on : {<<>>}, reply : Replies \cup {NoOne},
          accepted : BOOLEAN, from : Kinds \cup {NoOne}, to : Kinds \cup {NoOne},
          report : Reports \cup {NoOne}]

LEMMA BeginMoves ==
  ASSUME call \in Calls, NEW c \in Callers, NEW p \in People, NEW steps \in Programs,
         NEW subject \in Subjects, NEW held \in Blank, Begin(c, p, steps, subject, held)
  PROVE  /\ call' \in Calls
         /\ Starts(c, p, IF steps = <<"remove">> THEN "delete" ELSE Head(steps), subject)
         /\ ReplyOf(c)' = held.reply /\ ReportOf(c)' = held.report
         /\ WasAnswer(c)' = held.accepted /\ From(c)' = held.from /\ To(c)' = held.to
<1> DEFINE q == [held EXCEPT !.todo = steps, !.who = p, !.on = subject]
<1>1. q \in Holding  BY DEF Holding, Blank
<1>2. /\ q.todo = steps /\ q.who = p /\ q.on = subject /\ q.reply = held.reply
      /\ q.report = held.report /\ q.accepted = held.accepted
      /\ q.from = held.from /\ q.to = held.to
  BY DEF Blank
<1>3. call' = [call EXCEPT ![c] = <<q>>]  BY DEF Begin
<1>4. At(c) = "idle"  BY DEF Begin, At
<1>5. crossed' = (crossed \/ \E o \in Callers \ {c} : At(o) # "idle" /\ On(o) = subject)
  BY Held DEF Begin, On
<1> HIDE DEF q
<1>6. QED BY <1>1, <1>2, <1>3, <1>4, <1>5, Sets DEF Starts

-----------------------------------------------------------------------------
(* The steps, seen through what they do to the requests. *)

\* Requests that begin; they read, and a report is taken note of.
Creating(c, p, r) ==
  /\ rate[hour][p] < HourlyLimit /\ reply[r].state = "none"
  /\ \A d \in Callers : At(d) \in OnReply => ReplyOf(d) # r
  /\ Starts(c, p, "store", <<"reply", r>>) /\ ReplyOf(c)' = r /\ UNCHANGED dedupe
Deleting(c, p, r) ==
  /\ reply[r].state = "live"
  /\ Starts(c, p, "drop", <<"reply", r>>) /\ ReplyOf(c)' = r /\ WasAnswer(c)' = (post.answer = r)
  /\ UNCHANGED dedupe
Accepting(c, p, r) ==
  /\ reply[r].state = "live"
  /\ Starts(c, p, "point", <<"reply", r>>) /\ ReplyOf(c)' = r /\ UNCHANGED dedupe
Reacting(c, p, to) ==
  /\ to # kind[p]
  /\ Starts(c, p, "react", <<"reaction", p>>) /\ From(c)' = kind[p] /\ To(c)' = to
  /\ UNCHANGED dedupe
Reporting(c, p, n) ==
  /\ report[n] = NoReport /\ p \notin dedupe /\ dedupe' = dedupe \cup {p}
  /\ \A d \in Callers : At(d) = "report" => ReportOf(d) # n
  /\ Starts(c, p, "report", <<"report", n>>) /\ ReportOf(c)' = n
DeletingPost(c, p) == Starts(c, p, "delete", <<"post", 1>>) /\ UNCHANGED dedupe

Reading(c) ==
  /\ UNCHANGED <<post, reply, kind, report, rate, hour, again>>
  /\ \E p \in People :
       \/ \E r \in Replies : Creating(c, p, r) \/ Deleting(c, p, r) \/ Accepting(c, p, r)
       \/ \E to \in Kinds \cup {NoOne} : Reacting(c, p, to)
       \/ \E n \in Reports : Reporting(c, p, n)
       \/ DeletingPost(c, p)

Moderating(c) ==
  /\ UNCHANGED <<post, reply, kind, report, dedupe, rate, hour>>
  /\ \E p \in People, n \in Reports, at \in {"Dismissed", "remove"} :
       /\ report[n] # NoReport
       /\ Starts(c, p, at, <<"moderate", n>>) /\ ReportOf(c)' = n
       /\ again' = (again \/ report[n].status # "Open"
                          \/ \E d \in Callers : At(d) \in OnReport /\ ReportOf(d) = n)

\* Requests that go on.
Storing(c) ==
  /\ Goes(c, "store", "rate")
  /\ reply' = [reply EXCEPT ![ReplyOf(c)] = [state |-> "live", by |-> Who(c)]]
  /\ post' = [post EXCEPT !.replies = @ + 1]
  /\ UNCHANGED <<kind, report, dedupe, rate, hour, again>>
Counting(c) ==
  /\ Goes(c, "rate", "idle") /\ rate' = [rate EXCEPT ![hour][Who(c)] = @ + 1]
  /\ UNCHANGED <<post, reply, kind, report, dedupe, hour, again>>
Dropping(c) ==
  /\ Goes(c, "drop", "idle") /\ soft_delete_reply(ReplyOf(c), WasAnswer(c))
  /\ UNCHANGED <<kind, report, dedupe, rate, hour, again>>
Pointing(c) ==
  /\ Goes(c, "point", "idle") /\ post' = [post EXCEPT !.answer = ReplyOf(c)]
  /\ UNCHANGED <<reply, kind, report, dedupe, rate, hour, again>>
Toggling(c) ==
  /\ Goes(c, "react", "idle")
  /\ kind' = [kind EXCEPT ![Who(c)] = To(c)]
  /\ post' = [post EXCEPT !.reactions = Counts(@, From(c), To(c))]
  /\ UNCHANGED <<reply, report, dedupe, rate, hour, again>>
Filing(c) ==
  /\ Goes(c, "report", "idle")
  /\ report' = [report EXCEPT ![ReportOf(c)] = [status |-> "Open", by |-> Who(c)]]
  /\ UNCHANGED <<post, reply, kind, dedupe, rate, hour, again>>
Resolving(c) ==
  /\ Goes(c, "Dismissed", "allow") \/ Goes(c, "Actioned", "idle")
  /\ report' = [report EXCEPT ![ReportOf(c)].status = At(c)]
  /\ UNCHANGED <<post, reply, kind, dedupe, rate, hour, again>>
Allowing(c) ==
  /\ Goes(c, "allow", "idle") /\ dedupe' = dedupe \ {report[ReportOf(c)].by}
  /\ UNCHANGED <<post, reply, kind, report, rate, hour, again>>
Removing(c) ==
  /\ Goes(c, "remove", "Actioned") \/ Goes(c, "delete", "idle")
  /\ post' = [post EXCEPT !.deleted = TRUE]
  /\ UNCHANGED <<reply, kind, report, dedupe, rate, hour, again>>
Dying(c) ==
  /\ At(c) # "idle" /\ Goes(c, At(c), "idle")
  /\ UNCHANGED <<post, reply, kind, report, dedupe, rate, hour, again>>

Simple(c) ==
  \/ Reading(c) \/ Moderating(c)
  \/ Storing(c) \/ Counting(c) \/ Dropping(c) \/ Pointing(c) \/ Toggling(c) \/ Filing(c)
  \/ Resolving(c) \/ Allowing(c) \/ Removing(c) \/ Dying(c)

\* Who is at work on a subject.
LEMMA WhoTakes ==
  ASSUME Types
  PROVE  /\ \A s : Taken(s) <=> \E d \in Callers : At(d) # "idle" /\ On(d) = s
         /\ \A r \in Replies : ~Taken(<<"reply", r>>) =>
              \A d \in Callers : At(d) \in OnReply => ReplyOf(d) # r
<1>1. \A d \in Callers : call[d] # <<>> <=> At(d) # "idle"  BY Held DEF Types
<1>2. \A s : Taken(s) <=> \E d \in Callers : At(d) # "idle" /\ On(d) = s
  BY <1>1 DEF Taken, On
<1>3. QED BY <1>2 DEF Types, Aimed, OnReply

LEMMA WhoTakesReports ==
  ASSUME Types, NEW n \in Reports
  PROVE  /\ ~Taken(<<"report", n>>) =>
              \A d \in Callers : At(d) = "report" => ReportOf(d) # n
         /\ Taken(<<"moderate", n>>) <=>
              \E d \in Callers : At(d) \in OnReport /\ ReportOf(d) = n
<1>1. ~Taken(<<"report", n>>) => \A d \in Callers : At(d) = "report" => ReportOf(d) # n
  BY WhoTakes DEF Types, Aimed
<1>2. (\E d \in Callers : At(d) \in OnReport /\ ReportOf(d) = n) => Taken(<<"moderate", n>>)
  BY WhoTakes DEF Types, Aimed, OnReport
<1>3. Taken(<<"moderate", n>>) => \E d \in Callers : At(d) \in OnReport /\ ReportOf(d) = n
  <2> SUFFICES ASSUME NEW d \in Callers, At(d) # "idle", On(d) = <<"moderate", n>>
               PROVE  At(d) \in OnReport /\ ReportOf(d) = n
    BY WhoTakes
  <2>1. At(d) \in Stages  BY Held DEF Types
  <2>2. \A x, y : <<"moderate", x>> = <<"moderate", y>> => x = y  OBVIOUS
  <2>3. \A x, y : \A t \in {"reply", "reaction", "report", "post"} : <<t, x>> # <<"moderate", y>>
    OBVIOUS
  <2>4. At(d) \notin OnReply \cup {"react", "report", "delete"}
    BY <2>3 DEF Types, Aimed, OnReply
  <2>5. QED BY <2>1, <2>2, <2>4 DEF Types, Aimed, Stages
<1>4. QED BY <1>1, <1>2, <1>3

LEMMA RequestsAreSimple ==
  ASSUME Types, NEW c \in Callers, Request(c)
  PROVE  call' \in Calls /\ (Reading(c) \/ Moderating(c))
<1>0. call \in Calls /\ TypeOK  BY DEF Types
<1>p. PICK p \in People :
        \/ \E r \in Replies : CreateReply(c, p, r) \/ DeleteReply(c, p, r) \/ Accept(c, p, r)
        \/ \E k \in Kinds : React(c, p, k)
        \/ \E n \in Reports : \/ Report(c, p, n)
                              \/ Moderate(c, p, n, DismissSteps)
                              \/ Moderate(c, p, n, ActionSteps)
        \/ DeletePost(c, p)
  BY DEF Request
<1> DEFINE Other == UNCHANGED <<post, reply, kind, report, rate, hour, again>>
<1>1. ASSUME NEW r \in Replies, CreateReply(c, p, r)
      PROVE  call' \in Calls /\ Reading(c)
  <2> DEFINE h == [NoRequest EXCEPT !.reply = r]
  <2>1. h \in Blank /\ h.reply = r  BY DEF NoRequest, Blank
  <2>2. Begin(c, p, <<"store", "rate">>, <<"reply", r>>, h)  BY <1>1 DEF CreateReply
  <2> HIDE DEF h
  <2>3. <<"store", "rate">> \in Programs /\ <<"reply", r>> \in Subjects  BY DEF Programs, Subjects
  <2>4. call' \in Calls /\ Starts(c, p, "store", <<"reply", r>>) /\ ReplyOf(c)' = r
    BY <1>0, <2>1, <2>2, <2>3, BeginMoves, Pairs
  <2>5. \A d \in Callers : At(d) \in OnReply => ReplyOf(d) # r
    BY <1>1, WhoTakes DEF CreateReply, NewReply, FreeReply
  <2>6. Creating(c, p, r) /\ Other
    BY <1>1, <2>4, <2>5 DEF CreateReply, check_rate, NewReply, FreeReply, Creating
  <2>7. QED BY <2>4, <2>6 DEF Reading
<1>2. ASSUME NEW r \in Replies, DeleteReply(c, p, r)
      PROVE  call' \in Calls /\ Reading(c)
  <2> DEFINE h == [NoRequest EXCEPT !.reply = r, !.accepted = (post.answer = r)]
  <2>1. h \in Blank /\ h.reply = r /\ h.accepted = (post.answer = r)  BY DEF NoRequest, Blank
  <2>2. Begin(c, p, <<"drop">>, <<"reply", r>>, h)  BY <1>2 DEF DeleteReply
  <2> HIDE DEF h
  <2>3. <<"drop">> \in Programs /\ <<"reply", r>> \in Subjects  BY DEF Programs, Subjects
  <2>4. /\ call' \in Calls /\ Starts(c, p, "drop", <<"reply", r>>) /\ ReplyOf(c)' = r
        /\ WasAnswer(c)' = (post.answer = r)
    BY <1>0, <2>1, <2>2, <2>3, BeginMoves, Heads
  <2>5. Deleting(c, p, r) /\ Other  BY <1>2, <2>4 DEF DeleteReply, Deleting
  <2>6. QED BY <2>4, <2>5 DEF Reading
<1>3. ASSUME NEW r \in Replies, Accept(c, p, r)
      PROVE  call' \in Calls /\ Reading(c)
  <2> DEFINE h == [NoRequest EXCEPT !.reply = r]
  <2>1. h \in Blank /\ h.reply = r  BY DEF NoRequest, Blank
  <2>2. Begin(c, p, <<"point">>, <<"reply", r>>, h)  BY <1>3 DEF Accept
  <2> HIDE DEF h
  <2>3. <<"point">> \in Programs /\ <<"reply", r>> \in Subjects  BY DEF Programs, Subjects
  <2>4. call' \in Calls /\ Starts(c, p, "point", <<"reply", r>>) /\ ReplyOf(c)' = r
    BY <1>0, <2>1, <2>2, <2>3, BeginMoves, Heads
  <2>5. Accepting(c, p, r) /\ Other  BY <1>3, <2>4 DEF Accept, Accepting
  <2>6. QED BY <2>4, <2>5 DEF Reading
<1>4. ASSUME NEW k \in Kinds, React(c, p, k)
      PROVE  call' \in Calls /\ Reading(c)
  <2> DEFINE to == IF k = kind[p] THEN NoOne ELSE k
             h == [NoRequest EXCEPT !.from = kind[p], !.to = to]
  <2>0. kind[p] \in Kinds \cup {NoOne} /\ to \in Kinds \cup {NoOne} /\ to # kind[p]
    BY <1>0, NamesAssumption DEF TypeOK, NamesAssumption
  <2>1. h \in Blank /\ h.from = kind[p] /\ h.to = to  BY <2>0 DEF NoRequest, Blank
  <2>2. Begin(c, p, <<"react">>, <<"reaction", p>>, h)  BY <1>4 DEF React
  <2> HIDE DEF h, to
  <2>3. <<"react">> \in Programs /\ <<"reaction", p>> \in Subjects  BY DEF Programs, Subjects
  <2>4. /\ call' \in Calls /\ Starts(c, p, "react", <<"reaction", p>>)
        /\ From(c)' = kind[p] /\ To(c)' = to
    BY <1>0, <2>1, <2>2, <2>3, BeginMoves, Heads
  <2>5. Reacting(c, p, to) /\ Other  BY <1>4, <2>0, <2>4 DEF React, Reacting
  <2>6. QED BY <2>0, <2>4, <2>5 DEF Reading
<1>5. ASSUME NEW n \in Reports, Report(c, p, n)
      PROVE  call' \in Calls /\ Reading(c)
  <2> DEFINE h == [NoRequest EXCEPT !.report = n]
  <2>1. h \in Blank /\ h.report = n  BY DEF NoRequest, Blank
  <2>2. Begin(c, p, <<"report">>, <<"report", n>>, h)  BY <1>5 DEF Report
  <2> HIDE DEF h
  <2>3. <<"report">> \in Programs /\ <<"report", n>> \in Subjects  BY DEF Programs, Subjects
  <2>4. call' \in Calls /\ Starts(c, p, "report", <<"report", n>>) /\ ReportOf(c)' = n
    BY <1>0, <2>1, <2>2, <2>3, BeginMoves, Heads
  <2>5. \A d \in Callers : At(d) = "report" => ReportOf(d) # n
    BY <1>5, WhoTakesReports DEF Report, NewReport, FreeReport
  <2>6. Reporting(c, p, n) /\ Other
    BY <1>5, <2>4, <2>5 DEF Report, NewReport, FreeReport, Reporting
  <2>7. QED BY <2>4, <2>6 DEF Reading
<1>6. ASSUME NEW n \in Reports, NEW at \in {"Dismissed", "remove"},
             NEW steps \in {DismissSteps, ActionSteps}, at = Head(steps),
             Moderate(c, p, n, steps)
      PROVE  call' \in Calls /\ Moderating(c)
  <2> DEFINE h == [NoRequest EXCEPT !.report = n]
  <2>1. h \in Blank /\ h.report = n  BY DEF NoRequest, Blank
  <2>2. Begin(c, p, steps, <<"moderate", n>>, h)  BY <1>6 DEF Moderate
  <2> HIDE DEF h
  <2>3. steps \in Programs /\ <<"moderate", n>> \in Subjects
    BY DEF Programs, Subjects, DismissSteps, ActionSteps
  <2>4. steps # <<"remove">>  BY Pairs DEF DismissSteps, ActionSteps
  <2>5. call' \in Calls /\ Starts(c, p, at, <<"moderate", n>>) /\ ReportOf(c)' = n
    BY <1>0, <1>6, <2>1, <2>2, <2>3, <2>4, BeginMoves
  <2>6. QED BY <1>6, <2>5, WhoTakesReports DEF Moderate, Moderating
<1>7. ASSUME DeletePost(c, p)
      PROVE  call' \in Calls /\ Reading(c)
  <2>1. NoRequest \in Blank  BY DEF NoRequest, Blank
  <2>2. <<"remove">> \in Programs /\ <<"post", 1>> \in Subjects  BY DEF Programs, Subjects
  <2>3. Begin(c, p, <<"remove">>, <<"post", 1>>, NoRequest)  BY <1>7 DEF DeletePost
  <2>4. call' \in Calls /\ Starts(c, p, "delete", <<"post", 1>>)
    BY <1>0, <2>1, <2>2, <2>3, BeginMoves
  <2>5. DeletingPost(c, p) /\ Other  BY <1>7, <2>4 DEF DeletePost, DeletingPost
  <2>6. QED BY <2>4, <2>5 DEF Reading
<1>8. Head(DismissSteps) = "Dismissed" /\ Head(ActionSteps) = "remove"
  BY Heads DEF DismissSteps, ActionSteps
<1>9. QED BY <1>p, <1>1, <1>2, <1>3, <1>4, <1>5, <1>6, <1>7, <1>8

LEMMA WorkIsSimple ==
  ASSUME Types, NEW c \in Callers, Work(c)
  PROVE  call' \in Calls /\ Simple(c)
<1>0. call \in Calls  BY DEF Types
<1>1. ASSUME NEW s, Does(c, s), Step(c)
      PROVE  call' \in Calls /\ Goes(c, At(c), After(At(c))) /\ At(c) \in {s, "delete"}
             /\ (s # "remove" => At(c) = s)
  <2>1. At(c) \in {s, "delete"}  BY <1>1 DEF Does, At
  <2>2. s # "remove" => At(c) = s  BY <1>1, Heads DEF Does, At
  <2>3. QED BY <1>0, <1>1, <2>1, <2>2, StepMoves DEF Does
<1>2. /\ After("store") = "rate" /\ After("Dismissed") = "allow" /\ After("remove") = "Actioned"
      /\ \A s \in {"rate", "drop", "point", "react", "report", "allow", "Actioned", "delete"} :
           After(s) = "idle"
  BY DEF After
<1>3. ASSUME StoreReply(c) PROVE call' \in Calls /\ Storing(c)
  BY <1>1, <1>2, <1>3 DEF StoreReply, Storing, ReplyOf, Who
<1>4. ASSUME IncrementRate(c) PROVE call' \in Calls /\ Counting(c)
  BY <1>1, <1>2, <1>4 DEF IncrementRate, Counting, Who
<1>5. ASSUME DropReply(c) PROVE call' \in Calls /\ Dropping(c)
  BY <1>1, <1>2, <1>5 DEF DropReply, Dropping, ReplyOf, WasAnswer
<1>6. ASSUME PointAtAnswer(c) PROVE call' \in Calls /\ Pointing(c)
  BY <1>1, <1>2, <1>6 DEF PointAtAnswer, Pointing, ReplyOf
<1>7. ASSUME SetReaction(c) PROVE call' \in Calls /\ Toggling(c)
  BY <1>1, <1>2, <1>7 DEF SetReaction, Toggling, Who, From, To
<1>8. ASSUME PutReport(c) PROVE call' \in Calls /\ Filing(c)
  BY <1>1, <1>2, <1>8 DEF PutReport, Filing, Who, ReportOf
<1>9. ASSUME NEW status \in {"Dismissed", "Actioned"}, Resolve(c, status)
      PROVE  call' \in Calls /\ Resolving(c)
  BY <1>1, <1>2, <1>9 DEF Resolve, Resolving, ReportOf
<1>10. ASSUME Allow(c) PROVE call' \in Calls /\ Allowing(c)
  BY <1>1, <1>2, <1>10 DEF Allow, Allowing, ReportOf
<1>11. ASSUME Remove(c) PROVE call' \in Calls /\ Removing(c)
  BY <1>1, <1>2, <1>11 DEF Remove, Removing
<1>12. QED
  BY <1>3, <1>4, <1>5, <1>6, <1>7, <1>8, <1>9, <1>10, <1>11 DEF Work, Simple

LEMMA EveryStepIsSimple ==
  ASSUME Types, Next
  PROVE  call' \in Calls /\ (NextHour \/ \E c \in Callers : Simple(c))
<1>1. ASSUME NEW c \in Callers, Die(c) PROVE call' \in Calls /\ Simple(c)
  BY <1>1, Empties, Held DEF Types, Die, ghosts, Goes, Dying, Simple
<1>2. ASSUME NextHour PROVE call' \in Calls  BY <1>2 DEF NextHour, Types
<1>3. QED BY <1>1, <1>2, RequestsAreSimple, WorkIsSimple DEF Next, Simple

LEMMA OthersStayAimed ==
  ASSUME Types, NEW c \in Callers, Alone(c)
  PROVE  \A d \in Callers : d # c => Aimed(d)'
  BY DEF Types, Aimed, Alone, Keeps

LEMMA StepAimed ==
  ASSUME Types, NEW c \in Callers, Simple(c)
  PROVE  \A d \in Callers : Aimed(d)'
<1>1. CASE Reading(c)
  <2>1. PICK p \in People :
          \/ \E r \in Replies : Creating(c, p, r) \/ Deleting(c, p, r) \/ Accepting(c, p, r)
          \/ \E to \in Kinds \cup {NoOne} : Reacting(c, p, to)
          \/ \E n \in Reports : Reporting(c, p, n)
          \/ DeletingPost(c, p)
    BY <1>1 DEF Reading
  <2>2. Alone(c)
    BY <2>1 DEF Starts, Creating, Deleting, Accepting, Reacting, Reporting, DeletingPost
  <2>3. kind[p] \in Kinds \cup {NoOne}  BY DEF Types, TypeOK
  <2>4. ASSUME NEW r \in Replies, Creating(c, p, r) \/ Deleting(c, p, r) \/ Accepting(c, p, r)
        PROVE  Aimed(c)'
    <3>1. /\ At(c)' \in {"store", "drop", "point"} /\ Who(c)' = p
          /\ On(c)' = <<"reply", r>> /\ ReplyOf(c)' = r
      BY <2>4 DEF Starts, Creating, Deleting, Accepting
    <3>2. QED BY <3>1 DEF Aimed, OnReply, OnReport
  <2>5. ASSUME NEW to \in Kinds \cup {NoOne}, Reacting(c, p, to)
        PROVE  Aimed(c)'
    BY <2>3, <2>5 DEF Aimed, Starts, Reacting, OnReply, OnReport
  <2>6. ASSUME NEW n \in Reports, Reporting(c, p, n)
        PROVE  Aimed(c)'
    BY <2>6 DEF Aimed, Starts, Reporting, OnReply, OnReport
  <2>7. ASSUME DeletingPost(c, p)
        PROVE  Aimed(c)'
    BY <2>7 DEF Aimed, Starts, DeletingPost, OnReply, OnReport
  <2>8. QED BY <2>1, <2>2, <2>4, <2>5, <2>6, <2>7, OthersStayAimed
<1>2. CASE Moderating(c)
  <2>1. Aimed(c)' /\ Alone(c)  BY <1>2 DEF Moderating, Aimed, Starts, OnReply, OnReport
  <2>2. QED BY <2>1, OthersStayAimed
<1>3. CASE \/ Storing(c) \/ Counting(c) \/ Dropping(c) \/ Pointing(c) \/ Toggling(c) \/ Filing(c)
           \/ Resolving(c) \/ Allowing(c) \/ Removing(c) \/ Dying(c)
  <2>1. Alone(c)
    BY <1>3 DEF Storing, Counting, Dropping, Pointing, Toggling, Filing, Resolving, Allowing,
       Removing, Dying, Goes
  <2>2. ASSUME \/ Goes(c, "store", "rate") \/ Goes(c, "Dismissed", "allow")
               \/ Goes(c, "Actioned", "idle") \/ Goes(c, "remove", "Actioned")
               \/ Goes(c, "delete", "idle")
        PROVE  Aimed(c)'
    BY <2>2 DEF Types, Aimed, Goes, Keeps, OnReply, OnReport
  <2>3. CASE Storing(c) \/ Resolving(c) \/ Removing(c)
    <3>1. Aimed(c)'  BY <2>2, <2>3 DEF Storing, Resolving, Removing
    <3>2. QED BY <2>1, <3>1, OthersStayAimed
  <2>4. CASE \/ Counting(c) \/ Dropping(c) \/ Pointing(c) \/ Toggling(c) \/ Filing(c)
             \/ Allowing(c) \/ Dying(c)
    <3>1. At(c)' = "idle"
      BY <2>4 DEF Counting, Dropping, Pointing, Toggling, Filing, Allowing, Dying, Goes
    <3>2. Aimed(c)'  BY <3>1 DEF Aimed, OnReply, OnReport
    <3>3. QED BY <2>1, <3>2, OthersStayAimed
  <2>5. QED BY <1>3, <2>3, <2>4
<1>4. QED BY <1>1, <1>2, <1>3 DEF Simple

LEMMA StepTypeOK ==
  ASSUME Types, NEW c \in Callers, Simple(c)
  PROVE  TypeOK'
<1>0. TypeOK /\ Aimed(c)  BY DEF Types
<1>a. \/ crossed' = crossed
      \/ \E s : crossed' = (crossed \/ \E o \in Callers \ {c} : At(o) # "idle" /\ On(o) = s)
  BY DEF Simple, Reading, Moderating, Storing, Counting, Dropping, Pointing, Toggling, Filing,
     Resolving, Allowing, Removing, Dying, Goes, Starts, Creating, Deleting, Accepting, Reacting,
     Reporting, DeletingPost
<1>b. crossed' \in BOOLEAN  BY <1>0, <1>a DEF TypeOK
<1>1. CASE Reading(c)
  <2>1. dedupe' \subseteq People
    BY <1>0, <1>1 DEF TypeOK, Reading, Creating, Deleting, Accepting, Reacting, Reporting, DeletingPost
  <2>2. QED BY <1>0, <1>b, <1>1, <2>1 DEF TypeOK, Reading
<1>2. CASE Moderating(c)
  <2>1. again' \in BOOLEAN  BY <1>0, <1>2 DEF TypeOK, Moderating
  <2>2. QED BY <1>0, <1>b, <1>2, <2>1 DEF TypeOK, Moderating
<1>3. CASE Storing(c)
  <2>1. ReplyOf(c) \in Replies /\ Who(c) \in People  BY <1>0, <1>3 DEF Storing, Goes, Aimed, OnReply
  <2>2. post' \in [deleted : BOOLEAN, replies : Int, reactions : [Kinds -> Int],
                   answer : Replies \cup {NoOne}]
    <3>1. post.replies + 1 \in Int  BY <1>0 DEF TypeOK
    <3>2. post' = [post EXCEPT !.replies = post.replies + 1]  BY <1>3 DEF Storing
    <3>3. QED BY <1>0, <3>1, <3>2 DEF TypeOK
  <2>3. reply' \in [Replies -> [state : {"none", "live", "deleted"}, by : People \cup {NoOne}]]
    <3>1. [state |-> "live", by |-> Who(c)]
            \in [state : {"none", "live", "deleted"}, by : People \cup {NoOne}]
      BY <2>1
    <3>2. QED BY <1>0, <1>3, <2>1, <3>1 DEF TypeOK, Storing
  <2>4. QED BY <1>0, <1>b, <1>3, <2>2, <2>3 DEF TypeOK, Storing
<1>4. CASE Counting(c)
  <2>1. Who(c) \in People  BY <1>0, <1>4 DEF Counting, Goes, Aimed
  <2>2. rate' \in [1..Hours -> [People -> Nat]]
    <3>1. hour \in 1..Hours /\ rate[hour] \in [People -> Nat]  BY <1>0 DEF TypeOK
    <3>2. rate[hour][Who(c)] + 1 \in Nat  BY <2>1, <3>1
    <3>3. [rate[hour] EXCEPT ![Who(c)] = @ + 1] \in [People -> Nat]  BY <2>1, <3>1, <3>2
    <3>4. rate' = [rate EXCEPT ![hour] = [rate[hour] EXCEPT ![Who(c)] = @ + 1]]
      BY <1>4 DEF Counting
    <3>5. QED BY <1>0, <3>1, <3>3, <3>4 DEF TypeOK
  <2>3. QED BY <1>0, <1>b, <1>4, <2>2 DEF TypeOK, Counting
<1>5. CASE Dropping(c)
  <2>1. ReplyOf(c) \in Replies  BY <1>0, <1>5 DEF Dropping, Goes, Aimed, OnReply
  <2>2. post' \in [deleted : BOOLEAN, replies : Int, reactions : [Kinds -> Int],
                   answer : Replies \cup {NoOne}]
    <3>1. /\ post.replies - 1 \in Int
          /\ (IF WasAnswer(c) THEN NoOne ELSE post.answer) \in Replies \cup {NoOne}
      BY <1>0 DEF TypeOK
    <3>2. post' = [post EXCEPT !.replies = post.replies - 1,
                               !.answer = IF WasAnswer(c) THEN NoOne ELSE post.answer]
      BY <1>5 DEF Dropping, soft_delete_reply
    <3>3. QED BY <1>0, <3>1, <3>2 DEF TypeOK
  <2>3. reply' \in [Replies -> [state : {"none", "live", "deleted"}, by : People \cup {NoOne}]]
    <3>1. [reply[ReplyOf(c)] EXCEPT !.state = "deleted"]
            \in [state : {"none", "live", "deleted"}, by : People \cup {NoOne}]
      BY <1>0, <2>1 DEF TypeOK
    <3>2. QED BY <1>0, <1>5, <2>1, <3>1 DEF TypeOK, Dropping, soft_delete_reply
  <2>4. QED BY <1>0, <1>b, <1>5, <2>2, <2>3 DEF TypeOK, Dropping
<1>6. CASE Pointing(c)
  <2>1. ReplyOf(c) \in Replies  BY <1>0, <1>6 DEF Pointing, Goes, Aimed, OnReply
  <2>2. QED BY <1>0, <1>b, <1>6, <2>1 DEF TypeOK, Pointing
<1>7. CASE Toggling(c)
  <2>1. Who(c) \in People /\ To(c) \in Kinds \cup {NoOne}  BY <1>0, <1>7 DEF Toggling, Goes, Aimed
  <2>2. post.reactions \in [Kinds -> Int]  BY <1>0 DEF TypeOK
  <2>3. \A f, t : Counts(post.reactions, f, t) \in [Kinds -> Int]  BY <2>2 DEF Counts
  <2>4. post' \in [deleted : BOOLEAN, replies : Int, reactions : [Kinds -> Int],
                   answer : Replies \cup {NoOne}]
    BY <1>0, <1>7, <2>3 DEF TypeOK, Toggling
  <2>5. kind' \in [People -> Kinds \cup {NoOne}]  BY <1>0, <1>7, <2>1 DEF TypeOK, Toggling
  <2>6. QED BY <1>0, <1>b, <1>7, <2>4, <2>5 DEF TypeOK, Toggling
<1>8. CASE Filing(c)
  <2>1. Who(c) \in People /\ ReportOf(c) \in Reports  BY <1>0, <1>8 DEF Filing, Goes, Aimed
  <2>2. QED BY <1>0, <1>b, <1>8, <2>1 DEF TypeOK, Filing
<1>9. CASE Resolving(c)
  <2>1. ReportOf(c) \in Reports /\ At(c) \in {"Dismissed", "Actioned"}
    BY <1>0, <1>9 DEF Resolving, Goes, Aimed, OnReport
  <2>2. QED BY <1>0, <1>b, <1>9, <2>1 DEF TypeOK, Resolving
<1>10. CASE Allowing(c)  BY <1>0, <1>b, <1>10 DEF TypeOK, Allowing
<1>11. CASE Removing(c)  BY <1>0, <1>b, <1>11 DEF TypeOK, Removing
<1>12. CASE Dying(c)  BY <1>0, <1>b, <1>12 DEF TypeOK, Dying
<1>13. QED
  BY <1>1, <1>2, <1>3, <1>4, <1>5, <1>6, <1>7, <1>8, <1>9, <1>10, <1>11, <1>12 DEF Simple

LEMMA HourTypes ==
  ASSUME Types, NextHour
  PROVE  Types'
<1>1. TypeOK'  BY NumbersAssumption DEF Types, TypeOK, NextHour, ghosts, NumbersAssumption
<1>2. \A c \in Callers : Aimed(c)'
  BY DEF Types, NextHour, Aimed, At, Who, On, ReplyOf, ReportOf, From, To
<1>3. QED BY <1>1, <1>2 DEF Types, NextHour

LEMMA StepTypes ==
  ASSUME Types, Next
  PROVE  Types'
  BY EveryStepIsSimple, StepAimed, StepTypeOK, HourTypes DEF Types

-----------------------------------------------------------------------------
(* Replies, the answer, reactions. *)

\* Until two requests about one thing have overlapped, no two are about one thing.
Apart ==
  ~crossed => \A c, d \in Callers :
    c # d /\ At(c) # "idle" /\ At(d) # "idle" => On(c) # On(d)

\* Whoever is about to store a reply is the only one to know of it.
Stores ==
  \A c \in Callers : At(c) = "store" =>
    /\ reply[ReplyOf(c)].state = "none"
    /\ \A d \in Callers \ {c} : ~(At(d) \in OnReply /\ ReplyOf(d) = ReplyOf(c))

\* What a request was told of a reply is so when it writes.
Targets ==
  ~crossed => \A c \in Callers :
    /\ At(c) \in {"drop", "point"} => reply[ReplyOf(c)].state = "live"
    /\ At(c) = "drop" /\ post.answer = ReplyOf(c) => WasAnswer(c)

\* And what it was told of a reaction.
Reacts == ~crossed => \A c \in Callers : At(c) = "react" => From(c) = kind[Who(c)]

LEMMA StepKinds ==
  ASSUME NEW c, Simple(c)
  PROVE  \/ \E p, at, s : Starts(c, p, at, s)
         \/ \E from, to : from # "idle" /\ Goes(c, from, to)
  BY DEF Simple, Reading, Moderating, Storing, Counting, Dropping, Pointing, Toggling, Filing,
     Resolving, Allowing, Removing, Dying, Creating, Deleting, Accepting, Reacting, Reporting,
     DeletingPost

LEMMA StepApart ==
  ASSUME Types, Apart, NEW c \in Callers, Simple(c)
  PROVE  Apart'
<1>1. ASSUME NEW p, NEW at, NEW s, Starts(c, p, at, s)
      PROVE  Apart'
  BY <1>1 DEF Types, TypeOK, Apart, Starts, Alone, Keeps
<1>2. ASSUME NEW from, NEW to, Goes(c, from, to), from # "idle"
      PROVE  Apart'
  BY <1>2 DEF Apart, Goes, Alone, Keeps
<1>3. QED BY <1>1, <1>2, StepKinds

\* Two requests are then about different replies, and of different people.
LEMMA TwoRequests ==
  ASSUME Types, Apart, ~crossed, NEW c \in Callers, NEW d \in Callers, c # d
  PROVE  /\ At(c) \in OnReply /\ At(d) \in OnReply => ReplyOf(c) # ReplyOf(d)
         /\ At(c) = "react" /\ At(d) = "react" => Who(c) # Who(d)
  BY DEF Types, Apart, Aimed, OnReply

\* What a step can be for replies.
ReplyStep(c) ==
  \/ \E p \in People, r \in Replies :
       /\ Creating(c, p, r) \/ Deleting(c, p, r) \/ Accepting(c, p, r)
       /\ UNCHANGED <<reply, post>>
  \/ Storing(c) \/ Dropping(c) \/ Pointing(c)
  \/ /\ \E p, at, s : Starts(c, p, at, s) /\ at \notin OnReply
     /\ UNCHANGED <<reply, post>>
  \/ /\ \E from, to : Goes(c, from, to) /\ (to \in OnReply => to = from)
     /\ reply' = reply /\ post'.replies = post.replies /\ post'.answer = post.answer

LEMMA StepsOfReplies ==
  ASSUME Types, NEW c \in Callers, Simple(c)
  PROVE  ReplyStep(c)
<1>1. CASE Reading(c)
  <2>1. PICK p \in People :
          \/ \E r \in Replies : Creating(c, p, r) \/ Deleting(c, p, r) \/ Accepting(c, p, r)
          \/ \E to \in Kinds \cup {NoOne} : Reacting(c, p, to)
          \/ \E n \in Reports : Reporting(c, p, n)
          \/ DeletingPost(c, p)
    BY <1>1 DEF Reading
  <2>2. UNCHANGED <<reply, post>>  BY <1>1 DEF Reading
  <2>3. CASE \E r \in Replies : Creating(c, p, r) \/ Deleting(c, p, r) \/ Accepting(c, p, r)
    BY <2>2, <2>3 DEF ReplyStep
  <2>4. ASSUME NEW at \in {"react", "report", "delete"}, NEW s, Starts(c, p, at, s)
        PROVE  ReplyStep(c)
    BY <2>2, <2>4 DEF ReplyStep, OnReply
  <2>5. QED BY <2>1, <2>3, <2>4 DEF Reacting, Reporting, DeletingPost
<1>2. CASE Moderating(c)  BY <1>2 DEF Moderating, ReplyStep, OnReply
<1>3. CASE Storing(c) \/ Dropping(c) \/ Pointing(c)  BY <1>3 DEF ReplyStep
<1>4. CASE Counting(c) \/ Filing(c) \/ Resolving(c) \/ Allowing(c) \/ Dying(c)
  <2>1. \E from, to : Goes(c, from, to) /\ (to \in OnReply => to = from)
    BY <1>4 DEF Counting, Filing, Resolving, Allowing, Dying, OnReply
  <2>2. UNCHANGED <<reply, post>>
    BY <1>4 DEF Counting, Filing, Resolving, Allowing, Dying
  <2>3. QED BY <2>1, <2>2 DEF ReplyStep
<1>5. CASE Toggling(c) \/ Removing(c)
  <2>1. \E from, to : Goes(c, from, to) /\ (to \in OnReply => to = from)
    BY <1>5 DEF Toggling, Removing, OnReply
  <2>2. reply' = reply /\ post'.replies = post.replies /\ post'.answer = post.answer
    BY <1>5 DEF Types, TypeOK, Toggling, Removing
  <2>3. QED BY <2>1, <2>2 DEF ReplyStep
<1>6. QED BY <1>1, <1>2, <1>3, <1>4, <1>5 DEF Simple

Present == {r \in Replies : reply[r].state = "live"}

LEMMA PresentIsFinite ==
  ASSUME NEW S \in SUBSET Replies
  PROVE  /\ IsFiniteSet(S) /\ Cardinality(S) \in Nat
         /\ \A r \in Replies \ S : Cardinality(S \cup {r}) = Cardinality(S) + 1
         /\ \A r \in S : Cardinality(S \ {r}) = Cardinality(S) - 1
<1>1. IsFiniteSet(S)  BY PeopleAssumption, FS_Subset DEF PeopleAssumption
<1>2. QED BY <1>1, FS_CardinalityType, FS_AddElement, FS_RemoveElement

LEMMA StepReplies ==
  ASSUME Types, Apart, Stores, Targets, ReplyCountHolds, AnswerIsVisible,
         NEW c \in Callers, ReplyStep(c)
  PROVE  Stores' /\ Targets' /\ ReplyCountHolds' /\ AnswerIsVisible'
<1>t. /\ reply \in [Replies -> [state : {"none", "live", "deleted"}, by : People \cup {NoOne}]]
      /\ post.answer \in Replies \cup {NoOne} /\ post.replies \in Int /\ crossed \in BOOLEAN
      /\ post \in [deleted : BOOLEAN, replies : Int, reactions : [Kinds -> Int],
                   answer : Replies \cup {NoOne}]
  BY DEF Types, TypeOK
<1>a. \A d \in Callers : At(d) \in OnReply => ReplyOf(d) \in Replies  BY DEF Types, Aimed
<1>b. post.replies = Cardinality(Present) \/ crossed  BY DEF ReplyCountHolds, Present
<1>1. CASE \E p \in People, r \in Replies :
             /\ Creating(c, p, r) \/ Deleting(c, p, r) \/ Accepting(c, p, r)
             /\ UNCHANGED <<reply, post>>
  <2>1. PICK p \in People, r \in Replies :
          /\ Creating(c, p, r) \/ Deleting(c, p, r) \/ Accepting(c, p, r)
          /\ UNCHANGED <<reply, post>>
    BY <1>1
  <2>2. /\ Alone(c) /\ ReplyOf(c)' = r /\ (~crossed' => ~crossed)
        /\ At(c)' \in {"store", "drop", "point"}
    BY <2>1, <1>t DEF Creating, Deleting, Accepting, Starts
  <2>3. At(c)' = "store" => /\ reply[r].state = "none"
                            /\ \A d \in Callers : At(d) \in OnReply => ReplyOf(d) # r
    BY <2>1 DEF Creating, Deleting, Accepting, Starts
  <2>4. At(c)' \in {"drop", "point"} => reply[r].state = "live"
    BY <2>1 DEF Creating, Deleting, Accepting, Starts
  <2>5. At(c)' = "drop" => WasAnswer(c)' = (post.answer = r)
    BY <2>1 DEF Creating, Deleting, Accepting, Starts
  <2>6. Stores'  BY <2>1, <2>2, <2>3, <2>4 DEF Stores, Alone, Keeps, OnReply
  <2>7. Targets'  BY <2>1, <2>2, <2>4, <2>5 DEF Targets, Alone, Keeps
  <2>8. QED BY <2>1, <2>2, <2>6, <2>7 DEF ReplyCountHolds, AnswerIsVisible
<1>2. CASE Storing(c)
  <2> DEFINE r == ReplyOf(c)
  <2>1. /\ Alone(c) /\ Keeps(c) /\ At(c) = "store" /\ At(c)' = "rate" /\ crossed' = crossed
        /\ reply' = [reply EXCEPT ![r] = [state |-> "live", by |-> Who(c)]]
        /\ post' = [post EXCEPT !.replies = @ + 1]
    BY <1>2 DEF Storing, Goes
  <2>2. r \in Replies /\ reply[r].state = "none"  BY <1>a, <2>1 DEF Stores, OnReply
  <2>3. reply'[r].state = "live" /\ \A q \in Replies : q # r => reply'[q] = reply[q]
    BY <1>t, <2>1, <2>2
  <2>4. post'.answer = post.answer /\ post'.replies = post.replies + 1  BY <1>t, <2>1
  <2>5. \A d \in Callers \ {c} : At(d) \in OnReply => ReplyOf(d) # r
    BY <2>1 DEF Stores
  <2>6. Stores'  BY <1>a, <2>1, <2>3, <2>5 DEF Stores, Alone, Keeps, OnReply
  <2>7. Targets'  BY <1>a, <2>1, <2>3, <2>4, <2>5 DEF Targets, Alone, Keeps, OnReply
  <2>8. AnswerIsVisible'  BY <1>t, <2>1, <2>3, <2>4 DEF AnswerIsVisible
  <2>9. Present' = Present \cup {r} /\ r \notin Present  BY <2>2, <2>3 DEF Present
  <2>10. Cardinality(Present') = Cardinality(Present) + 1
    <3>1. Present \in SUBSET Replies  BY DEF Present
    <3>2. QED BY <2>2, <2>9, <3>1, PresentIsFinite
  <2>11. ReplyCountHolds'
    <3>1. crossed' \/ post'.replies = Cardinality(Present')  BY <1>b, <2>1, <2>4, <2>10
    <3>2. QED BY <3>1 DEF ReplyCountHolds, Present
  <2>12. QED BY <2>6, <2>7, <2>8, <2>11
<1>3. CASE Dropping(c)
  <2> DEFINE r == ReplyOf(c)
  <2>1. /\ Alone(c) /\ At(c) = "drop" /\ At(c)' = "idle" /\ crossed' = crossed
        /\ reply' = [reply EXCEPT ![r].state = "deleted"]
        /\ post' = [post EXCEPT !.replies = @ - 1,
                                !.answer = IF WasAnswer(c) THEN NoOne ELSE @]
    BY <1>3 DEF Dropping, Goes, soft_delete_reply
  <2>2. r \in Replies  BY <1>a, <2>1 DEF OnReply
  <2>3. reply'[r].state = "deleted" /\ \A q \in Replies : q # r => reply'[q] = reply[q]
    BY <1>t, <2>1, <2>2
  <2>4. /\ post'.answer = (IF WasAnswer(c) THEN NoOne ELSE post.answer)
        /\ post'.replies = post.replies - 1
    BY <1>t, <2>1
  <2>5. ~crossed => reply[r].state = "live" /\ (post.answer = r => WasAnswer(c))
    BY <2>1 DEF Targets
  <2>6. ~crossed => \A d \in Callers \ {c} : At(d) \in OnReply => ReplyOf(d) # r
    BY <2>1, TwoRequests DEF OnReply
  <2>7. Stores'
    <3>1. \A d \in Callers \ {c} : At(d) = "store" => ReplyOf(d) # r
      BY <2>1 DEF Stores, OnReply
    <3>2. QED BY <1>a, <2>1, <2>3, <3>1 DEF Stores, Alone, Keeps, OnReply
  <2>8. Targets'
    <3>1. NoOne \notin Replies  BY NamesAssumption DEF NamesAssumption
    <3>2. QED BY <1>a, <2>1, <2>3, <2>4, <2>6, <3>1 DEF Targets, Alone, Keeps, OnReply
  <2>9. AnswerIsVisible'  BY <1>t, <2>1, <2>3, <2>4, <2>5 DEF AnswerIsVisible
  <2>10. ReplyCountHolds'
    <3>1. CASE crossed  BY <2>1, <3>1 DEF ReplyCountHolds
    <3>2. CASE ~crossed
      <4>1. Present' = Present \ {r} /\ r \in Present  BY <2>2, <2>3, <2>5, <3>2 DEF Present
      <4>2. Present \in SUBSET Replies  BY DEF Present
      <4>3. Cardinality(Present') = Cardinality(Present) - 1  BY <4>1, <4>2, PresentIsFinite
      <4>4. post'.replies = Cardinality(Present')  BY <1>b, <2>4, <3>2, <4>3
      <4>5. QED BY <4>4 DEF ReplyCountHolds, Present
    <3>3. QED BY <1>t, <3>1, <3>2
  <2>11. QED BY <2>7, <2>8, <2>9, <2>10
<1>4. CASE Pointing(c)
  <2>1. /\ Alone(c) /\ At(c) = "point" /\ At(c)' = "idle" /\ crossed' = crossed /\ reply' = reply
        /\ post' = [post EXCEPT !.answer = ReplyOf(c)]
    BY <1>4 DEF Pointing, Goes
  <2>2. post'.answer = ReplyOf(c) /\ post'.replies = post.replies  BY <1>t, <2>1
  <2>3. ~crossed => reply[ReplyOf(c)].state = "live"  BY <2>1 DEF Targets
  <2>4. ~crossed => \A d \in Callers \ {c} : At(d) \in OnReply => ReplyOf(d) # ReplyOf(c)
    BY <2>1, TwoRequests DEF OnReply
  <2>5. Stores'  BY <2>1 DEF Stores, Alone, Keeps, OnReply
  <2>6. Targets'  BY <2>1, <2>2, <2>4 DEF Targets, Alone, Keeps, OnReply
  <2>7. QED BY <2>1, <2>2, <2>3, <2>5, <2>6 DEF ReplyCountHolds, AnswerIsVisible
<1>5. CASE /\ \E p, at, s : Starts(c, p, at, s) /\ at \notin OnReply
           /\ UNCHANGED <<reply, post>>
  <2>1. /\ Alone(c) /\ At(c)' \notin OnReply /\ (~crossed' => ~crossed) /\ UNCHANGED <<reply, post>>
    BY <1>5, <1>t DEF Starts
  <2>2. Stores'  BY <2>1 DEF Stores, Alone, Keeps, OnReply
  <2>3. Targets'  BY <2>1 DEF Targets, Alone, Keeps, OnReply
  <2>4. QED BY <2>1, <2>2, <2>3 DEF ReplyCountHolds, AnswerIsVisible
<1>6. CASE /\ \E from, to : Goes(c, from, to) /\ (to \in OnReply => to = from)
           /\ reply' = reply /\ post'.replies = post.replies /\ post'.answer = post.answer
  <2>1. /\ Alone(c) /\ crossed' = crossed
        /\ At(c)' \in OnReply => At(c)' = At(c) /\ Keeps(c)
    BY <1>6 DEF Goes, OnReply
  <2>2. Stores'  BY <1>6, <2>1 DEF Stores, Alone, Keeps, OnReply
  <2>3. Targets'  BY <1>6, <2>1 DEF Targets, Alone, Keeps, OnReply
  <2>4. QED BY <1>6, <2>1, <2>2, <2>3 DEF ReplyCountHolds, AnswerIsVisible
<1>7. QED BY <1>1, <1>2, <1>3, <1>4, <1>5, <1>6 DEF ReplyStep

\* What a step can be for reactions.
ReactionStep(c) ==
  \/ /\ \E p \in People, to \in Kinds \cup {NoOne} : Reacting(c, p, to)
     /\ UNCHANGED <<kind, post>>
  \/ Toggling(c)
  \/ /\ kind' = kind /\ post'.reactions = post.reactions /\ Alone(c)
     /\ (~crossed' => ~crossed) /\ At(c)' # "react"

LEMMA StepsOfReactions ==
  ASSUME Types, NEW c \in Callers, Simple(c)
  PROVE  ReactionStep(c)
<1>t. crossed \in BOOLEAN  BY DEF Types, TypeOK
<1>1. CASE Reading(c)
  <2>1. PICK p \in People :
          \/ \E r \in Replies : Creating(c, p, r) \/ Deleting(c, p, r) \/ Accepting(c, p, r)
          \/ \E to \in Kinds \cup {NoOne} : Reacting(c, p, to)
          \/ \E n \in Reports : Reporting(c, p, n)
          \/ DeletingPost(c, p)
    BY <1>1 DEF Reading
  <2>2. UNCHANGED <<kind, post>>  BY <1>1 DEF Reading
  <2>3. CASE \E to \in Kinds \cup {NoOne} : Reacting(c, p, to)  BY <2>2, <2>3 DEF ReactionStep
  <2>4. CASE \/ \E r \in Replies : Creating(c, p, r) \/ Deleting(c, p, r) \/ Accepting(c, p, r)
             \/ \E n \in Reports : Reporting(c, p, n)
             \/ DeletingPost(c, p)
    <3>1. At(c)' # "react" /\ Alone(c) /\ (~crossed' => ~crossed)
      BY <1>t, <2>4 DEF Starts, Creating, Deleting, Accepting, Reporting, DeletingPost
    <3>2. QED BY <2>2, <3>1 DEF ReactionStep
  <2>5. QED BY <2>1, <2>3, <2>4
<1>2. CASE Moderating(c)
  <2>1. At(c)' # "react" /\ Alone(c) /\ (~crossed' => ~crossed)
    BY <1>t, <1>2 DEF Moderating, Starts
  <2>2. QED BY <1>2, <2>1 DEF Moderating, ReactionStep
<1>3. CASE Toggling(c)  BY <1>3 DEF ReactionStep
<1>4. CASE \/ Counting(c) \/ Filing(c) \/ Resolving(c) \/ Allowing(c) \/ Dying(c)
           \/ Storing(c) \/ Dropping(c) \/ Pointing(c) \/ Removing(c)
  <2>1. At(c)' # "react" /\ Alone(c) /\ (~crossed' => ~crossed)
    BY <1>4 DEF Counting, Filing, Resolving, Allowing, Dying, Storing, Dropping, Pointing, Removing, Goes
  <2>2. kind' = kind /\ post'.reactions = post.reactions
    BY <1>4 DEF Types, TypeOK, Counting, Filing, Resolving, Allowing, Dying, Storing, Dropping,
       soft_delete_reply, Pointing, Removing
  <2>3. QED BY <2>1, <2>2 DEF ReactionStep
<1>5. QED BY <1>1, <1>2, <1>3, <1>4 DEF Simple

With(k) == {p \in People : kind[p] = k}

LEMMA WithIsFinite ==
  ASSUME NEW S \in SUBSET People
  PROVE  /\ IsFiniteSet(S) /\ Cardinality(S) \in Nat
         /\ \A p \in People \ S : Cardinality(S \cup {p}) = Cardinality(S) + 1
         /\ \A p \in S : Cardinality(S \ {p}) = Cardinality(S) - 1
<1>1. IsFiniteSet(S)  BY PeopleAssumption, FS_Subset DEF PeopleAssumption
<1>2. QED BY <1>1, FS_CardinalityType, FS_AddElement, FS_RemoveElement

LEMMA StepReactions ==
  ASSUME Types, Apart, Reacts, ReactionCountsHold, NEW c \in Callers, ReactionStep(c)
  PROVE  Reacts' /\ ReactionCountsHold'
<1>t. /\ kind \in [People -> Kinds \cup {NoOne}] /\ crossed \in BOOLEAN
      /\ post.reactions \in [Kinds -> Int]
      /\ post \in [deleted : BOOLEAN, replies : Int, reactions : [Kinds -> Int],
                   answer : Replies \cup {NoOne}]
  BY DEF Types, TypeOK
<1>1. CASE /\ \E p \in People, to \in Kinds \cup {NoOne} : Reacting(c, p, to)
           /\ UNCHANGED <<kind, post>>
  <2>1. PICK p \in People : /\ At(c)' = "react" /\ Who(c)' = p /\ From(c)' = kind[p] /\ Alone(c)
                            /\ (~crossed' => ~crossed) /\ UNCHANGED <<kind, post>>
    BY <1>1, <1>t DEF Reacting, Starts
  <2>2. Reacts'  BY <2>1 DEF Reacts, Alone, Keeps
  <2>3. QED BY <2>1, <2>2 DEF ReactionCountsHold
<1>2. CASE Toggling(c)
  <2> DEFINE p == Who(c)
             from == From(c)
             to == To(c)
  <2>1. /\ Alone(c) /\ At(c) = "react" /\ At(c)' = "idle" /\ crossed' = crossed
        /\ kind' = [kind EXCEPT ![p] = to]
        /\ post' = [post EXCEPT !.reactions = Counts(@, from, to)]
    BY <1>2 DEF Toggling, Goes
  <2>2. p \in People /\ from # to  BY <2>1 DEF Types, Aimed
  <2>3. kind'[p] = to /\ \A q \in People : q # p => kind'[q] = kind[q]  BY <1>t, <2>1, <2>2
  <2>4. post'.reactions = Counts(post.reactions, from, to)  BY <1>t, <2>1
  <2>5. CASE crossed  BY <2>1, <2>5 DEF Reacts, ReactionCountsHold
  <2>6. CASE ~crossed
    <3>1. from = kind[p]  BY <2>1, <2>6 DEF Reacts
    <3>2. \A d \in Callers \ {c} : At(d) = "react" => Who(d) # p /\ Who(d) \in People
      BY <2>1, <2>6, TwoRequests DEF Types, Aimed
    <3>3. Reacts'  BY <2>1, <2>3, <2>6, <3>2 DEF Reacts, Alone, Keeps
    <3>4. ASSUME NEW k \in Kinds
          PROVE  post'.reactions[k] = Cardinality(With(k)')
      <4>1. post'.reactions[k] = post.reactions[k] + (IF k = to THEN 1 ELSE 0)
                                                   - (IF k = from THEN 1 ELSE 0)
        BY <2>4 DEF Counts
      <4>2. post.reactions[k] = Cardinality(With(k))  BY <2>6 DEF ReactionCountsHold, With
      <4>3. With(k) \in SUBSET People /\ post.reactions[k] \in Int  BY <1>t DEF With
      <4>4. CASE k = to
        <5>1. With(k)' = With(k) \cup {p} /\ p \notin With(k)
          BY <2>2, <2>3, <3>1, <4>4 DEF With
        <5>2. Cardinality(With(k)') = Cardinality(With(k)) + 1  BY <2>2, <4>3, <5>1, WithIsFinite
        <5>3. QED BY <2>2, <4>1, <4>2, <4>3, <4>4, <5>2
      <4>5. CASE k = from
        <5>1. With(k)' = With(k) \ {p} /\ p \in With(k)  BY <2>2, <2>3, <3>1, <4>5 DEF With
        <5>2. Cardinality(With(k)') = Cardinality(With(k)) - 1  BY <4>3, <5>1, WithIsFinite
        <5>3. QED BY <2>2, <4>1, <4>2, <4>3, <4>5, <5>2
      <4>6. CASE k # to /\ k # from
        <5>1. With(k)' = With(k)  BY <2>3, <3>1, <4>6 DEF With
        <5>2. QED BY <4>1, <4>2, <4>3, <4>6, <5>1
      <4>7. QED BY <4>4, <4>5, <4>6
    <3>5. ReactionCountsHold'  BY <3>4 DEF ReactionCountsHold, With
    <3>6. QED BY <3>3, <3>5
  <2>7. QED BY <1>t, <2>5, <2>6
<1>3. CASE /\ kind' = kind /\ post'.reactions = post.reactions /\ Alone(c)
           /\ (~crossed' => ~crossed) /\ At(c)' # "react"
  BY <1>3 DEF Reacts, ReactionCountsHold, Alone, Keeps
<1>4. QED BY <1>1, <1>2, <1>3 DEF ReactionStep

-----------------------------------------------------------------------------
(* The hourly limit. *)

\* Requests that have passed the check and have not been counted.
Uncounted(p) == {c \in Callers : At(c) \in {"store", "rate"} /\ Who(c) = p}

Bound == HourlyLimit + Cardinality(Callers) - 1
Rates ==
  /\ \A p \in People : rate[hour][p] + Cardinality(Uncounted(p)) <= Bound
  /\ \A h \in 1..Hours, p \in People : /\ h > hour => rate[h][p] = 0
                                       /\ rate[h][p] <= Bound

LEMMA UncountedIsFinite ==
  ASSUME NEW S \in SUBSET Callers
  PROVE  /\ IsFiniteSet(S) /\ Cardinality(S) \in Nat /\ Cardinality(Callers) \in Nat \ {0}
         /\ Cardinality(S) <= Cardinality(Callers)
         /\ \A c \in S : Cardinality(S \ {c}) = Cardinality(S) - 1
<1>1. IsFiniteSet(Callers) /\ Callers # {}  BY CallersAssumption DEF CallersAssumption
<1>2. IsFiniteSet(S) /\ Cardinality(S) <= Cardinality(Callers)  BY <1>1, FS_Subset
<1>3. Cardinality(Callers) \in Nat \ {0}  BY <1>1, FS_CardinalityType, FS_EmptySet
<1>4. QED BY <1>2, <1>3, FS_CardinalityType, FS_RemoveElement

\* What a step can be for the limit.
RateStep(c) ==
  \/ /\ \E p \in People : rate[hour][p] < HourlyLimit /\ At(c)' = "store" /\ Who(c)' = p
     /\ At(c) = "idle" /\ Alone(c) /\ UNCHANGED <<rate, hour>>
  \/ Counting(c)
  \/ /\ At(c)' \in {"store", "rate"} => At(c) \in {"store", "rate"} /\ Keeps(c)
     /\ Alone(c) /\ UNCHANGED <<rate, hour>>

LEMMA StepsOfRates ==
  ASSUME Types, NEW c \in Callers, Simple(c)
  PROVE  RateStep(c)
<1>1. CASE Reading(c)
  <2>1. PICK p \in People :
          \/ \E r \in Replies : Creating(c, p, r) \/ Deleting(c, p, r) \/ Accepting(c, p, r)
          \/ \E to \in Kinds \cup {NoOne} : Reacting(c, p, to)
          \/ \E n \in Reports : Reporting(c, p, n)
          \/ DeletingPost(c, p)
    BY <1>1 DEF Reading
  <2>2. UNCHANGED <<rate, hour>>  BY <1>1 DEF Reading
  <2>3. CASE \E r \in Replies : Creating(c, p, r)
    <3>1. rate[hour][p] < HourlyLimit /\ At(c)' = "store" /\ Who(c)' = p /\ At(c) = "idle" /\ Alone(c)
      BY <2>3 DEF Creating, Starts
    <3>2. QED BY <2>2, <3>1 DEF RateStep
  <2>4. CASE \/ \E r \in Replies : Deleting(c, p, r) \/ Accepting(c, p, r)
             \/ \E to \in Kinds \cup {NoOne} : Reacting(c, p, to)
             \/ \E n \in Reports : Reporting(c, p, n)
             \/ DeletingPost(c, p)
    <3>1. At(c)' \notin {"store", "rate"} /\ Alone(c)
      BY <2>4 DEF Starts, Deleting, Accepting, Reacting, Reporting, DeletingPost
    <3>2. QED BY <2>2, <3>1 DEF RateStep
  <2>5. QED BY <2>1, <2>3, <2>4
<1>2. CASE Moderating(c)
  <2>1. At(c)' \notin {"store", "rate"} /\ Alone(c)  BY <1>2 DEF Moderating, Starts
  <2>2. QED BY <1>2, <2>1 DEF Moderating, RateStep
<1>3. CASE Counting(c)  BY <1>3 DEF RateStep
<1>4. CASE Storing(c)
  <2>1. At(c) = "store" /\ Keeps(c) /\ Alone(c) /\ UNCHANGED <<rate, hour>>
    BY <1>4 DEF Storing, Goes
  <2>2. QED BY <2>1 DEF RateStep
<1>5. CASE \/ Filing(c) \/ Resolving(c) \/ Allowing(c) \/ Dying(c)
           \/ Dropping(c) \/ Pointing(c) \/ Removing(c) \/ Toggling(c)
  <2>1. At(c)' \notin {"store", "rate"} /\ Alone(c) /\ UNCHANGED <<rate, hour>>
    BY <1>5 DEF Filing, Resolving, Allowing, Dying, Dropping, Pointing, Removing, Toggling, Goes
  <2>2. QED BY <2>1 DEF RateStep
<1>6. QED BY <1>1, <1>2, <1>3, <1>4, <1>5 DEF Simple

LEMMA StepRates ==
  ASSUME Types, Rates, NEW c \in Callers, RateStep(c)
  PROVE  Rates'
<1>n. HourlyLimit \in Nat \ {0} /\ Cardinality(Callers) \in Nat \ {0}
  BY NumbersAssumption, UncountedIsFinite DEF NumbersAssumption
<1>b. Bound \in Nat  BY <1>n DEF Bound
<1>t. /\ hour \in 1..Hours /\ rate \in [1..Hours -> [People -> Nat]]
      /\ \A h \in 1..Hours, p \in People : rate[h][p] \in Nat
  BY DEF Types, TypeOK
<1>u. ASSUME NEW p \in People
      PROVE  /\ Uncounted(p) \in SUBSET Callers /\ Uncounted(p)' \in SUBSET Callers
             /\ Cardinality(Uncounted(p)) \in Nat /\ Cardinality(Uncounted(p)') \in Nat
             /\ Cardinality(Uncounted(p)') <= Cardinality(Callers)
  <2>1. Uncounted(p) \in SUBSET Callers /\ Uncounted(p)' \in SUBSET Callers  BY DEF Uncounted
  <2>2. QED BY <2>1, UncountedIsFinite
<1>s. ASSUME NEW p \in People, Uncounted(p)' \subseteq Uncounted(p)
      PROVE  Cardinality(Uncounted(p)') <= Cardinality(Uncounted(p))
  BY <1>s, <1>u, UncountedIsFinite, FS_Subset
<1>1. CASE /\ \E p \in People : rate[hour][p] < HourlyLimit /\ At(c)' = "store" /\ Who(c)' = p
           /\ At(c) = "idle" /\ Alone(c) /\ UNCHANGED <<rate, hour>>
  <2>1. PICK p \in People : rate[hour][p] < HourlyLimit /\ At(c)' = "store" /\ Who(c)' = p
    BY <1>1
  <2>2. ASSUME NEW q \in People PROVE rate'[hour'][q] + Cardinality(Uncounted(q)') <= Bound
    <3>1. CASE q = p  BY <1>1, <1>n, <1>t, <1>u, <2>1, <3>1 DEF Bound
    <3>2. CASE q # p
      <4>1. Uncounted(q)' \subseteq Uncounted(q)
        BY <1>1, <2>1, <3>2 DEF Uncounted, Alone, Keeps
      <4>2. Cardinality(Uncounted(q)') <= Cardinality(Uncounted(q))  BY <1>s, <4>1
      <4>3. rate[hour][q] + Cardinality(Uncounted(q)) <= Bound  BY DEF Rates
      <4>4. QED BY <1>1, <1>b, <1>t, <1>u, <4>2, <4>3
    <3>3. QED BY <3>1, <3>2
  <2>3. QED BY <1>1, <2>2 DEF Rates, Bound
<1>2. CASE Counting(c)
  <2> DEFINE p == Who(c)
  <2>1. /\ At(c) = "rate" /\ At(c)' = "idle" /\ Alone(c) /\ hour' = hour
        /\ rate' = [rate EXCEPT ![hour][p] = @ + 1]
    BY <1>2 DEF Counting, Goes
  <2>2. p \in People  BY <2>1 DEF Types, Aimed
  <2>3. /\ rate'[hour][p] = rate[hour][p] + 1
        /\ \A q \in People : q # p => rate'[hour][q] = rate[hour][q]
        /\ \A h \in 1..Hours : h # hour => rate'[h] = rate[h]
    BY <1>t, <2>1, <2>2
  <2>4. ASSUME NEW q \in People PROVE rate'[hour][q] + Cardinality(Uncounted(q)') <= Bound
    <3>1. rate[hour][q] + Cardinality(Uncounted(q)) <= Bound  BY DEF Rates
    <3>2. CASE q = p
      <4>1. Uncounted(q)' = Uncounted(q) \ {c} /\ c \in Uncounted(q)
        BY <2>1, <3>2 DEF Uncounted, Alone, Keeps
      <4>2. Cardinality(Uncounted(q)') = Cardinality(Uncounted(q)) - 1
        BY <1>u, <4>1, UncountedIsFinite
      <4>3. QED BY <1>b, <1>t, <1>u, <2>3, <3>1, <3>2, <4>2
    <3>3. CASE q # p
      <4>1. Uncounted(q)' \subseteq Uncounted(q)
        BY <2>1 DEF Uncounted, Alone, Keeps
      <4>2. Cardinality(Uncounted(q)') <= Cardinality(Uncounted(q))  BY <1>s, <4>1
      <4>3. QED BY <1>b, <1>t, <1>u, <2>3, <3>1, <3>3, <4>2
    <3>4. QED BY <3>2, <3>3
  <2>5. ASSUME NEW h \in 1..Hours, NEW q \in People
        PROVE  /\ h > hour' => rate'[h][q] = 0
               /\ rate'[h][q] <= Bound
    <3>1. CASE h = hour
      <4>1. /\ rate'[h][q] + Cardinality(Uncounted(q)') <= Bound
            /\ rate'[h][q] = rate[h][q] \/ rate'[h][q] = rate[h][q] + 1
        BY <2>3, <2>4, <3>1
      <4>2. QED BY <1>b, <1>t, <1>u, <2>1, <3>1, <4>1
    <3>2. CASE h # hour  BY <2>1, <2>3, <3>2 DEF Rates
    <3>3. QED BY <3>1, <3>2
  <2>6. QED BY <2>1, <2>4, <2>5 DEF Rates, Bound
<1>3. CASE /\ At(c)' \in {"store", "rate"} => At(c) \in {"store", "rate"} /\ Keeps(c)
           /\ Alone(c) /\ UNCHANGED <<rate, hour>>
  <2>1. ASSUME NEW q \in People PROVE rate'[hour'][q] + Cardinality(Uncounted(q)') <= Bound
    <3>1. Uncounted(q)' \subseteq Uncounted(q)  BY <1>3 DEF Uncounted, Alone, Keeps
    <3>2. Cardinality(Uncounted(q)') <= Cardinality(Uncounted(q))  BY <1>s, <3>1
    <3>3. rate[hour][q] + Cardinality(Uncounted(q)) <= Bound  BY DEF Rates
    <3>4. QED BY <1>3, <1>b, <1>t, <1>u, <3>2, <3>3
  <2>2. QED BY <1>3, <2>1 DEF Rates, Bound
<1>4. QED BY <1>1, <1>2, <1>3 DEF RateStep

LEMMA HourRates ==
  ASSUME Types, Rates, NextHour
  PROVE  Rates'
<1>1. hour' = hour + 1 /\ hour < Hours /\ UNCHANGED <<rate, call>>  BY DEF NextHour
<1>2. hour \in 1..Hours /\ HourlyLimit \in Nat \ {0} /\ Hours \in Nat \ {0}
      /\ Cardinality(Callers) \in Nat \ {0}
  BY NumbersAssumption, UncountedIsFinite DEF Types, TypeOK, NumbersAssumption
<1>3. ASSUME NEW p \in People PROVE rate'[hour'][p] + Cardinality(Uncounted(p)') <= Bound
  <2>1. Uncounted(p)' \in SUBSET Callers  BY DEF Uncounted
  <2>2. Cardinality(Uncounted(p)') <= Cardinality(Callers) /\ Cardinality(Uncounted(p)') \in Nat
    BY <2>1, UncountedIsFinite
  <2>3. rate[hour + 1][p] = 0  BY <1>1, <1>2 DEF Rates
  <2>4. QED BY <1>1, <1>2, <2>2, <2>3 DEF Bound
<1>4. \A h \in 1..Hours, p \in People : /\ h > hour' => rate'[h][p] = 0
                                        /\ rate'[h][p] <= Bound
  BY <1>1, <1>2 DEF Rates
<1>5. QED BY <1>3, <1>4 DEF Rates, Bound

-----------------------------------------------------------------------------
(* Reports. *)

Status(n) == report[n].status
By(n) == report[n].by

\* A report is made once and has a reporter; it is moderated after it was made.
Filed ==
  /\ \A n \in Reports : Status(n) = "none" <=> By(n) = NoOne
  /\ \A c \in Callers : At(c) = "report" =>
       /\ Status(ReportOf(c)) = "none"
       /\ \A d \in Callers \ {c} : At(d) = "report" => ReportOf(d) # ReportOf(c)
  /\ \A c \in Callers : At(c) \in OnReport => Status(ReportOf(c)) # "none"

\* An open report is its reporter's only one, and the item that says so is there.
OpenOnce ==
  \A n \in Reports : Status(n) = "Open" =>
    By(n) \in dedupe /\ \A m \in Reports : Status(m) = "Open" /\ By(m) = By(n) => m = n

\* One moderator at a time, on an open report until he dismisses it.
Moderators ==
  \A c \in Callers : At(c) \in OnReport =>
    /\ Status(ReportOf(c)) = (IF At(c) = "allow" THEN "Dismissed" ELSE "Open")
    /\ \A d \in Callers : At(d) \in OnReport /\ ReportOf(d) = ReportOf(c) => d = c

\* Whoever is about to report, or about to be allowed to, has no open report.
Clear(p) == p \in dedupe /\ \A n \in Reports : Status(n) = "Open" => By(n) # p
Reporters ==
  \A c \in Callers : At(c) = "report" =>
    /\ Clear(Who(c))
    /\ \A d \in Callers : At(d) = "report" /\ Who(d) = Who(c) => d = c
    /\ \A d \in Callers : At(d) = "allow" => By(ReportOf(d)) # Who(c)
Allowed ==
  \A c \in Callers : At(c) = "allow" =>
    /\ Clear(By(ReportOf(c)))
    /\ \A d \in Callers : At(d) = "allow" /\ By(ReportOf(d)) = By(ReportOf(c)) => d = c

Once == OpenOnce /\ Moderators /\ Reporters /\ Allowed

\* The content is removed first.
Removed ==
  /\ \A c \in Callers : At(c) = "Actioned" => post.deleted
  /\ \A n \in Reports : Status(n) = "Actioned" => post.deleted

\* What a step can be for reports.
ReportStep(c) ==
  \/ (\E p \in People, n \in Reports : Reporting(c, p, n)) /\ UNCHANGED <<report, again>>
  \/ Moderating(c)
  \/ Filing(c) \/ Resolving(c) \/ Allowing(c)
  \/ Goes(c, "remove", "Actioned") /\ UNCHANGED <<report, dedupe, again>>
  \/ /\ At(c)' \notin OnReport \cup {"report"} /\ Alone(c)
     /\ UNCHANGED <<report, dedupe, again>>

LEMMA StepsOfReports ==
  ASSUME NEW c \in Callers, Simple(c)
  PROVE  ReportStep(c)
<1>1. CASE Reading(c)
  <2>1. PICK p \in People :
          \/ \E r \in Replies : Creating(c, p, r) \/ Deleting(c, p, r) \/ Accepting(c, p, r)
          \/ \E to \in Kinds \cup {NoOne} : Reacting(c, p, to)
          \/ \E n \in Reports : Reporting(c, p, n)
          \/ DeletingPost(c, p)
    BY <1>1 DEF Reading
  <2>2. UNCHANGED <<report, again>>  BY <1>1 DEF Reading
  <2>3. CASE \E n \in Reports : Reporting(c, p, n)  BY <2>2, <2>3 DEF ReportStep
  <2>4. CASE \/ \E r \in Replies : Creating(c, p, r) \/ Deleting(c, p, r) \/ Accepting(c, p, r)
             \/ \E to \in Kinds \cup {NoOne} : Reacting(c, p, to)
             \/ DeletingPost(c, p)
    <3>1. At(c)' \notin OnReport \cup {"report"} /\ Alone(c) /\ UNCHANGED dedupe
      BY <2>4 DEF Starts, Creating, Deleting, Accepting, Reacting, DeletingPost, OnReport
    <3>2. QED BY <2>2, <3>1 DEF ReportStep
  <2>5. QED BY <2>1, <2>3, <2>4
<1>2. CASE Moderating(c) \/ Filing(c) \/ Resolving(c) \/ Allowing(c)  BY <1>2 DEF ReportStep
<1>3. CASE Removing(c)
  <2>1. CASE Goes(c, "remove", "Actioned")  BY <1>3, <2>1 DEF Removing, ReportStep
  <2>2. CASE Goes(c, "delete", "idle")
    <3>1. At(c)' \notin OnReport \cup {"report"} /\ Alone(c)  BY <2>2 DEF Goes, OnReport
    <3>2. QED BY <1>3, <3>1 DEF Removing, ReportStep
  <2>3. QED BY <1>3, <2>1, <2>2 DEF Removing
<1>4. CASE Storing(c) \/ Counting(c) \/ Dropping(c) \/ Pointing(c) \/ Toggling(c) \/ Dying(c)
  <2>1. At(c)' \notin OnReport \cup {"report"} /\ Alone(c) /\ UNCHANGED <<report, dedupe, again>>
    BY <1>4 DEF Storing, Counting, Dropping, Pointing, Toggling, Dying, Goes, OnReport
  <2>2. QED BY <2>1 DEF ReportStep
<1>5. QED BY <1>1, <1>2, <1>3, <1>4 DEF Simple

LEMMA StepFiled ==
  ASSUME Types, Filed, NEW c \in Callers, ReportStep(c)
  PROVE  Filed'
<1>t. /\ \A d \in Callers : Aimed(d)
      /\ report \in [Reports -> [status : {"none", "Open", "Dismissed", "Actioned"},
                                 by : People \cup {NoOne}]]
      /\ NoOne \notin People
  BY NamesAssumption DEF Types, TypeOK, NamesAssumption
<1>o. \A d \in Callers : At(d) \in OnReport \cup {"report"} => ReportOf(d) \in Reports
  BY <1>t DEF Aimed
<1>1. CASE (\E p \in People, n \in Reports : Reporting(c, p, n)) /\ UNCHANGED <<report, again>>
  <2>1. PICK n \in Reports : /\ At(c)' = "report" /\ ReportOf(c)' = n /\ Alone(c)
                             /\ report[n] = NoReport
                             /\ \A d \in Callers : At(d) = "report" => ReportOf(d) # n
    BY <1>1 DEF Reporting, Starts
  <2>2. Status(n) = "none"  BY <2>1 DEF Status, NoReport
  <2>3. QED BY <1>1, <2>1, <2>2 DEF Filed, Alone, Keeps, Status, By, OnReport
<1>2. CASE Moderating(c)
  <2>1. PICK n \in Reports : /\ At(c)' \in {"Dismissed", "remove"} /\ ReportOf(c)' = n /\ Alone(c)
                             /\ report[n] # NoReport
    BY <1>2 DEF Moderating, Starts
  <2>2. Status(n) # "none"
    <3>1. SUFFICES ASSUME Status(n) = "none" PROVE report[n] = NoReport  BY <2>1
    <3>2. By(n) = NoOne  BY <3>1 DEF Filed
    <3>3. QED BY <1>t, <3>1, <3>2 DEF Status, By, NoReport
  <2>3. QED BY <1>2, <2>1, <2>2 DEF Moderating, Filed, Alone, Keeps, Status, By, OnReport
<1>3. CASE Filing(c)
  <2> DEFINE n == ReportOf(c)
  <2>1. /\ At(c) = "report" /\ At(c)' = "idle" /\ Alone(c)
        /\ report' = [report EXCEPT ![n] = [status |-> "Open", by |-> Who(c)]]
    BY <1>3 DEF Filing, Goes
  <2>2. n \in Reports /\ Who(c) \in People  BY <1>t, <2>1 DEF Aimed
  <2>3. /\ report'[n].status = "Open" /\ report'[n].by = Who(c)
        /\ \A m \in Reports : m # n => report'[m] = report[m]
    BY <1>t, <2>1, <2>2
  <2>4. \A d \in Callers \ {c} : At(d) = "report" => ReportOf(d) # n  BY <2>1 DEF Filed
  <2>5. QED BY <1>t, <1>o, <2>1, <2>2, <2>3, <2>4 DEF Filed, Alone, Keeps, Status, By, OnReport
<1>4. CASE Resolving(c)
  <2> DEFINE n == ReportOf(c)
  <2>1. /\ At(c) \in {"Dismissed", "Actioned"} /\ At(c)' \in {"allow", "idle"} /\ Alone(c)
        /\ At(c)' = "allow" => Keeps(c)
        /\ report' = [report EXCEPT ![n].status = At(c)]
    BY <1>4 DEF Resolving, Goes
  <2>2. n \in Reports  BY <1>t, <2>1 DEF Aimed, OnReport
  <2>3. /\ report'[n].status = At(c) /\ report'[n].by = report[n].by
        /\ \A m \in Reports : m # n => report'[m] = report[m]
    BY <1>t, <2>1, <2>2
  <2>4. Status(n) # "none"  BY <2>1 DEF Filed, OnReport
  <2>5. QED BY <1>o, <2>1, <2>2, <2>3, <2>4 DEF Filed, Alone, Keeps, Status, By, OnReport
<1>5. CASE \/ Allowing(c)
           \/ Goes(c, "remove", "Actioned") /\ UNCHANGED <<report, dedupe, again>>
           \/ /\ At(c)' \notin OnReport \cup {"report"} /\ Alone(c)
              /\ UNCHANGED <<report, dedupe, again>>
  <2>1. /\ Alone(c) /\ report' = report
        /\ At(c)' # "report" /\ (At(c)' \in OnReport => At(c) \in OnReport /\ Keeps(c))
    BY <1>5 DEF Allowing, Goes, OnReport
  <2>2. QED BY <2>1 DEF Filed, Alone, Keeps, Status, By, OnReport
<1>6. QED BY <1>1, <1>2, <1>3, <1>4, <1>5 DEF ReportStep

LEMMA StepOnce ==
  ASSUME Types, Filed, again \/ Once, NEW c \in Callers, ReportStep(c)
  PROVE  again' \/ Once'
<1>t. /\ \A d \in Callers : Aimed(d)
      /\ report \in [Reports -> [status : {"none", "Open", "Dismissed", "Actioned"},
                                 by : People \cup {NoOne}]]
      /\ again \in BOOLEAN
  BY DEF Types, TypeOK
<1>o. \A d \in Callers : At(d) \in OnReport \cup {"report"} => ReportOf(d) \in Reports
  BY <1>t DEF Aimed
<1>a. again => again'
  BY <1>t DEF ReportStep, Reporting, Moderating, Filing, Resolving, Allowing
<1> SUFFICES ASSUME ~again, ~again' PROVE Once'  BY <1>a
<1>i. OpenOnce /\ Moderators /\ Reporters /\ Allowed  BY DEF Once
<1>1. CASE (\E p \in People, n \in Reports : Reporting(c, p, n)) /\ UNCHANGED <<report, again>>
  <2>1. PICK p \in People, n \in Reports :
          /\ At(c) = "idle" /\ At(c)' = "report" /\ Who(c)' = p /\ ReportOf(c)' = n /\ Alone(c)
          /\ p \notin dedupe /\ dedupe' = dedupe \cup {p}
    BY <1>1 DEF Reporting, Starts
  <2>2. \A m \in Reports : Status(m) = "Open" => By(m) # p  BY <1>i, <2>1 DEF OpenOnce
  <2>3. \A d \in Callers : At(d) = "report" => Who(d) # p  BY <1>i, <2>1 DEF Reporters, Clear
  <2>4. \A d \in Callers : At(d) = "allow" => By(ReportOf(d)) # p  BY <1>i, <2>1 DEF Allowed, Clear
  <2>5. OpenOnce'  BY <1>1, <1>i, <2>1 DEF OpenOnce, Status, By
  <2>6. Moderators'  BY <1>1, <1>i, <2>1 DEF Moderators, Alone, Keeps, OnReport, Status
  <2>7. \A q : Clear(q) => Clear(q)'  BY <1>1, <2>1 DEF Clear, Status, By
  <2>8. Clear(p)'  BY <1>1, <2>1, <2>2 DEF Clear, Status, By
  <2>9. Reporters'
    <3>1. ASSUME NEW d \in Callers, At(d)' = "report"
          PROVE  /\ Clear(Who(d))'
                 /\ \A e \in Callers : At(e)' = "report" /\ Who(e)' = Who(d)' => e = d
                 /\ \A e \in Callers : At(e)' = "allow" => By(ReportOf(e))' # Who(d)'
      <4>1. CASE d = c
        BY <1>1, <2>1, <2>3, <2>4, <2>8, <4>1 DEF Clear, Alone, Keeps, By
      <4>2. CASE d # c
        BY <1>1, <1>i, <2>1, <2>3, <2>7, <3>1, <4>2 DEF Reporters, Clear, Alone, Keeps, By
      <4>3. QED BY <4>1, <4>2
    <3>2. QED BY <3>1 DEF Reporters
  <2>10. Allowed'  BY <1>1, <1>i, <2>1 DEF Allowed, Clear, Alone, Keeps, Status, By
  <2>11. QED BY <2>5, <2>6, <2>9, <2>10 DEF Once
<1>2. CASE Moderating(c)
  <2>1. PICK n \in Reports :
          /\ At(c) = "idle" /\ At(c)' \in {"Dismissed", "remove"} /\ ReportOf(c)' = n /\ Alone(c)
          /\ UNCHANGED <<report, dedupe>>
          /\ Status(n) = "Open"
          /\ ~ \E d \in Callers : At(d) \in OnReport /\ ReportOf(d) = n
    BY <1>2 DEF Moderating, Starts, Status
  <2>2. OpenOnce'  BY <1>i, <2>1 DEF OpenOnce, Status, By
  <2>3. Moderators'  BY <1>i, <2>1 DEF Moderators, Alone, Keeps, OnReport, Status
  <2>4. Reporters'  BY <1>i, <2>1 DEF Reporters, Clear, Alone, Keeps, Status, By
  <2>5. Allowed'  BY <1>i, <2>1 DEF Allowed, Clear, Alone, Keeps, Status, By
  <2>6. QED BY <2>2, <2>3, <2>4, <2>5 DEF Once
<1>3. CASE Filing(c)
  <2> DEFINE n == ReportOf(c)
             p == Who(c)
  <2>1. /\ At(c) = "report" /\ At(c)' = "idle" /\ Alone(c) /\ dedupe' = dedupe
        /\ report' = [report EXCEPT ![n] = [status |-> "Open", by |-> p]]
    BY <1>3 DEF Filing, Goes
  <2>2. n \in Reports /\ Status(n) = "none"  BY <1>t, <2>1 DEF Aimed, Filed
  <2>3. /\ report'[n].status = "Open" /\ report'[n].by = p
        /\ \A m \in Reports : m # n => report'[m] = report[m]
    BY <1>t, <2>1, <2>2
  <2>4. Clear(p)  BY <1>i, <2>1 DEF Reporters
  <2>5. \A d \in Callers : At(d) \in OnReport => ReportOf(d) # n  BY <2>2 DEF Filed
  <2>6. OpenOnce'  BY <1>i, <2>1, <2>2, <2>3, <2>4 DEF OpenOnce, Clear, Status, By
  <2>7. Moderators'  BY <1>i, <1>o, <2>1, <2>3, <2>5 DEF Moderators, Alone, Keeps, OnReport, Status
  <2>8. \A q : q # p /\ Clear(q) => q \in dedupe' /\ \A m \in Reports :
                report'[m].status = "Open" => report'[m].by # q
    BY <2>1, <2>3 DEF Clear, Status, By
  <2>9. Reporters'
    <3>1. ASSUME NEW d \in Callers, At(d)' = "report"
          PROVE  /\ Clear(Who(d))'
                 /\ \A e \in Callers : At(e)' = "report" /\ Who(e)' = Who(d)' => e = d
                 /\ \A e \in Callers : At(e)' = "allow" => By(ReportOf(e))' # Who(d)'
      <4>1. d # c /\ At(d) = "report" /\ Who(d)' = Who(d)  BY <2>1, <3>1 DEF Alone, Keeps
      <4>2. Who(d) # p /\ Clear(Who(d))  BY <1>i, <2>1, <4>1 DEF Reporters
      <4>3. Clear(Who(d))'  BY <2>8, <4>1, <4>2 DEF Clear, Status, By
      <4>4. \A e \in Callers : At(e)' = "report" /\ Who(e)' = Who(d)' => e = d
        BY <1>i, <2>1, <4>1 DEF Reporters, Alone, Keeps
      <4>5. ASSUME NEW e \in Callers, At(e)' = "allow" PROVE By(ReportOf(e))' # Who(d)'
        <5>1. e # c /\ At(e) = "allow" /\ ReportOf(e)' = ReportOf(e)
          BY <2>1, <4>5 DEF Alone, Keeps
        <5>2. ReportOf(e) # n /\ ReportOf(e) \in Reports  BY <1>o, <2>5, <5>1 DEF OnReport
        <5>3. By(ReportOf(e))' = By(ReportOf(e))  BY <2>3, <5>1, <5>2 DEF By
        <5>4. QED BY <1>i, <4>1, <5>1, <5>3 DEF Reporters
      <4>6. QED BY <4>3, <4>4, <4>5
    <3>2. QED BY <3>1 DEF Reporters
  <2>10. Allowed'
    <3>1. ASSUME NEW d \in Callers, At(d)' = "allow"
          PROVE  /\ d # c /\ At(d) = "allow" /\ ReportOf(d)' = ReportOf(d)
                 /\ ReportOf(d) \in Reports /\ ReportOf(d) # n
                 /\ By(ReportOf(d))' = By(ReportOf(d))
      <4>1. d # c /\ At(d) = "allow" /\ ReportOf(d)' = ReportOf(d)
        BY <2>1, <3>1 DEF Alone, Keeps
      <4>2. ReportOf(d) # n /\ ReportOf(d) \in Reports  BY <1>o, <2>5, <4>1 DEF OnReport
      <4>3. QED BY <2>3, <4>1, <4>2 DEF By
    <3>2. ASSUME NEW d \in Callers, At(d)' = "allow"
          PROVE  Clear(By(ReportOf(d)))'
      <4>1. By(ReportOf(d)) # p /\ Clear(By(ReportOf(d)))
        BY <1>i, <2>1, <3>1, <3>2 DEF Reporters, Allowed
      <4>2. By(ReportOf(d))' = By(ReportOf(d))  BY <3>1, <3>2
      <4>3. QED BY <2>8, <4>1, <4>2 DEF Clear, Status, By
    <3>3. QED BY <1>i, <3>1, <3>2 DEF Allowed
  <2>11. QED BY <2>6, <2>7, <2>9, <2>10 DEF Once
<1>4. CASE Resolving(c)
  <2> DEFINE n == ReportOf(c)
  <2>1. /\ At(c) \in {"Dismissed", "Actioned"} /\ Alone(c) /\ dedupe' = dedupe
        /\ At(c) = "Dismissed" => At(c)' = "allow" /\ Keeps(c)
        /\ At(c) = "Actioned" => At(c)' = "idle"
        /\ report' = [report EXCEPT ![n].status = At(c)]
    BY <1>4 DEF Resolving, Goes
  <2>2. n \in Reports  BY <1>o, <2>1 DEF OnReport
  <2>3. /\ report'[n].status = At(c) /\ \A m \in Reports : report'[m].by = report[m].by
        /\ \A m \in Reports : m # n => report'[m] = report[m]
    BY <1>t, <2>1, <2>2
  <2>4. /\ Status(n) = "Open"
        /\ \A d \in Callers : At(d) \in OnReport /\ ReportOf(d) = n => d = c
    BY <1>i, <2>1 DEF Moderators, OnReport
  <2>5. \A m \in Reports : report'[m].status = "Open" => Status(m) = "Open" /\ m # n
    BY <2>1, <2>3 DEF Status
  <2>6. OpenOnce'  BY <1>i, <2>1, <2>3, <2>5 DEF OpenOnce, Status, By
  <2>7. Moderators'
    <3>1. ASSUME NEW d \in Callers, At(d)' \in OnReport
          PROVE  /\ Status(ReportOf(d))' = (IF At(d)' = "allow" THEN "Dismissed" ELSE "Open")
                 /\ \A e \in Callers : At(e)' \in OnReport /\ ReportOf(e)' = ReportOf(d)' => e = d
      <4>1. \A e \in Callers : At(e)' \in OnReport =>
              At(e) \in OnReport /\ ReportOf(e)' = ReportOf(e)
        BY <2>1 DEF Alone, Keeps, OnReport
      <4>2. CASE d = c  BY <2>1, <2>3, <2>4, <3>1, <4>1, <4>2 DEF Status, OnReport, Keeps
      <4>3. CASE d # c
        <5>1. At(d) \in OnReport /\ At(d)' = At(d) /\ ReportOf(d)' = ReportOf(d)
          BY <2>1, <3>1, <4>3 DEF Alone, Keeps
        <5>2. ReportOf(d) # n /\ ReportOf(d) \in Reports  BY <1>o, <2>4, <4>3, <5>1
        <5>3. Status(ReportOf(d))' = Status(ReportOf(d))  BY <2>3, <5>1, <5>2 DEF Status
        <5>4. QED BY <1>i, <4>1, <5>1, <5>3 DEF Moderators
      <4>4. QED BY <4>2, <4>3
    <3>2. QED BY <3>1 DEF Moderators
  <2>8. \A q : Clear(q) => Clear(q)'  BY <2>1, <2>3, <2>5 DEF Clear, Status, By
  <2>9. By(n) \in dedupe /\ \A m \in Reports : Status(m) = "Open" /\ By(m) = By(n) => m = n
    BY <1>i, <2>2, <2>4 DEF OpenOnce
  <2>10. \A q : Clear(q) => q # By(n)  BY <2>2, <2>4 DEF Clear
  <2>11. ASSUME NEW d \in Callers, At(d)' = "allow"
         PROVE  /\ ReportOf(d)' = ReportOf(d) /\ ReportOf(d) \in Reports
                /\ By(ReportOf(d))' = By(ReportOf(d)) /\ (d # c => At(d) = "allow")
                /\ (d = c => ReportOf(d) = n)
    <3>1. /\ ReportOf(d)' = ReportOf(d) /\ At(d) \in OnReport /\ (d # c => At(d) = "allow")
      BY <2>1, <2>11 DEF Alone, Keeps, OnReport
    <3>2. QED BY <1>o, <2>3, <3>1 DEF By
  <2>12. Reporters'
    <3>1. ASSUME NEW d \in Callers, At(d)' = "report"
          PROVE  /\ Clear(Who(d))'
                 /\ \A e \in Callers : At(e)' = "report" /\ Who(e)' = Who(d)' => e = d
                 /\ \A e \in Callers : At(e)' = "allow" => By(ReportOf(e))' # Who(d)'
      <4>1. d # c /\ At(d) = "report" /\ Who(d)' = Who(d)  BY <2>1, <3>1 DEF Alone, Keeps
      <4>2. Clear(Who(d))  BY <1>i, <4>1 DEF Reporters
      <4>3. Clear(Who(d))'  BY <2>8, <4>1, <4>2 DEF Clear
      <4>4. \A e \in Callers : At(e)' = "report" /\ Who(e)' = Who(d)' => e = d
        BY <1>i, <2>1, <4>1 DEF Reporters, Alone, Keeps
      <4>5. \A e \in Callers : At(e)' = "allow" => By(ReportOf(e))' # Who(d)'
        BY <1>i, <2>10, <2>11, <4>1, <4>2 DEF Reporters
      <4>6. QED BY <4>3, <4>4, <4>5
    <3>2. QED BY <3>1 DEF Reporters
  <2>13. Allowed'
    <3>1. ASSUME NEW d \in Callers, At(d)' = "allow"
          PROVE  Clear(By(ReportOf(d)))'
      <4>1. CASE d = c
        <5>1. \A m \in Reports : report'[m].status = "Open" => report'[m].by # By(n)
          BY <2>3, <2>5, <2>9 DEF By
        <5>2. By(ReportOf(d))' = By(n)  BY <2>11, <3>1, <4>1
        <5>3. QED BY <2>1, <2>9, <5>1, <5>2 DEF Clear, Status, By
      <4>2. CASE d # c
        <5>1. PICK q : q = By(ReportOf(d)) /\ Clear(q)  BY <1>i, <2>11, <3>1, <4>2 DEF Allowed
        <5>2. Clear(q)'  BY <2>8, <5>1
        <5>3. By(ReportOf(d))' = q  BY <2>11, <3>1, <5>1
        <5>4. QED BY <5>2, <5>3 DEF Clear
      <4>3. QED BY <4>1, <4>2
    <3>2. ASSUME NEW d \in Callers, At(d)' = "allow", NEW e \in Callers, At(e)' = "allow",
                 By(ReportOf(e))' = By(ReportOf(d))'
          PROVE  e = d
      <4>1. \A x \in Callers : x # c /\ At(x)' = "allow" => By(ReportOf(x)) # By(n)
        BY <1>i, <2>10, <2>11 DEF Allowed
      <4>2. By(ReportOf(e)) = By(ReportOf(d))  BY <2>11, <3>2
      <4>3. CASE d = c /\ e # c  BY <2>11, <3>2, <4>1, <4>2, <4>3
      <4>4. CASE d # c /\ e = c  BY <2>11, <3>2, <4>1, <4>2, <4>4
      <4>5. CASE d # c /\ e # c  BY <1>i, <2>11, <3>2, <4>2, <4>5 DEF Allowed
      <4>6. QED BY <4>3, <4>4, <4>5
    <3>3. QED BY <3>1, <3>2 DEF Allowed
  <2>14. QED BY <2>6, <2>7, <2>12, <2>13 DEF Once
<1>5. CASE Allowing(c)
  <2> DEFINE p == By(ReportOf(c))
  <2>1. /\ At(c) = "allow" /\ At(c)' = "idle" /\ Alone(c) /\ report' = report
        /\ dedupe' = dedupe \ {p}
    BY <1>5 DEF Allowing, Goes, By
  <2>2. Clear(p) /\ \A d \in Callers : At(d) = "allow" /\ By(ReportOf(d)) = p => d = c
    BY <1>i, <2>1 DEF Allowed
  <2>3. OpenOnce'  BY <1>i, <2>1, <2>2 DEF OpenOnce, Clear, Status, By
  <2>4. Moderators'  BY <1>i, <2>1 DEF Moderators, Alone, Keeps, OnReport, Status
  <2>5. \A d \in Callers : At(d) = "report" => Who(d) # p  BY <1>i, <2>1 DEF Reporters
  <2>6. Reporters'  BY <1>i, <2>1, <2>5 DEF Reporters, Clear, Alone, Keeps, Status, By
  <2>7. Allowed'  BY <1>i, <2>1, <2>2 DEF Allowed, Clear, Alone, Keeps, Status, By
  <2>8. QED BY <2>3, <2>4, <2>6, <2>7 DEF Once
<1>6. CASE \/ Goes(c, "remove", "Actioned") /\ UNCHANGED <<report, dedupe, again>>
           \/ /\ At(c)' \notin OnReport \cup {"report"} /\ Alone(c)
              /\ UNCHANGED <<report, dedupe, again>>
  <2>1. /\ Alone(c) /\ report' = report /\ dedupe' = dedupe /\ At(c)' \notin {"report", "allow"}
        /\ At(c)' \in OnReport => At(c) = "remove" /\ At(c)' = "Actioned" /\ Keeps(c)
    BY <1>6 DEF Goes, OnReport
  <2>2. OpenOnce'  BY <1>i, <2>1 DEF OpenOnce, Status, By
  <2>3. Moderators'  BY <1>i, <2>1 DEF Moderators, Alone, Keeps, OnReport, Status
  <2>4. Reporters'  BY <1>i, <2>1 DEF Reporters, Clear, Alone, Keeps, Status, By
  <2>5. Allowed'  BY <1>i, <2>1 DEF Allowed, Clear, Alone, Keeps, Status, By
  <2>6. QED BY <2>2, <2>3, <2>4, <2>5 DEF Once
<1>7. QED BY <1>1, <1>2, <1>3, <1>4, <1>5, <1>6 DEF ReportStep

LEMMA StepRemoved ==
  ASSUME Types, Removed, NEW c \in Callers, Simple(c)
  PROVE  Removed'
<1>t. /\ post \in [deleted : BOOLEAN, replies : Int, reactions : [Kinds -> Int],
                   answer : Replies \cup {NoOne}]
      /\ report \in [Reports -> [status : {"none", "Open", "Dismissed", "Actioned"},
                                 by : People \cup {NoOne}]]
  BY DEF Types, TypeOK
<1>1. CASE Removing(c)
  <2>1. post'.deleted  BY <1>t, <1>1 DEF Removing
  <2>2. QED BY <2>1 DEF Removed
<1>2. CASE Resolving(c)
  <2> DEFINE n == ReportOf(c)
  <2>1. /\ At(c) \in {"Dismissed", "Actioned"} /\ At(c)' # "Actioned" /\ Alone(c) /\ post' = post
        /\ report' = [report EXCEPT ![n].status = At(c)]
    BY <1>2 DEF Resolving, Goes
  <2>2. \A m \in Reports : report'[m].status \in {report[m].status, At(c)}  BY <1>t, <2>1
  <2>3. At(c) = "Actioned" => post.deleted  BY DEF Removed
  <2>4. QED BY <2>1, <2>2, <2>3 DEF Removed, Alone, Status
<1>3. CASE Filing(c)
  <2>1. /\ At(c)' # "Actioned" /\ Alone(c) /\ post' = post
        /\ report' = [report EXCEPT ![ReportOf(c)] = [status |-> "Open", by |-> Who(c)]]
    BY <1>3 DEF Filing, Goes
  <2>2. \A m \in Reports : report'[m].status \in {report[m].status, "Open"}  BY <1>t, <2>1
  <2>3. QED BY <2>1, <2>2 DEF Removed, Alone, Status
<1>4. CASE Reading(c)
  <2>1. At(c)' # "Actioned" /\ Alone(c)
    BY <1>4 DEF Reading, Starts, Creating, Deleting, Accepting, Reacting, Reporting, DeletingPost
  <2>2. QED BY <1>4, <2>1 DEF Reading, Removed, Alone, Status
<1>5. CASE Moderating(c)
  <2>1. At(c)' # "Actioned" /\ Alone(c)  BY <1>5 DEF Moderating, Starts
  <2>2. QED BY <1>5, <2>1 DEF Moderating, Removed, Alone, Status
<1>6. CASE \/ Storing(c) \/ Counting(c) \/ Dropping(c) \/ Pointing(c) \/ Toggling(c)
           \/ Allowing(c) \/ Dying(c)
  <2>1. /\ At(c)' # "Actioned" /\ Alone(c) /\ report' = report
    BY <1>6 DEF Storing, Counting, Dropping, Pointing, Toggling, Allowing, Dying, Goes
  <2>2. post'.deleted = post.deleted
    BY <1>6, <1>t DEF Storing, Counting, Dropping, soft_delete_reply, Pointing, Toggling, Allowing, Dying
  <2>3. QED BY <2>1, <2>2 DEF Removed, Alone, Status
<1>7. QED BY <1>1, <1>2, <1>3, <1>4, <1>5, <1>6 DEF Simple

-----------------------------------------------------------------------------
(* The inductive invariant. *)

Counted == ReplyCountHolds /\ ReactionCountsHold /\ AnswerIsVisible
Reported == Filed /\ (again \/ Once) /\ Removed
IInv == Types /\ Apart /\ Stores /\ Targets /\ Reacts /\ Counted /\ Rates /\ Reported

LEMMA Initially == Init => IInv
<1> SUFFICES ASSUME Init PROVE IInv  OBVIOUS
<1>1. \A c \in Callers : call[c] = <<>> /\ At(c) = "idle"  BY DEF Init, At
<1>2. Types
  <2>1. TypeOK
    <3>1. post \in [deleted : BOOLEAN, replies : Int, reactions : [Kinds -> Int],
                    answer : Replies \cup {NoOne}]
      BY DEF Init
    <3>2. reply \in [Replies -> [state : {"none", "live", "deleted"}, by : People \cup {NoOne}]]
      BY DEF Init
    <3>3. kind \in [People -> Kinds \cup {NoOne}]  BY DEF Init
    <3>4. report \in [Reports -> [status : {"none", "Open", "Dismissed", "Actioned"},
                                  by : People \cup {NoOne}]]
      BY DEF Init, NoReport
    <3>5. hour = 1 /\ Hours \in Nat \ {0}  BY NumbersAssumption DEF Init, NumbersAssumption
    <3>6. hour \in 1..Hours  BY <3>5
    <3>7. rate \in [1..Hours -> [People -> Nat]]  BY DEF Init
    <3>8. dedupe \subseteq People /\ crossed \in BOOLEAN /\ again \in BOOLEAN  BY DEF Init
    <3>9. QED BY <3>1, <3>2, <3>3, <3>4, <3>6, <3>7, <3>8 DEF TypeOK
  <2>2. call \in Calls  BY DEF Init, Calls
  <2>3. \A c \in Callers : Aimed(c)  BY <1>1 DEF Aimed, OnReply, OnReport
  <2>4. QED BY <2>1, <2>2, <2>3 DEF Types
<1>3. Apart /\ Stores /\ Targets /\ Reacts
  BY <1>1 DEF Apart, Stores, Targets, Reacts
<1>4. Counted
  <2>1. {r \in Replies : reply[r].state = "live"} = {}  BY DEF Init
  <2>2. NoOne \notin Kinds  BY NamesAssumption DEF NamesAssumption
  <2>3. \A k \in Kinds : {p \in People : kind[p] = k} = {}  BY <2>2 DEF Init
  <2>4. QED
    BY <2>1, <2>3, FS_EmptySet DEF Init, Counted, ReplyCountHolds, ReactionCountsHold, AnswerIsVisible
<1>5. Rates
  <2>1. HourlyLimit \in Nat \ {0} /\ Cardinality(Callers) \in Nat \ {0} /\ hour \in 1..Hours
    BY <1>2, NumbersAssumption, UncountedIsFinite DEF NumbersAssumption, Types, TypeOK
  <2>2. \A p \in People : Uncounted(p) = {}  BY <1>1 DEF Uncounted
  <2>3. \A h \in 1..Hours, p \in People : rate[h][p] = 0  BY DEF Init
  <2>4. Cardinality({}) = 0  BY FS_EmptySet
  <2>5. Bound \in Nat  BY <2>1 DEF Bound
  <2>6. ASSUME NEW p \in People PROVE rate[hour][p] + Cardinality(Uncounted(p)) <= Bound
    <3>1. Uncounted(p) = {}  BY <2>2
    <3>2. rate[hour][p] = 0  BY <2>1, <2>3
    <3>3. QED BY <3>1, <3>2, <2>4, <2>5
  <2>7. ASSUME NEW h \in 1..Hours, NEW p \in People PROVE rate[h][p] = 0 /\ rate[h][p] <= Bound
    <3>1. rate[h][p] = 0  BY <2>3
    <3>2. QED BY <3>1, <2>5
  <2>8. QED BY <2>6, <2>7 DEF Rates
<1>6. Reported
  BY <1>1 DEF Init, NoReport, Reported, Filed, Once, OpenOnce, Moderators, Reporters, Allowed, Removed,
     Status, By, OnReport
<1>7. QED BY <1>2, <1>3, <1>4, <1>5, <1>6 DEF IInv

\* Nothing but the hour, the counters of the hour or the budget changes.
LEMMA Unmoved ==
  ASSUME Apart, Stores, Targets, Reacts, Counted, Reported,
         UNCHANGED <<post, reply, kind, report, dedupe, call, crossed, again>>
  PROVE  Apart' /\ Stores' /\ Targets' /\ Reacts' /\ Counted' /\ Reported'
<1>1. \A c \in Callers : /\ At(c)' = At(c) /\ Who(c)' = Who(c) /\ On(c)' = On(c)
                         /\ ReplyOf(c)' = ReplyOf(c) /\ ReportOf(c)' = ReportOf(c)
                         /\ WasAnswer(c)' = WasAnswer(c) /\ From(c)' = From(c) /\ To(c)' = To(c)
  BY DEF At, Who, On, ReplyOf, ReportOf, WasAnswer, From, To
<1>2. Apart'  BY <1>1 DEF Apart
<1>3. Stores'  BY <1>1 DEF Stores
<1>4. Targets'  BY <1>1 DEF Targets
<1>5. Reacts'  BY <1>1 DEF Reacts
<1>6. Counted'  BY DEF Counted, ReplyCountHolds, ReactionCountsHold, AnswerIsVisible
<1>7. Reported'
  <2>1. \A n : Status(n)' = Status(n) /\ By(n)' = By(n)  BY DEF Status, By
  <2>2. Filed /\ (again \/ Once) /\ Removed  BY DEF Reported
  <2>3. Filed'  BY <1>1, <2>1, <2>2 DEF Filed
  <2>5. ASSUME Once PROVE Once'
    <3>1. OpenOnce'  BY <2>1, <2>5 DEF Once, OpenOnce
    <3>2. Moderators'  BY <1>1, <2>1, <2>5 DEF Once, Moderators
    <3>3. Reporters'  BY <1>1, <2>1, <2>5 DEF Once, Reporters, Clear
    <3>4. Allowed'  BY <1>1, <2>1, <2>5 DEF Once, Allowed, Clear
    <3>5. QED BY <3>1, <3>2, <3>3, <3>4 DEF Once
  <2>6. Removed'  BY <1>1, <2>1, <2>2 DEF Removed
  <2>7. QED BY <2>2, <2>3, <2>5, <2>6 DEF Reported
<1>8. QED BY <1>2, <1>3, <1>4, <1>5, <1>6, <1>7

LEMMA Preserved == ASSUME IInv, [Next]_vars PROVE IInv'
<1>0. /\ Types /\ Apart /\ Stores /\ Targets /\ Reacts /\ Rates
      /\ ReplyCountHolds /\ ReactionCountsHold /\ AnswerIsVisible
      /\ Filed /\ (again \/ Once) /\ Removed
  BY DEF IInv, Counted, Reported
<1>1. CASE Next
  <2>1. Types'  BY <1>0, <1>1, StepTypes
  <2>2. ASSUME NEW c \in Callers, Simple(c) PROVE IInv'
    <3>1. Apart'  BY <1>0, <2>2, StepApart
    <3>2. Stores' /\ Targets' /\ ReplyCountHolds' /\ AnswerIsVisible'
      BY <1>0, <2>2, StepsOfReplies, StepReplies
    <3>3. Reacts' /\ ReactionCountsHold'  BY <1>0, <2>2, StepsOfReactions, StepReactions
    <3>4. Rates'  BY <1>0, <2>2, StepsOfRates, StepRates
    <3>5. Filed' /\ (again' \/ Once')  BY <1>0, <2>2, StepsOfReports, StepFiled, StepOnce
    <3>6. Removed'  BY <1>0, <2>2, StepRemoved
    <3>7. QED BY <2>1, <3>1, <3>2, <3>3, <3>4, <3>5, <3>6 DEF IInv, Counted, Reported
  <2>3. ASSUME NextHour PROVE IInv'
    <3>1. UNCHANGED <<post, reply, kind, report, dedupe, call, crossed, again>>
      BY <2>3 DEF NextHour, ghosts
    <3>2. Apart' /\ Stores' /\ Targets' /\ Reacts' /\ Counted' /\ Reported'
      BY <3>1, Unmoved DEF IInv
    <3>3. Rates'  BY <1>0, <2>3, HourRates
    <3>4. QED BY <2>1, <3>2, <3>3 DEF IInv
  <2>4. QED BY <1>0, <1>1, <2>2, <2>3, EveryStepIsSimple
<1>2. CASE UNCHANGED vars
  <2>1. /\ UNCHANGED <<post, reply, kind, report, dedupe, call, crossed, again>>
        /\ UNCHANGED <<rate, hour>>
    BY <1>2 DEF vars, ghosts
  <2>2. Apart' /\ Stores' /\ Targets' /\ Reacts' /\ Counted' /\ Reported'
    BY <2>1, Unmoved DEF IInv
  <2>3. \A c \in Callers : /\ At(c)' = At(c) /\ Who(c)' = Who(c) /\ On(c)' = On(c)
                           /\ ReplyOf(c)' = ReplyOf(c) /\ ReportOf(c)' = ReportOf(c)
                           /\ From(c)' = From(c) /\ To(c)' = To(c)
    BY <2>1 DEF At, Who, On, ReplyOf, ReportOf, From, To
  <2>4. Types'
    <3>1. TypeOK'  BY <1>0, <2>1 DEF Types, TypeOK
    <3>2. \A c \in Callers : Aimed(c)'  BY <1>0, <2>3 DEF Types, Aimed
    <3>3. QED BY <1>0, <2>1, <3>1, <3>2 DEF Types
  <2>5. Rates'
    <3>1. \A p \in People : Uncounted(p)' = Uncounted(p)  BY <2>3 DEF Uncounted
    <3>2. \A p \in People : rate'[hour'][p] + Cardinality(Uncounted(p)') <= Bound
      BY <1>0, <2>1, <3>1 DEF Rates
    <3>3. QED BY <1>0, <2>1, <3>2 DEF Rates, Bound
  <2>6. QED BY <2>2, <2>4, <2>5 DEF IInv
<1>3. QED BY <1>1, <1>2

THEOREM Inductive == Spec => []IInv
BY Initially, Preserved, PTL DEF Spec

LEMMA Implied ==
  IInv => TypeOK /\ ThreadCountsHold /\ ModerationHolds
<1> SUFFICES ASSUME IInv PROVE TypeOK /\ ThreadCountsHold /\ ModerationHolds  OBVIOUS
<1>1. TypeOK /\ ThreadCountsHold  BY DEF IInv, Types, Counted, ThreadCountsHold
<1>2. RateHolds  BY DEF IInv, Rates, Bound, RateHolds
<1>3. OneOpenReportEach
  <2> SUFFICES ASSUME Once, NEW p \in People PROVE Cardinality(OpenOf(p)) <= 1
    BY DEF IInv, Reported, OneOpenReportEach
  <2>1. CASE OpenOf(p) = {}  BY <2>1, FS_EmptySet
  <2>2. CASE OpenOf(p) # {}
    <3>1. PICK n \in OpenOf(p) : TRUE  BY <2>2
    <3>2. OpenOf(p) = {n}  BY <3>1 DEF OpenOf, Once, OpenOnce, Status, By
    <3>3. QED BY <3>2, FS_Singleton
  <2>3. QED BY <2>1, <2>2
<1>4. ActionedIsRemoved  BY DEF IInv, Reported, Removed, Status, ActionedIsRemoved
<1>5. QED BY <1>1, <1>2, <1>3, <1>4 DEF ModerationHolds

-----------------------------------------------------------------------------
(* What is so in every behaviour, for any people, replies, reports and bounds. *)

\* The post, its replies, reactions and reports are what they are made of (the items of
\* the forums table).
THEOREM TypeCorrect == Spec => []TypeOK
BY Inductive, Implied, PTL

\* The post's counts are those of its replies and reactions and its answer can be seen,
\* until two requests about one thing overlap (create_reply_transact, soft_delete_reply,
\* set_reaction_transact).
THEOREM CountsAlwaysHold == Spec => []ThreadCountsHold
BY Inductive, Implied, PTL

\* The hourly limit is exceeded by the requests at once and no more; a reporter has one
\* open report; what a report was actioned for is gone (check_rate, put_report_dedupe,
\* _action_report).
THEOREM ModerationAlwaysHolds == Spec => []ModerationHolds
BY Inductive, Implied, PTL
=============================================================================
