--------------------------- MODULE CommunityParts ----------------------------
(* Components of what members say to each other and share, each with names of *)
(* its own, for a model of several of them and for the proofs about each.     *)
EXTENDS Parts

-----------------------------------------------------------------------------
(* The accepted answers and what they earn. *)
CONSTANTS AnswerReplies, NoAnswer, AnswerMembers, AnswerPoints, AnswerCallers, AnswerWorkers,
          MaxAnswersSent, MaxAnswerCopies, MaxAnswerCrashes

VARIABLES postAnswer, accepted, deletedReplies, answerCall, answersSent, answerQueue, answerIdem,
          awarded, answerWorker, answerNet, answerBudget

answerVars == <<postAnswer, accepted, deletedReplies, answerCall, answersSent, answerQueue,
                answerIdem, awarded, answerWorker, answerNet, answerBudget>>

Aa == INSTANCE AcceptedAnswers WITH
  Replies <- AnswerReplies, NoReply <- NoAnswer, Members <- AnswerMembers,
  Points <- AnswerPoints, Callers <- AnswerCallers, Workers <- AnswerWorkers,
  MaxSent <- MaxAnswersSent, MaxCopies <- MaxAnswerCopies, MaxCrashes <- MaxAnswerCrashes,
  answer <- postAnswer, deleted <- deletedReplies, call <- answerCall, sent <- answersSent,
  queue <- answerQueue, idem <- answerIdem, worker <- answerWorker, net <- answerNet,
  budget <- answerBudget

\* A reply has earned what its award flag says, and between requests exactly the post's
\* answer is shown as accepted (award_accepted_reply, _accept_answer, BR-15).
AnswersHold == part = "answers" => Aa!AnswersHold
=============================================================================
