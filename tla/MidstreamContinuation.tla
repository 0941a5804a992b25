----------------------- MODULE MidstreamContinuation -----------------------
(***************************************************************************)
(* Continuation of an inference stream that breaks in the middle: the       *)
(* generator that replaces LitellmLLM.stream passes the provider's packets  *)
(* on, remembers what was generated, and after a transport failure asks the *)
(* provider to go on from there.                                            *)
(*                                                                          *)
(* A packet is the set of the fields it carries.  A generated fragment is   *)
(* its position in the whole generation, so that a lost, repeated or        *)
(* reordered fragment shows.                                                *)
(***************************************************************************)
EXTENDS Naturals, Sequences, SequencesExt

CONSTANT MaxPackets     \* packets the provider sends over all attempts

VARIABLES
    structured,     \* a structured response format was asked for
    stream,         \* "running", "broken" (exception caught), "notified", "returned", "raised"
    retryable,      \* class of the exception that broke it
    answer,         \* generated_answer_parts
    reasoning,      \* generated_reasoning_parts
    sawTool,        \* saw_tool_delta
    sawFinish,      \* saw_terminal_finish
    continuations,  \* continuation_count
    progress,       \* made_continuation_progress
    asked,          \* the partial assistant in the current prompt
    emitted,        \* what the consumer received
    packets         \* packets sent so far

vars == <<structured, stream, retryable, answer, reasoning, sawTool, sawFinish,
          continuations, progress, asked, emitted, packets>>

Fields == {"reasoning", "content", "tool", "finish"}
Packets == {{f} : f \in Fields} \cup {{"reasoning", "content"}, {"content", "finish"},
                                      {"tool", "finish"}, {"reasoning", "finish"}, {}}
NoPartial == [answer |-> <<>>, reasoning |-> <<>>]
IsContinuation == continuations > 0

Init ==
    /\ structured \in BOOLEAN
    /\ stream = "running" /\ retryable = FALSE
    /\ answer = <<>> /\ reasoning = <<>>
    /\ sawTool = FALSE /\ sawFinish = FALSE
    /\ continuations = 0 /\ progress = FALSE
    /\ asked = NoPartial
    /\ emitted = <<>>
    /\ packets = 0

(* What the consumer gets of a packet: in a continuation, reasoning that   *)
(* comes after answer text is kept for the next prompt and not shown.      *)
Shown(packet) ==
    IF IsContinuation /\ answer # <<>> THEN packet \ {"reasoning"} ELSE packet

Packet ==
    /\ stream = "running" /\ packets < MaxPackets
    /\ \E packet \in Packets :
          /\ sawFinish => packet = {}
          /\ packets' = packets + 1
          /\ sawTool' = (sawTool \/ "tool" \in packet)
          /\ reasoning' = IF "reasoning" \in packet THEN Append(reasoning, packets) ELSE reasoning
          /\ answer' = IF "content" \in packet THEN Append(answer, packets) ELSE answer
          /\ progress' = (progress \/ (IsContinuation /\ packet \cap {"reasoning", "content"} # {}))
          /\ sawFinish' = (sawFinish \/ "finish" \in packet)
          /\ emitted' = IF Shown(packet) = {} THEN emitted
                        ELSE Append(emitted, [fields |-> Shown(packet), id |-> packets,
                                              attempt |-> continuations])
    /\ UNCHANGED <<structured, stream, retryable, continuations, asked>>

(* The provider's stream ends. *)
Complete ==
    /\ stream = "running"
    /\ stream' = "returned"
    /\ UNCHANGED <<structured, retryable, answer, reasoning, sawTool, sawFinish, continuations,
                   progress, asked, emitted, packets>>

(* An exception; its chain holds a transport error or it does not. *)
Break ==
    /\ stream = "running"
    /\ stream' = "broken"
    /\ retryable' \in BOOLEAN
    /\ UNCHANGED <<structured, answer, reasoning, sawTool, sawFinish, continuations, progress,
                   asked, emitted, packets>>

Notice(fields) ==
    emitted' = Append(emitted, [fields |-> fields, id |-> MaxPackets, attempt |-> continuations])

CanPreserve == /\ answer # <<>> \/ reasoning # <<>>
               /\ ~sawTool /\ ~structured /\ retryable

FinalizationFailed ==
    /\ stream = "broken" /\ sawFinish
    /\ Notice({"content", "finish"})
    /\ stream' = "returned"
    /\ UNCHANGED <<structured, retryable, answer, reasoning, sawTool, sawFinish, continuations,
                   progress, asked, packets>>

Raise ==
    /\ stream = "broken" /\ ~sawFinish /\ ~CanPreserve
    /\ stream' = "raised"
    /\ UNCHANGED <<structured, retryable, answer, reasoning, sawTool, sawFinish, continuations,
                   progress, asked, emitted, packets>>

Exhausted == IsContinuation /\ ~progress

(* Mutant of GiveUp: no clause for a continuation that generated nothing.   *)
GiveUpNever == FALSE /\ UNCHANGED vars

GiveUp ==
    /\ stream = "broken" /\ ~sawFinish /\ CanPreserve /\ Exhausted
    /\ Notice({"content", "finish"})
    /\ stream' = "returned"
    /\ UNCHANGED <<structured, retryable, answer, reasoning, sawTool, sawFinish, continuations,
                   progress, asked, packets>>

(* The notice goes where the generation stands: reasoning or answer. *)
Notify ==
    /\ stream = "broken" /\ ~sawFinish /\ CanPreserve /\ ~Exhausted
    /\ continuations' = continuations + 1
    /\ Notice(IF answer # <<>> THEN {"content"} ELSE {"reasoning"})
    /\ stream' = "notified"
    /\ UNCHANGED <<structured, retryable, answer, reasoning, sawTool, sawFinish, progress,
                   asked, packets>>

(* The fragments of the failed attempt alone. *)
PartialOfAttempt == [answer |-> SubSeq(answer, Len(asked.answer) + 1, Len(answer)),
                     reasoning |-> SubSeq(reasoning, Len(asked.reasoning) + 1, Len(reasoning))]
Partial == [answer |-> answer, reasoning |-> reasoning]

Continue ==
    /\ stream = "notified"
    /\ asked' = Partial
    /\ progress' = FALSE
    /\ stream' = "running"
    /\ UNCHANGED <<structured, retryable, answer, reasoning, sawTool, sawFinish, continuations,
                   emitted, packets>>

(* The consumer closes the generator while it is suspended at a yield. *)
Close ==
    /\ stream \in {"running", "notified"} /\ emitted # <<>>
    /\ stream' = "returned"
    /\ UNCHANGED <<structured, retryable, answer, reasoning, sawTool, sawFinish, continuations,
                   progress, asked, emitted, packets>>

Next == Packet \/ Complete \/ Break \/ FinalizationFailed \/ Raise \/ GiveUp \/ Notify
        \/ Continue \/ Close

(* The provider's reads have a timeout, so an attempt ends or breaks.       *)
Handler == FinalizationFailed \/ Raise \/ GiveUp \/ Notify \/ Continue
FairSpec == Init /\ [][Next]_vars /\ WF_vars(Handler) /\ WF_vars(Complete \/ Break)

-----------------------------------------------------------------------------
TypeOK ==
    /\ structured \in BOOLEAN /\ retryable \in BOOLEAN
    /\ stream \in {"running", "broken", "notified", "returned", "raised"}
    /\ answer \in Seq(Nat) /\ reasoning \in Seq(Nat)
    /\ sawTool \in BOOLEAN /\ sawFinish \in BOOLEAN /\ progress \in BOOLEAN
    /\ continuations \in Nat
    /\ asked \in [answer : Seq(Nat), reasoning : Seq(Nat)]
    /\ emitted \in Seq([fields : SUBSET Fields, id : 0..MaxPackets, attempt : 0..continuations])
    /\ packets \in 0..MaxPackets

FromProvider(e) == e.id < MaxPackets

Ascending(numbers, places) ==
    \A i, j \in places : i < j => numbers[i] < numbers[j]

Ids == [i \in DOMAIN emitted |-> emitted[i].id]

(* Where the consumer received answer text of the provider.                 *)
AnswerPlaces ==
    {i \in DOMAIN emitted : "content" \in emitted[i].fields /\ FromProvider(emitted[i])}

(* The consumer has every answer fragment once and in order.                *)
AnswerIsWhole ==
    /\ Range(answer) = {Ids[i] : i \in AnswerPlaces}
    /\ Ascending(answer, DOMAIN answer)
    /\ Ascending(Ids, AnswerPlaces)

(* A continuation is asked to go on from all that was generated before it.  *)
AskedForTheRest ==
    IsContinuation /\ stream = "running" =>
       /\ IsPrefix(asked.answer, answer) /\ IsPrefix(asked.reasoning, reasoning)
       /\ \A i \in DOMAIN emitted :
             emitted[i].attempt < continuations /\ FromProvider(emitted[i]) =>
                /\ "content" \in emitted[i].fields => emitted[i].id \in Range(asked.answer)
                /\ "reasoning" \in emitted[i].fields => emitted[i].id \in Range(asked.reasoning)

(* No attempt follows a tool call, a structured answer or a finish.         *)
AttemptsFollowText ==
    /\ \A i, j \in DOMAIN emitted :
          i < j /\ emitted[j].attempt > emitted[i].attempt =>
             emitted[i].fields \cap {"tool", "finish"} = {}
    /\ IsContinuation => ~structured

(* A continuation shows no reasoning after answer text, which the stream    *)
(* contract of the UI rules out.                                            *)
ReasoningFirst ==
    \A i, j \in DOMAIN emitted :
       i < j /\ "content" \in emitted[i].fields /\ emitted[j].attempt > 0 =>
          "reasoning" \notin emitted[j].fields

(* Every attempt after the first is earned by generated text.               *)
AttemptsAreEarned == continuations <= Len(answer) + Len(reasoning)

(* Whatever was interrupted, however often: the consumer has every answer   *)
(* fragment once and in order, each attempt is asked to go on from all that *)
(* was generated before it, no attempt follows a tool call, a structured    *)
(* answer or a finish, and a continuation never shows reasoning after       *)
(* answer text.  A provider that keeps failing is asked at most once more   *)
(* than it made progress (_stream_with_midstream_continuation).             *)
GenerationIsContinued ==
    /\ TypeOK
    /\ AnswerIsWhole
    /\ AskedForTheRest
    /\ AttemptsFollowText
    /\ ReasoningFirst
    /\ AttemptsAreEarned

(* What was emitted is on record: as text, as a tool call, as a finish.     *)
EmittedIsRecorded ==
    /\ \A i \in DOMAIN emitted :
          FromProvider(emitted[i]) =>
             /\ emitted[i].id < packets
             /\ "reasoning" \in emitted[i].fields => emitted[i].id \in Range(reasoning)
             /\ "tool" \in emitted[i].fields => sawTool
    /\ \A i \in DOMAIN emitted :
          /\ ~FromProvider(emitted[i]) => "tool" \notin emitted[i].fields
          /\ "finish" \in emitted[i].fields => sawFinish \/ stream = "returned"
          /\ "content" \in emitted[i].fields => answer # <<>> \/ stream = "returned"
          /\ emitted[i].attempt < continuations =>
                emitted[i].fields \cap {"tool", "finish"} = {}

(* While an attempt runs it extends what it was asked to extend, and it was *)
(* paid for by what came before it.                                         *)
AttemptExtends ==
    IsContinuation /\ stream \in {"running", "broken"} =>
       /\ Len(asked.answer) <= Len(answer) /\ Len(asked.reasoning) <= Len(reasoning)
       /\ continuations <= Len(asked.answer) + Len(asked.reasoning)
       /\ progress => Len(asked.answer) + Len(asked.reasoning) < Len(answer) + Len(reasoning)

(* The inductive invariant of the continuation.                             *)
ContinuationInv ==
    /\ GenerationIsContinued
    /\ EmittedIsRecorded
    /\ AttemptExtends
    /\ Range(answer) \subseteq 0..(packets - 1)

(* A broken stream is settled: completed, given up with a notice, or raised. *)
StreamSettles == <>(stream \in {"returned", "raised"})
=============================================================================
