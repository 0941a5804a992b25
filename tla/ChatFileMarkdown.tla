-------------------------- MODULE ChatFileMarkdown --------------------------
(***************************************************************************)
(* Links to generated files in a streamed answer (api/python_artifacts.py): *)
(* _ChatFileMarkdownStream rewrites them while the answer comes in chunks,  *)
(* its emitter passes on what is settled and flushes before every other     *)
(* packet.  The whole answer is rewritten once more to be saved, and what   *)
(* was saved when it is loaded.                                             *)
(*                                                                          *)
(* A character is one that the scanner looks for, or "t" for any other.     *)
(* The destination "t" is that of a generated file.  A rewritten link       *)
(* loses the mark of an image; file names, IDs and origins are left out.    *)
(***************************************************************************)
EXTENDS Naturals, Sequences, FiniteSets, SequencesExt

CONSTANTS
    Words, MaxWords,    \* answers are made of at most MaxWords of these
    Limit               \* _CHAT_FILE_MARKDOWN_CANDIDATE_LIMIT

VARIABLES
    answer,     \* all the model writes
    fed,        \* how much of it the stream has been given
    scan,       \* pending text, ticks of the open code span (0: none), and
                \* the pieces that were passed on: characters, rewritten links
    cutEscape,  \* some chunk ended inside an escape
    split,      \* some packet came while a candidate was pending
    done,       \* the step of the language model is over
    saved       \* the pieces of the saved answer

vars == <<answer, fed, scan, cutEscape, split, done, saved>>

Answers == {FlattenSeq(ws) : ws \in UNION {[1..n -> Words] : n \in 0..MaxWords}}

-----------------------------------------------------------------------------
(* The scanner.                                                             *)

First(cs, c) == SelectInSeq(cs, LAMBDA x : x = c)

(* An odd number of backslashes stands before position i.                   *)
Escaped(cs, i) ==
    Cardinality({j \in 1..(i - 1) : \A k \in j..(i - 1) : cs[k] = "\\"}) % 2 = 1

(* The first unescaped c from a position on, 0 if there is none.            *)
FindUnescaped(cs, c, from) ==
    SelectInSeq([i \in DOMAIN cs |-> i >= from /\ cs[i] = c /\ ~Escaped(cs, i)],
                LAMBDA found : found)

LeadingTicks(cs) == Cardinality({i \in DOMAIN cs : \A j \in 1..i : cs[j] = "tick"})

(* The first k pending characters go on as they are.                        *)
Pass(s, k) ==
    [s EXCEPT !.pending = SubSeq(@, k + 1, Len(@)),
              !.out = @ \o [i \in 1..k |-> [text |-> <<s.pending[i]>>, link |-> FALSE]]]

Link(s, k) ==
    [s EXCEPT !.pending = SubSeq(@, k + 1, Len(@)),
              !.out = Append(@, [text |-> SubSeq(s.pending, 1, k), link |-> TRUE])]

(* A run of ticks at the end may still grow.                                *)
TickRun(s, final, ticks) ==
    LET n == LeadingTicks(s.pending)
    IN  IF n = Len(s.pending) /\ ~final THEN s ELSE [Pass(s, n) EXCEPT !.ticks = ticks]

InCode(s, final) ==
    LET tick == First(s.pending, "tick")
        closes == LeadingTicks(s.pending) = s.ticks
    IN  CASE tick = 0 -> Pass(s, Len(s.pending))
          [] tick > 1 -> Pass(s, tick - 1)
          [] tick = 1 -> TickRun(s, final, IF closes THEN 0 ELSE s.ticks)

AtTick(s, tick, final) ==
    CASE Escaped(s.pending, tick) -> Pass(s, tick)
      [] ~Escaped(s.pending, tick) /\ tick > 1 -> Pass(s, tick - 1)
      [] OTHER -> TickRun(s, final, LeadingTicks(s.pending))

(* Mutant of NoBracket: an image mark at the end goes on.                   *)
NoBracketAtAll(s, final) == Pass(s, Len(s.pending))

(* An image mark at the end may belong to a link.                           *)
NoBracket(s, final) ==
    Pass(s, Len(s.pending) - IF Last(s.pending) = "!" /\ ~final THEN 1 ELSE 0)

(* A candidate that is not complete waits, up to a limit.                   *)
Incomplete(s, final) == IF final \/ Len(s.pending) > Limit THEN Pass(s, 1) ELSE s

AtDestination(s, label, final) ==
    LET end == FindUnescaped(s.pending, ")", label + 2)
        file == SubSeq(s.pending, label + 2, end - 1) = <<"t">>
    IN  CASE end = 0 -> Incomplete(s, final)
          [] end > 0 /\ file -> Link(s, end)
          [] end > 0 /\ ~file -> Pass(s, end)

AtBracket(s, open, final) ==
    LET p == s.pending
        image == open > 1 /\ p[open - 1] = "!" /\ ~Escaped(p, open - 1)
        start == IF image THEN open - 1 ELSE open
        label == FindUnescaped(p, "]", open + 1)
    IN  CASE start > 1 -> Pass(s, start - 1)
          [] start = 1 /\ label = 0 -> Incomplete(s, final)
          [] start = 1 /\ label = Len(p) -> IF final THEN Pass(s, label) ELSE s
          [] OTHER -> IF p[label + 1] = "(" THEN AtDestination(s, label, final)
                                            ELSE Pass(s, label)

(* One turn of the loop of feed; it leaves s alone when feed must wait.     *)
Turn(s, final) ==
    LET open == First(s.pending, "[")
        tick == First(s.pending, "tick")
    IN  CASE s.pending = <<>> -> s
          [] s.pending # <<>> /\ s.ticks > 0 -> InCode(s, final)
          [] s.pending # <<>> /\ s.ticks = 0 ->
                IF tick > 0 /\ (open = 0 \/ tick < open) THEN AtTick(s, tick, final)
                ELSE IF open = 0 THEN NoBracket(s, final)
                ELSE AtBracket(s, open, final)

(* A turn that does not wait takes a character at least, so there are no    *)
(* more of them than characters.                                            *)
Scan(s, final) == FoldLeft(LAMBDA t, c : Turn(t, final), s, s.pending)

Fresh == [pending |-> <<>>, ticks |-> 0, out |-> <<>>]

FeedAll(s, chunk) == Scan([s EXCEPT !.pending = @ \o chunk], FALSE)

Normalize(cs) == Scan(FeedAll(Fresh, cs), TRUE).out

(* What is seen of the pieces.                                              *)
Shown(pieces) ==
    FlattenSeq([i \in DOMAIN pieces |->
                   IF pieces[i].link /\ pieces[i].text[1] = "!"
                   THEN Tail(pieces[i].text) ELSE pieces[i].text])

-----------------------------------------------------------------------------
(* One step of the language model.                                          *)
Init ==
    /\ answer \in Answers
    /\ fed = 0 /\ scan = Fresh
    /\ cutEscape = FALSE /\ split = FALSE
    /\ done = FALSE /\ saved = <<>>

(* The text up to position i ends inside an escape.                         *)
EndsInEscape(i) == Escaped(answer, i + 1) \/ (answer[i] = "!" /\ Escaped(answer, i))

(* A delta with the characters up to k.                                     *)
Feed(k) ==
    /\ scan' = FeedAll(scan, SubSeq(answer, fed + 1, k))
    /\ fed' = k
    /\ cutEscape' = (cutEscape \/ (k < Len(answer) /\ EndsInEscape(k)))
    /\ UNCHANGED <<answer, split, done, saved>>

(* A packet of another kind.                                                *)
OtherPacket ==
    /\ fed < Len(answer)
    /\ scan' = Scan(scan, TRUE)
    /\ split' = (split \/ scan.pending # <<>>)
    /\ UNCHANGED <<answer, fed, cutEscape, done, saved>>

(* The step returns: the emitter is flushed, the whole answer is saved.     *)
Finish ==
    /\ fed = Len(answer) /\ ~done
    /\ scan' = Scan(scan, TRUE)
    /\ saved' = Normalize(answer)
    /\ done' = TRUE
    /\ UNCHANGED <<answer, fed, cutEscape, split>>

Finished == done /\ UNCHANGED vars

Next == (\E k \in (fed + 1)..Len(answer) : Feed(k)) \/ OtherPacket \/ Finish \/ Finished

Spec == Init /\ [][Next]_vars

-----------------------------------------------------------------------------
TypeOK ==
    /\ fed \in 0..Len(answer) /\ cutEscape \in BOOLEAN /\ split \in BOOLEAN
    /\ scan.ticks \in 0..Len(answer)

IsLink(text) ==
    LET from == IF text[1] = "!" THEN 2 ELSE 1
    IN  text[from] = "[" /\ IsSuffix(<<"]", "(", "t", ")">>, text)

(* However the answer is cut and interrupted, nothing is lost, repeated or  *)
(* reordered, and only complete links to generated files are rewritten      *)
(* (feed; docs/onyx_patch_info.md, "handled without loss or rewriting").    *)
Lossless ==
    /\ TypeOK
    /\ FlattenSeq([i \in DOMAIN scan.out |-> scan.out[i].text]) \o scan.pending
          = SubSeq(answer, 1, fed)
    /\ \A i \in DOMAIN scan.out : scan.out[i].link => IsLink(scan.out[i].text)

(* The cuts of the answer do not show: what was streamed is what is saved,  *)
(* unless another packet came in the middle of a candidate, or a candidate  *)
(* is longer than the limit.                                                *)
CutsUnseen == done /\ ~split /\ Len(answer) <= Limit => scan.out = saved

(* Rewriting what was saved, when it is loaded, leaves it as it is; unless  *)
(* an exclamation mark before an image makes the link an image again.       *)
ReloadsTheSame ==
    \/ Shown(Normalize(Shown(saved))) = Shown(saved)
    \/ \E i \in 1..(Len(saved) - 1) :
          saved[i].text = <<"!">> /\ saved[i + 1].link /\ saved[i + 1].text[1] = "!"

(* The reader sees one answer, whether it is streamed in any chunks, saved  *)
(* or loaded, as long as no chunk ends inside an escape (feed, whose check  *)
(* for an escape sees the pending text only).                               *)
OneAnswer == ReloadsTheSame /\ (~cutEscape => CutsUnseen)
=============================================================================
