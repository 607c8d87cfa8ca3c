------------------------------ MODULE ResponseScan ------------------------------
(***************************************************************************)
(* ResponseScanner of bench call (bench-core/src/call.rs): the body of a   *)
(* JSON-RPC response arrives in chunks of any size; the bytes of the       *)
(* top-level `result` are digested as they come and those of `error` kept  *)
(* up to a cap.  A byte is a token: a JSON delimiter, " ", or a word.      *)
(***************************************************************************)
EXTENDS Integers, Sequences, SequencesExt, FiniteSetsExt

CONSTANTS Responses,        \* what servers answer
          MaxKeyLen, MaxErrorCapture

\* A response is a sequence of members [key, value] and what separates their
\* tokens; cut is how much of it is sent before the connection closes.
ScanAssumption ==
    /\ MaxKeyLen \in Nat \ {0} /\ MaxErrorCapture \in Nat
    /\ \A r \in Responses : \A i \in DOMAIN r.members : r.members[i].value # <<>>

VARIABLES
    config,    \* the response; it never changes
    scan,      \* ResponseScanner and the chunk that it is fed
    answer     \* what digest_response returns

vars == <<config, scan, answer>>

Space == {" "}
Brackets == {"{", "}", "[", "]"}

\* The bytes of the response, with spaces around every token of the object.
Body ==
    LET gap == config.gap
        member(m) == gap \o <<"\"">> \o m.key \o <<"\"">> \o gap \o <<":">> \o gap \o m.value \o gap
        all == [i \in DOMAIN config.members |->
                  (IF i = 1 THEN <<>> ELSE <<",">>) \o member(config.members[i])]
    IN  gap \o <<"{">> \o FlattenSeq(all) \o <<"}">> \o gap
Sent == SubSeq(Body, 1, Len(Body) - config.cut)
-----------------------------------------------------------------------------
(* ValueScan                                                               *)

NewValue == [depth |-> 0, in_string |-> FALSE, escaped |-> FALSE, literal |-> FALSE,
             started |-> FALSE, skipped |-> 0, end |-> 0, complete |-> FALSE]

Opens(byte) == byte \in {"{", "["}
Closes(byte) == byte \in {"}", "]"}

\* One byte of the loop in ValueScan::feed; nothing follows a complete value.
\* The byte that ends a literal is not part of it.
ScanByte(v, byte) ==
    LET taken == [v EXCEPT !.end = @ + 1]
    IN  CASE v.complete -> v
          [] ~v.complete /\ ~v.started /\ byte \in Space -> [taken EXCEPT !.skipped = @ + 1]
          [] ~v.complete /\ ~v.started /\ byte \notin Space ->
               [taken EXCEPT !.started = TRUE, !.depth = IF Opens(byte) THEN 1 ELSE 0,
                             !.in_string = byte = "\"", !.literal = ~Opens(byte) /\ byte # "\""]
          [] ~v.complete /\ v.in_string ->
               IF v.escaped THEN [taken EXCEPT !.escaped = FALSE]
               ELSE [taken EXCEPT !.escaped = byte = "\\", !.in_string = byte # "\"",
                                  !.complete = byte = "\"" /\ v.depth = 0]
          [] ~v.complete /\ v.literal ->
               IF byte \in Space \cup {",", "}", "]"} THEN [v EXCEPT !.complete = TRUE] ELSE taken
          [] OTHER ->
               [taken EXCEPT !.in_string = byte = "\"",
                             !.depth = CASE Opens(byte) -> @ + 1 [] Closes(byte) -> @ - 1 [] OTHER -> @,
                             !.complete = Closes(byte) /\ v.depth = 1]

FeedForgetting(v, chunk) == FoldLeft(ScanByte, [NewValue EXCEPT !.depth = v.depth, !.started = v.started], chunk)  \* fault

\* feed starts its counters anew for every chunk.
FeedValue(v, chunk) == FoldLeft(ScanByte, [v EXCEPT !.skipped = 0, !.end = 0], chunk)
-----------------------------------------------------------------------------
(* ResponseScanner                                                         *)

NotSeen == <<"not seen">>

MemberOf(key) == IF key \in {<<"result">>, <<"error">>} THEN key[1] ELSE "other"
StartMember(s) == CASE s.member = "result" -> [s EXCEPT !.result = <<>>]
                    [] s.member = "error" -> [s EXCEPT !.error = <<>>]
                    [] OTHER -> s

\* consume_member
Consume(s, bytes) ==
    CASE s.member = "result" -> [s EXCEPT !.result = @ \o bytes]
      [] s.member = "error" ->
           [s EXCEPT !.error = SubSeq(@ \o bytes, 1, Min({MaxErrorCapture, Len(@ \o bytes)}))]
      [] OTHER -> s

\* What one byte does outside of a value: the scanner, or "malformed".
Byte(s, byte) ==
    CASE s.phase = "before object" ->
           CASE byte = "{" -> [s EXCEPT !.phase = "before key"]
             [] byte \in Space -> s [] OTHER -> [s EXCEPT !.phase = "malformed"]
      [] s.phase = "before key" ->
           CASE byte = "\"" -> [s EXCEPT !.phase = "in key", !.key = <<>>]
             [] byte = "}" -> [s EXCEPT !.phase = "finished"]
             [] byte \in Space \cup {","} -> s [] OTHER -> [s EXCEPT !.phase = "malformed"]
      [] s.phase = "in key" ->
           CASE byte = "\\" -> [s EXCEPT !.phase = "in key, escaped"]
             [] byte = "\"" -> [s EXCEPT !.phase = "before colon", !.member = MemberOf(s.key)]
             [] OTHER -> [s EXCEPT !.key = SubSeq(@ \o <<byte>>, 1, Min({MaxKeyLen, Len(@) + 1}))]
      [] s.phase = "in key, escaped" ->
           [s EXCEPT !.phase = "in key", !.key = SubSeq(@ \o <<byte>>, 1, Min({MaxKeyLen, Len(@) + 1}))]
      [] s.phase = "before colon" ->
           CASE byte = ":" -> [StartMember(s) EXCEPT !.phase = "in value", !.value = NewValue]
             [] byte \in Space -> s [] OTHER -> [s EXCEPT !.phase = "malformed"]
      [] s.phase = "after value" ->
           CASE byte = "," -> [s EXCEPT !.phase = "before key"]
             [] byte = "}" -> [s EXCEPT !.phase = "finished"]
             [] byte \in Space -> s [] OTHER -> [s EXCEPT !.phase = "malformed"]

Waiting == scan.chunk = <<>> \/ scan.phase \in {"finished", "malformed"}

\* response.chunk()
Receive ==
    /\ answer = NotSeen /\ Waiting /\ scan.phase # "malformed" /\ scan.received < Len(Sent)
    /\ \E n \in 1 .. Len(Sent) - scan.received :
         scan' = [scan EXCEPT !.received = @ + n,
                              !.chunk = SubSeq(Sent, scan.received + 1, scan.received + n)]
    /\ UNCHANGED <<config, answer>>

\* One round of the loop in ResponseScanner::feed: a byte, or as much of the
\* value as the chunk holds.
Feed ==
    /\ ~Waiting
    /\ IF scan.phase # "in value"
         THEN scan' = [Byte(scan, Head(scan.chunk)) EXCEPT !.chunk = Tail(@)]
         ELSE LET v == FeedValue(scan.value, scan.chunk)
                  taken == Consume(scan, SubSeq(scan.chunk, v.skipped + 1, v.end))
              IN  scan' = [taken EXCEPT !.value = v, !.chunk = SubSeq(@, v.end + 1, Len(@)),
                                        !.phase = IF v.complete THEN "after value" ELSE @]
    /\ UNCHANGED <<config, answer>>

\* finish, after the last chunk or the first error.
Finish ==
    /\ answer = NotSeen /\ Waiting
    /\ scan.phase = "malformed" \/ scan.received = Len(Sent)
    /\ answer' = CASE scan.phase # "finished" -> <<"transport error">>
                   [] scan.phase = "finished" /\ scan.error # NotSeen -> <<"rpc error", scan.error>>
                   [] scan.phase = "finished" /\ scan.error = NotSeen /\ scan.result # NotSeen ->
                        <<"ok", scan.result>>
                   [] OTHER -> <<"transport error">>
    /\ UNCHANGED <<config, scan>>

Init ==
    /\ config \in Responses
    /\ scan = [phase |-> "before object", key |-> <<>>, value |-> NewValue, member |-> "other",
               result |-> NotSeen, error |-> NotSeen, chunk |-> <<>>, received |-> 0]
    /\ answer = NotSeen

Next == Receive \/ Feed \/ Finish
Spec == Init /\ [][Next]_vars
-----------------------------------------------------------------------------
TypeOK ==
    /\ config \in Responses /\ scan.received \in 0 .. Len(Sent)
    /\ Len(scan.key) <= MaxKeyLen /\ (scan.error # NotSeen => Len(scan.error) <= MaxErrorCapture)

Member(name) == {i \in DOMAIN config.members : config.members[i].key = <<name>>}
ValueOf(name) == config.members[Max(Member(name))].value
Complete == Len(Sent) >= Len(Body) - Len(config.gap)

\* However the body is cut into chunks, what is digested is the value of the
\* response's own `error`, or else `result`, byte for byte, and never a member
\* of the same name inside of a value; a body that was cut off is a failure.
DigestIsOfTheAnswer ==
    answer # NotSeen =>
      answer = CASE ~Complete \/ Member("error") \cup Member("result") = {} -> <<"transport error">>
                 [] Complete /\ Member("error") # {} ->
                      <<"rpc error", SubSeq(ValueOf("error"), 1, Min({MaxErrorCapture, Len(ValueOf("error"))}))>>
                 [] OTHER -> <<"ok", ValueOf("result")>>
=============================================================================
