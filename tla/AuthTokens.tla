------------------------------- MODULE AuthTokens -------------------------------
(***************************************************************************)
(* Sender authentication: auth-token-map (txgen-tempo/auth_token_map.rs)   *)
(* keeps a file of short-lived tokens, one map for all senders, and the    *)
(* SenderHeaderAuthProvider of the sending process (bench-core/auth.rs)    *)
(* reloads it while requests are being made.  The file is the only thing   *)
(* the processes share.                                                    *)
(***************************************************************************)
EXTENDS Integers, FiniteSets

CONSTANTS
    AuthSetups,     \* the settings to check
    Requesters,       \* threads that make authenticated requests
    MaxTime,        \* bound: seconds
    MaxLate,        \* bound: seconds in which somebody is held up
    MaxFailures,    \* bound: I/O errors of the writers
    MaxMeddling,    \* bound: changes of the file by somebody else
    MaxRetry        \* MAX_RETRY_SECS

(* A setting: writers: [id -> [watch, force]], ttl, lead                   *)
(* (refresh_before_secs), reload (reload_interval), and the file at the    *)
(* start: "none", "map" or "link".                                         *)
SetupAssumption ==
    /\ MaxRetry \in Nat \ {0}
    /\ \A s \in AuthSetups : /\ {s.ttl, s.lead, s.reload} \subseteq Nat /\ s.lead < s.ttl /\ s.reload > 0
                             /\ IsFiniteSet(DOMAIN s.writers)

VARIABLES
    config,
    now,
    late,       \* seconds in which somebody was held up
    file,       \* what the path names: [kind, stamp, map]
    writer,     \* the processes that write the map
    provider,   \* SenderHeaderAuthProvider: off, or its active map
    request,    \* what each thread is doing
    outside     \* what is not the program's: failures, meddling, stamps so far

Absent == [kind |-> "none", stamp |-> 0, expires |-> 0]
Writers == DOMAIN config.writers
Replaces(w) == config.writers[w].watch \/ config.writers[w].force
-----------------------------------------------------------------------------
(* auth-token-map                                                          *)

\* inspect_destination
DestinationIsFine(w) == file.kind = "none" \/ (file.kind \in {"map", "malformed"} /\ Replaces(w))

\* fault: the map is only renewed when it has expired
RefreshAtExpiry(expires) == expires

RefreshAt(expires) == expires - config.lead

\* Each kind of writer after an error.  The temporary file is removed.
AfterFailure(w) ==
    IF config.writers[w].watch /\ writer[w].published
      THEN [writer[w] EXCEPT !.at = "retry", !.due = now + writer[w].retry,
                             !.retry = IF 2 * @ > MaxRetry THEN MaxRetry ELSE 2 * @]
      ELSE [writer[w] EXCEPT !.at = "failed"]

\* generate_and_write: issued_at is read, the tokens are signed, the temporary
\* file is created.
Generate(w) ==
    /\ writer[w].at \in {"start", "wait"} /\ writer[w].due <= now
    /\ writer' = [writer EXCEPT ![w] = IF DestinationIsFine(w)
                                         THEN [@ EXCEPT !.at = "written", !.issued = now] ELSE AfterFailure(w)]
    /\ UNCHANGED <<config, now, late, file, provider, request, outside>>

\* After the write: the second inspect_destination, validate_publish_time.
Check(w) ==
    /\ writer[w].at = "written"
    /\ writer' = [writer EXCEPT ![w] = IF DestinationIsFine(w) /\ now < @.issued + config.ttl
                                         THEN [@ EXCEPT !.at = "checked"] ELSE AfterFailure(w)]
    /\ UNCHANGED <<config, now, late, file, provider, request, outside>>

\* fault: the no-replace path trusts the inspection
CanPublishOver(w) == TRUE

\* rename, or a rename that fails if the destination exists
CanPublish(w) == Replaces(w) \/ file.kind = "none"

Publish(w) ==
    LET expires == writer[w].issued + config.ttl
    IN  /\ writer[w].at = "checked"
        /\ IF CanPublish(w)
             THEN /\ file' = [kind |-> "map", stamp |-> outside.stamps + 1, expires |-> expires]
                  /\ outside' = [outside EXCEPT !.stamps = @ + 1]
                  /\ writer' = [writer EXCEPT ![w] =
                        [@ EXCEPT !.at = IF config.writers[w].watch THEN "wait" ELSE "done", !.published = TRUE,
                                  !.due = RefreshAt(expires), !.retry = 1, !.issued = 0]]
             ELSE writer' = [writer EXCEPT ![w] = AfterFailure(w)] /\ UNCHANGED <<file, outside>>
        /\ UNCHANGED <<config, now, late, provider, request>>

\* An error of the file system, or of the directory.
WriteFails(w) ==
    /\ writer[w].at \in {"written", "checked"} /\ outside.failures < MaxFailures
    /\ writer' = [writer EXCEPT ![w] = AfterFailure(w)]
    /\ outside' = [outside EXCEPT !.failures = @ + 1]
    /\ UNCHANGED <<config, now, late, file, provider, request>>

\* The end of the wait after a failure; the refresh is overdue by then.
Retry(w) ==
    /\ writer[w].at = "retry" /\ writer[w].due <= now
    /\ writer' = [writer EXCEPT ![w].at = "wait"]
    /\ UNCHANGED <<config, now, late, file, provider, request, outside>>

\* A signal is looked at before the first map and in both waits.
Shutdown(w) ==
    /\ config.writers[w].watch /\ writer[w].at \in {"start", "wait", "retry"}
    /\ writer' = [writer EXCEPT ![w].at = "stopped"]
    /\ UNCHANGED <<config, now, late, file, provider, request, outside>>
-----------------------------------------------------------------------------
(* SenderHeaderAuthProvider                                                *)

\* from_file; without a valid map the process does not start.
Load ==
    /\ provider.at = "off" /\ file.kind = "map"
    /\ provider' = [at |-> "on", expires |-> file.expires, stamp |-> file.stamp, next |-> now + config.reload, lock |-> FALSE]
    /\ UNCHANGED <<config, now, late, file, writer, request, outside>>

\* maybe_reload: the file is opened by the thread that gets the lock and finds
\* a check due; the handle stays with what the path named then.
OpenFile(r) ==
    /\ provider.at = "on" /\ request[r].at = "idle"
    /\ IF provider.lock \/ now < provider.next
         THEN request' = [request EXCEPT ![r].at = "headers"] /\ UNCHANGED provider
         ELSE LET changed == file.kind \in {"map", "malformed"} /\ file.stamp # provider.stamp
              IN  /\ provider' = [provider EXCEPT !.next = now + config.reload, !.lock = changed]
                  /\ request' = [request EXCEPT ![r] = IF changed THEN [at |-> "reading", handle |-> file]
                                                                  ELSE [@ EXCEPT !.at = "headers"]]
    /\ UNCHANGED <<config, now, late, file, writer, outside>>

\* fault: what cannot be parsed replaces the active map too
ReadIntoActive(handle) == [provider EXCEPT !.expires = handle.expires, !.stamp = handle.stamp, !.lock = FALSE]

\* read_sender_map: what cannot be parsed leaves the active map as it is.
ReadInto(handle) ==
    IF handle.kind = "map"
      THEN [provider EXCEPT !.expires = handle.expires, !.stamp = handle.stamp, !.lock = FALSE]
      ELSE [provider EXCEPT !.lock = FALSE]

ReadFile(r) ==
    /\ request[r].at = "reading"
    /\ provider' = ReadInto(request[r].handle)
    /\ request' = [request EXCEPT ![r] = [at |-> "headers", handle |-> Absent]]
    /\ UNCHANGED <<config, now, late, file, writer, outside>>

\* headers_for: the value of the sender in the active map.
TakeHeader(r) ==
    /\ request[r].at = "headers"
    /\ request' = [request EXCEPT ![r].at = "idle"]
    /\ UNCHANGED <<config, now, late, file, writer, provider, outside>>
-----------------------------------------------------------------------------
(* Others                                                                  *)

\* Somebody puts another file in place, or takes it away.
Meddle ==
    /\ outside.meddling < MaxMeddling
    /\ \/ file' = [kind |-> "malformed", stamp |-> outside.stamps + 1, expires |-> 0]
       \/ file.kind # "none" /\ file' = Absent
    /\ outside' = [outside EXCEPT !.meddling = @ + 1, !.stamps = @ + 1]
    /\ UNCHANGED <<config, now, late, writer, provider, request>>

\* A second is late if it passes while a process could go on, or waits to try
\* again.
Punctual ==
    /\ \A w \in Writers : IF config.writers[w].watch THEN writer[w].at = "wait" /\ now < writer[w].due
                          ELSE writer[w].at \in {"done", "failed"}
    /\ \A r \in Requesters : request[r].at = "idle"

Tick ==
    /\ now < MaxTime /\ (Punctual \/ late < MaxLate)
    /\ now' = now + 1 /\ late' = IF Punctual THEN late ELSE late + 1
    /\ UNCHANGED <<config, file, writer, provider, request, outside>>

Init ==
    /\ config \in AuthSetups
    /\ now = 0 /\ late = 0
    /\ file = CASE config.start = "none" -> Absent
                [] config.start = "map" -> [kind |-> "map", stamp |-> 1, expires |-> config.ttl]
                [] OTHER -> [Absent EXCEPT !.kind = "link"]
    /\ writer = [w \in DOMAIN config.writers |->
                   [at |-> "start", due |-> 0, retry |-> 1, issued |-> 0, published |-> FALSE]]
    /\ provider = [at |-> "off", expires |-> 0, stamp |-> 0, next |-> 0, lock |-> FALSE]
    /\ request = [r \in Requesters |-> [at |-> "idle", handle |-> Absent]]
    /\ outside = [failures |-> 0, meddling |-> 0, stamps |-> 1]

vars == <<config, now, late, file, writer, provider, request, outside>>
Next ==
    \/ \E w \in DOMAIN config.writers :
         Generate(w) \/ Check(w) \/ Publish(w) \/ WriteFails(w) \/ Retry(w) \/ Shutdown(w)
    \/ \E r \in Requesters : OpenFile(r) \/ ReadFile(r) \/ TakeHeader(r)
    \/ Load \/ Meddle \/ Tick
Spec == Init /\ [][Next]_vars
-----------------------------------------------------------------------------
TypeOK ==
    /\ now \in 0 .. MaxTime /\ late \in 0 .. MaxLate
    /\ \A w \in Writers : writer[w].at \in {"start", "written", "checked", "wait", "retry", "done", "failed", "stopped"}
                            /\ writer[w].retry \in 1 .. MaxRetry
    /\ provider.lock = (\E r \in Requesters : request[r].at = "reading")

\* With a watching writer, a token is used no later than one reload interval
\* after it was to be renewed, but for the time somebody was held up: with a
\* lead of at least that interval no request goes out with an expired token.
\* Excepted is a request made while another thread reads the file: it does not
\* wait, and uses a map that may be as old as the last request.  When somebody
\* spoils the file, the last valid map at least stays active.
TokensAreRenewed ==
    /\ provider.at = "on" => provider.expires >= config.ttl
    /\ (\E w \in Writers : config.writers[w].watch) /\ outside.meddling = 0 /\ ~provider.lock =>
      \A r \in Requesters : request[r].at = "headers" => now < provider.expires - config.lead + config.reload + late

\* Writers that may not replace a file never do, whatever runs beside them:
\* one of them succeeds, if no file was there and nobody takes it away.
NothingIsClobbered ==
    Cardinality({w \in Writers : writer[w].published /\ ~Replaces(w)})
      <= outside.meddling + (IF config.start = "none" THEN 1 ELSE 0)
=============================================================================
