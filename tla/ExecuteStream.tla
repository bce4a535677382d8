--------------------------- MODULE ExecuteStream ----------------------------
(***************************************************************************)
(* One request to POST /agent/execute/stream (agent_server.mjs, with the   *)
(* frames, the latency tracker and the receipts of lib/sse_stream.mjs).    *)
(* The handler sends a frame that opens the stream, runs the agent, sends  *)
(* its result, then a frame that closes it; each step is also told to a    *)
(* file of receipts, which outlives the connection.                        *)
(*                                                                         *)
(* The handler yields to other events only while the agent runs and while  *)
(* it waits for a full socket to drain; the client may leave then.  `gap`  *)
(* is the time since the last frame was handed to the tracker.  `log` is   *)
(* the order of the receipts on file and of the frames the socket took;    *)
(* ids, hashes and byte counts are left out.                               *)
(***************************************************************************)
EXTENDS Integers, Sequences

CONSTANTS
    StallAbort,     \* stallAbortMs of the latency tracker
    DrainTimeout,   \* drainTimeoutMs of a write that waits
    MaxUnwritten    \* bound: appends to the file of receipts that fail

StreamAssumption == {StallAbort, DrainTimeout} \subseteq Nat \ {0} /\ MaxUnwritten \in Nat

VARIABLES
    at,         \* where the handler stands
    frame,      \* the frame it is sending
    terminal,   \* terminalState
    aborted,    \* the client has left: controller.signal.aborted
    ended,      \* res.writableEnded
    gap, result, log, unwritten

streaming == <<at, frame, terminal, aborted, ended, gap, result, log, unwritten>>

Receipt(type, reason) == [kind |-> "receipt", what |-> type, reason |-> reason]
Frame(f) == [kind |-> "frame", what |-> f, reason |-> "written"]
Told(type) == \E i \in DOMAIN log : log[i].kind = "receipt" /\ log[i].what = type
MaxGap == IF StallAbort > DrainTimeout THEN StallAbort ELSE DrainTimeout

TypeOK ==
    /\ at \in {"open", "send", "draining", "running", "over"}
    /\ frame \in {"start", "result", "complete", "error"}
    /\ terminal \in {"open", "aborted", "failed", "completed"}
    /\ aborted \in BOOLEAN /\ ended \in BOOLEAN /\ gap \in 0 .. MaxGap
    /\ result \in {"none", "accepted", "rejected", "thrown"}
    /\ unwritten \in 0 .. MaxUnwritten

Init ==
    /\ at = "open" /\ frame = "start" /\ terminal = "open" /\ result = "none"
    /\ aborted = FALSE /\ ended = FALSE /\ gap = 0 /\ log = <<>> /\ unwritten = 0

(* persistStreamReceipt swallows an append that fails, and the stream goes *)
(* on: of the one or two `entries` each receipt may be lost, the frames are*)
(* the socket's affair.                                                    *)
Parts(entries) == {entries, <<>>} \cup {<<entries[i]>> : i \in DOMAIN entries}
Records(entries) ==
    \E kept \in Parts(entries) :
        /\ \A i \in DOMAIN entries :
              entries[i].kind = "frame" => \E j \in DOMAIN kept : kept[j] = entries[i]
        /\ log' = log \o kept
        /\ unwritten' = unwritten + Len(entries) - Len(kept) /\ unwritten' <= MaxUnwritten

PartialFailure(reason) == Receipt("stream_partial_failure", reason)

(* What follows a frame that went out, after the entries `before`.         *)
Proceed(before) ==
    \/ /\ frame = "start" /\ at' = "running"
       /\ Records(before) /\ UNCHANGED <<frame, terminal, ended>>
    \/ /\ frame = "result" /\ at' = "send" /\ frame' = "complete"
       /\ Records(Append(before,
             Receipt("stream_complete", IF result = "accepted" THEN "result_emitted"
                                        ELSE "agent_execute_rejected")))
       /\ UNCHANGED <<terminal, ended>>
    \/ /\ frame \in {"complete", "error"} /\ at' = "over" /\ ended' = TRUE
       /\ terminal' = IF frame = "complete" THEN "completed" ELSE "failed"
       /\ Records(before) /\ UNCHANGED frame

ProceedRegardless(status, before) == Proceed(before)
TellEveryFailure(status, before) ==
    /\ frame \in {"result", "complete"} /\ at' = "over" /\ ended' = TRUE /\ UNCHANGED frame
    /\ terminal' = "failed" /\ Records(Append(before, PartialFailure(status)))

(* What follows a frame that did not go out, for the reason `status`: only *)
(* the result's failure is told; that of the closing frame is not looked at. *)
GiveUp(status, before) ==
    \/ /\ frame \in {"start", "result"} /\ at' = "over" /\ ended' = TRUE /\ UNCHANGED frame
       /\ terminal' = IF status = "frame_too_large" THEN "failed" ELSE "aborted"
       /\ Records(IF frame = "start" THEN before ELSE Append(before, PartialFailure(
             IF status = "stream_stall_timeout" THEN "stream_execution_failed" ELSE status)))
    \/ frame \in {"complete", "error"} /\ Proceed(before)

-----------------------------------------------------------------------------
(* writeReceiptEvent of stream_start: the receipt first, then its frame.   *)
Open ==
    /\ at = "open" /\ at' = "send"
    /\ Records(<<Receipt("stream_start", "request_accepted")>>)
    /\ UNCHANGED <<frame, terminal, aborted, ended, gap, result>>

(* writeEvent writes only to a stream that is open; the handler never asks *)
(* for more, since it looks at the signal whenever the agent has run.      *)
Sending == at = "send" /\ ~aborted /\ ~ended /\ terminal = "open"

(* The tracker finds the gap since the last frame too long: the stream is  *)
(* failed and ended, and the caller is told that its frame did not go out. *)
Stall ==
    /\ Sending /\ frame # "start" /\ gap >= StallAbort
    /\ GiveUp("stream_stall_timeout", <<PartialFailure("stream_stall_timeout")>>)
    /\ gap' = 0 /\ UNCHANGED <<aborted, result>>

Prompt == frame = "start" \/ gap < StallAbort

(* writeSseFrame: the frame is over the limit or the socket throws.        *)
WriteFails ==
    /\ Sending /\ Prompt /\ gap' = 0
    /\ \E status \in {"frame_too_large", "write_failed"} : GiveUp(status, <<>>)
    /\ UNCHANGED <<aborted, result>>

Written ==
    /\ Sending /\ Prompt /\ gap' = 0
    /\ Proceed(<<Frame(frame)>>)
    /\ UNCHANGED <<aborted, result>>

(* The socket takes the frame and is full: a receipt, and the wait begins. *)
Backpressure ==
    /\ Sending /\ Prompt /\ gap' = 0 /\ at' = "draining"
    /\ Records(<<Receipt("backpressure", "response_buffer_full")>>)
    /\ UNCHANGED <<frame, terminal, aborted, ended, result>>

Drained ==
    /\ at = "draining"
    /\ Proceed(<<Frame(frame)>>) /\ UNCHANGED <<aborted, gap, result>>

NeverTimesOut == FALSE /\ GiveUp("drain_timeout", <<>>)
TimeOut ==
    /\ at = "draining" /\ gap >= DrainTimeout
    /\ GiveUp("drain_timeout", <<>>) /\ UNCHANGED <<aborted, gap, result>>

(* runAgentExecute returns, with or without an error status; an abandoned  *)
(* stream is left as it is.                                                *)
Return ==
    /\ at = "running" /\ result' \in {"accepted", "rejected"}
    /\ IF aborted THEN at' = "over" /\ terminal' = "aborted" /\ UNCHANGED frame
                  ELSE at' = "send" /\ frame' = "result" /\ UNCHANGED terminal
    /\ UNCHANGED <<aborted, ended, gap, log, unwritten>>

(* It throws: a stream that is still open is told so.                      *)
Throw ==
    /\ at = "running" /\ result' = "thrown"
    /\ IF aborted
       THEN at' = "over" /\ terminal' = "failed" /\ UNCHANGED <<frame, log, unwritten>>
       ELSE /\ at' = "send" /\ frame' = "error" /\ UNCHANGED terminal
            /\ Records(<<Receipt("stream_error", "stream_execution_failed")>>)
    /\ UNCHANGED <<aborted, ended, gap>>

Gone == Receipt("client_disconnect", "response_closed")

DisconnectUnheard ==
    /\ at \in {"running", "draining"} /\ ~aborted /\ aborted' = TRUE
    /\ Records(<<Gone>>) /\ UNCHANGED <<at, frame, terminal, ended, gap, result>>

(* The request is aborted or the response closes under the handler: the    *)
(* receipt, the signal, and a write that waits for the socket gives up.    *)
Disconnect ==
    /\ at \in {"running", "draining"} /\ ~aborted /\ aborted' = TRUE
    /\ IF at = "draining" THEN GiveUp("aborted", <<Gone>>)
       ELSE Records(<<Gone>>) /\ UNCHANGED <<at, frame, terminal, ended>>
    /\ UNCHANGED <<gap, result>>

Tick == at \in {"running", "draining"} /\ gap < MaxGap /\ gap' = gap + 1
        /\ UNCHANGED <<at, frame, terminal, aborted, ended, result, log, unwritten>>

Work == Open \/ Stall \/ WriteFails \/ Written \/ Backpressure \/ TimeOut \/ Return \/ Throw
Next == Work \/ Drained \/ Disconnect \/ Tick

Spec == Init /\ [][Next]_streaming /\ WF_streaming(Work) /\ WF_streaming(Tick)

-----------------------------------------------------------------------------
Closing == {"stream_complete", "stream_error", "stream_partial_failure", "client_disconnect"}

(* Once the agent has run, the stream does not end without a receipt that  *)
(* says how, unless an append failed.                                      *)
EndsAreOnRecord ==
    at = "over" /\ result # "none" /\ unwritten = 0 => \E type \in Closing : Told(type)

(* The receipt of a complete stream stands only after its result went out, *)
(* and after the client is gone no frame goes out and nothing is complete. *)
ReceiptsAreInOrder ==
    \A i \in DOMAIN log :
        /\ log[i].what = "stream_complete" =>
              \E j \in 1 .. i - 1 : log[j] = Frame("result")
        /\ log[i] = Gone => \A j \in i + 1 .. Len(log) : log[j].what = "stream_partial_failure"

(* A stream is called a failure twice only when it stalled, or when the    *)
(* client left with the result under way; and after its result went out it *)
(* is called a partial failure only for a stall of the frame that closes.  *)
FailuresAreToldOnce ==
    \A i, j \in DOMAIN log :
        /\ i < j /\ {log[i].what, log[j].what} \subseteq {"stream_partial_failure", "client_disconnect"}
              => log[i] \in {Gone, PartialFailure("stream_stall_timeout")}
        /\ log[i] = Frame("result") /\ log[j].what = "stream_partial_failure"
              => log[j] = PartialFailure("stream_stall_timeout")

(* Whatever the client and the socket do, the handler comes to an end.     *)
Over == at = "over"
=============================================================================
