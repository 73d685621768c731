----------------------------- MODULE BodyStream -----------------------------
(***************************************************************************)
(* src/server/utils/stream-utils.ts and idle-timeout.ts: the stream body   *)
(* of one upload, teed once for each readBytes() of a validator            *)
(* (validation.service.ts), then read by the uploader, through the idle    *)
(* guard on the multipart path, or into a buffer before a pre-upload scan. *)
(*                                                                         *)
(* Stream 0 is the caller's source, stream i the PassThrough that replaces *)
(* it after the i-th peek. Byte n of the source is the number n. Events    *)
(* are steps of their own: between any two of them something else may run. *)
(***************************************************************************)
EXTENDS Integers, Sequences

CONSTANTS
    Peeks,          \* the maxBytes of the readBytes() calls, in order
    Sinks,          \* who may read the body: "guarded", "plain" or "buffer"
    High,           \* highWaterMark of a PassThrough
    Limit,          \* validation.maxSizeBytes
    IdleMs,         \* multipart.uploadIdleTimeoutMs, in ticks
    MaxChunk,       \* bound: bytes in one chunk
    MaxBytes        \* bound: bytes of the source

ASSUME BodyAssumption ==
    /\ Peeks \subseteq Seq(Nat)
    /\ Sinks \subseteq {"guarded", "plain", "buffer"}
    /\ {High, IdleMs, MaxChunk} \subseteq Nat \ {0}
    /\ {Limit, MaxBytes} \subseteq Nat

VARIABLES
    want,       \* the peeks of this upload
    sink,       \* who reads its body
    stage,      \* of the upload: "peeking", "uploading", "done", "failed"
    tees,       \* peeks begun so far
    produced,   \* bytes the source has delivered
    status,     \* per stream: "open", "ended", "errored", "destroyed"
    writing,    \* per stream: bytes written to it and not yet transformed
    reading,    \* per stream: bytes to be read
    needDrain,  \* per stream: a write was told to wait
    paused,     \* per stream: its tee waits for "drain"
    sourceEnded,\* per stream: its tee has seen "end"
    head,       \* per stream: what its peek got
    peek,       \* per stream: "open", "closed"
    received,   \* bytes the sink has taken
    asking,     \* the sink waits for a chunk
    waited,     \* for how long, since the last one
    fresh,      \* something came from the source since the last tick
    cut         \* the idle guard gave up

vars == <<want, sink, stage, tees, produced, status, writing, reading, needDrain, paused,
          sourceEnded, head, peek, received, asking, waited, fresh, cut>>
service == <<want, sink, stage, tees>>
flow == <<needDrain, paused>>
reader == <<received, asking, waited, cut>>

Streams == 0..Len(want)

Init ==
    /\ want \in Peeks /\ sink \in Sinks
    /\ stage = IF want = <<>> THEN "uploading" ELSE "peeking"
    /\ tees = IF want = <<>> THEN 0 ELSE 1
    /\ produced = 0
    /\ status = [i \in Streams |-> "open"]
    /\ writing = [i \in Streams |-> <<>>] /\ reading = [i \in Streams |-> <<>>]
    /\ needDrain = [i \in Streams |-> FALSE] /\ paused = [i \in Streams |-> FALSE]
    /\ sourceEnded = [i \in Streams |-> FALSE]
    /\ head = [i \in Streams |-> <<>>] /\ peek = [i \in Streams |-> "open"]
    /\ received = <<>> /\ asking = FALSE /\ waited = 0 /\ fresh = FALSE /\ cut = FALSE
-----------------------------------------------------------------------------
Smaller(a, b) == IF a <= b THEN a ELSE b
Alive(i) == status[i] \in {"open", "ended"}
Emptied(i) == status[i] = "ended" /\ reading[i] = <<>> /\ writing[i] = <<>>

\* The streams of a set are destroyed, what they hold is lost.
Destroyed(dead, how) ==
    /\ status' = [i \in Streams |-> IF i \in dead /\ Alive(i) THEN how ELSE status[i]]
    /\ reading' = [i \in Streams |-> IF i \in dead THEN <<>> ELSE reading[i]]
    /\ writing' = [i \in Streams |-> IF i \in dead THEN <<>> ELSE writing[i]]

\* The source: the caller's.
Produce ==
    /\ status[0] = "open" /\ produced < MaxBytes
    /\ \E n \in 1..Smaller(MaxChunk, MaxBytes - produced) :
           /\ produced' = produced + n
           /\ reading' = [reading EXCEPT ![0] = @ \o [k \in 1..n |-> produced + k]]
    /\ fresh' = TRUE
    /\ UNCHANGED <<service, status, writing, flow, sourceEnded, head, peek, reader>>

SourceEnds ==
    /\ status[0] = "open"
    /\ status' = [status EXCEPT ![0] = "ended"]
    /\ fresh' = TRUE
    /\ UNCHANGED <<service, produced, writing, reading, flow, sourceEnded, head, peek, reader>>

\* With an error, or without one: then only "close" is emitted.
SourceBreaks ==
    /\ status[0] = "open"
    /\ \E how \in {"errored", "destroyed"} : Destroyed({0}, how)
    /\ fresh' = TRUE
    /\ UNCHANGED <<service, produced, flow, sourceEnded, head, peek, reader>>

\* A PassThrough moves bytes from its writable to its readable side, and emits
\* "drain" once the writable side is empty. Fault: nobody listens.
ResumeNever(i) == UNCHANGED paused
Resume(i) == paused' = [paused EXCEPT ![i] = FALSE]

TransformReady(i) == i > 0 /\ Alive(i) /\ writing[i] # <<>> /\ Len(reading[i]) < High

Transform(i) ==
    /\ TransformReady(i)
    /\ \E n \in 1..Smaller(MaxChunk, Len(writing[i])) :
           /\ reading' = [reading EXCEPT ![i] = @ \o SubSeq(writing[i], 1, n)]
           /\ writing' = [writing EXCEPT ![i] = SubSeq(@, n + 1, Len(@))]
    /\ IF writing'[i] = <<>> /\ needDrain[i]
       THEN needDrain' = [needDrain EXCEPT ![i] = FALSE] /\ Resume(i)
       ELSE UNCHANGED flow
    /\ UNCHANGED <<service, produced, status, sourceEnded, head, peek, reader, fresh>>
-----------------------------------------------------------------------------
\* teeAndPeek(): the handlers of the stream before stream i. Fault: the slice
\* is not cut to what is still wanted.
SliceOfChunk(i, chunk) == SubSeq(chunk, 1, Smaller(Len(chunk), want[i]))
Slice(i, chunk) == SubSeq(chunk, 1, Smaller(Len(chunk), want[i] - Len(head[i])))

\* Fault: a full stream does not hold back the source.
MustPauseNever(i, full) == FALSE
MustPause(i, full) == full /\ peek'[i] = "closed"

DataReady(i) == ~paused[i] /\ Alive(i - 1) /\ reading[i - 1] # <<>>

\* A chunk written to a stream that is gone is dropped. Fault: it is kept.
WritableAlways(i) == TRUE
Writable(i) == status[i] = "open"

Data(i) ==
    /\ DataReady(i)
    /\ \E n \in 1..Smaller(MaxChunk, Len(reading[i - 1])) :
           LET chunk == SubSeq(reading[i - 1], 1, n)
               open == Writable(i)
               full == open /\ Len(writing[i]) + n >= High
           IN  /\ head' = IF Len(head[i]) < want[i]
                          THEN [head EXCEPT ![i] = @ \o Slice(i, chunk)] ELSE head
               /\ peek' = IF Len(head[i]) < want[i] /\ Len(head'[i]) >= want[i]
                          THEN [peek EXCEPT ![i] = "closed"] ELSE peek
               /\ reading' = [reading EXCEPT ![i - 1] = SubSeq(@, n + 1, Len(@))]
               /\ writing' = IF open THEN [writing EXCEPT ![i] = @ \o chunk] ELSE writing
               /\ needDrain' = [needDrain EXCEPT ![i] = @ \/ full]
               /\ paused' = [paused EXCEPT ![i] = MustPause(i, full)]
    /\ UNCHANGED <<service, produced, status, sourceEnded, reader, fresh>>

EndReady(i) == ~paused[i] /\ ~sourceEnded[i] /\ Emptied(i - 1)

End(i) ==
    /\ EndReady(i)
    /\ sourceEnded' = [sourceEnded EXCEPT ![i] = TRUE]
    /\ peek' = [peek EXCEPT ![i] = "closed"]
    /\ status' = [status EXCEPT ![i] = IF @ = "open" THEN "ended" ELSE @]
    /\ UNCHANGED <<service, produced, writing, reading, flow, head, reader, fresh>>

\* Fault: an error looks like the end of the body.
FailAsEnd(i) ==
    /\ status' = [status EXCEPT ![i] = IF @ = "open" THEN "ended" ELSE @]
    /\ UNCHANGED <<reading, writing>>
Fail(i) == Destroyed({i}, "errored")

ErrorReady(i) == status[i - 1] = "errored" /\ (Alive(i) \/ peek[i] = "open")

Error(i) ==
    /\ ErrorReady(i)
    /\ peek' = [peek EXCEPT ![i] = "closed"]
    /\ Fail(i)
    /\ UNCHANGED <<service, produced, flow, sourceEnded, head, reader, fresh>>

\* releaseSourceOnEarlyClose(). Fault: the condition is the wrong way round.
CloseReadyAfterEnd(i) == ~Alive(i) /\ sourceEnded[i] /\ Alive(i - 1)
CloseReady(i) == ~Alive(i) /\ ~sourceEnded[i] /\ Alive(i - 1)

Close(i) ==
    /\ CloseReady(i)
    /\ Destroyed({i - 1}, "destroyed")
    /\ UNCHANGED <<service, produced, flow, sourceEnded, head, peek, reader, fresh>>
-----------------------------------------------------------------------------
\* The validator has its bytes: it peeks again, or accepts.
Accept ==
    /\ stage = "peeking" /\ peek[tees] = "closed"
    /\ IF tees < Len(want) THEN tees' = tees + 1 /\ UNCHANGED stage
       ELSE stage' = "uploading" /\ UNCHANGED tees
    /\ UNCHANGED <<want, sink, produced, status, writing, reading, flow, sourceEnded, head, peek,
                   reader, fresh>>

\* It refuses the body: upload() destroys the source.
Reject ==
    /\ stage = "peeking" /\ peek[tees] = "closed"
    /\ stage' = "failed"
    /\ Destroyed({0}, "destroyed")
    /\ UNCHANGED <<want, sink, tees, produced, flow, sourceEnded, head, peek, reader, fresh>>

\* The sink asks for a chunk: with no read-ahead, that is when the guard reads.
Ask ==
    /\ stage = "uploading" /\ ~asking
    /\ asking' = TRUE
    /\ UNCHANGED <<service, produced, status, writing, reading, flow, sourceEnded, head, peek,
                   received, waited, fresh, cut>>

TakeReady == asking /\ Alive(tees) /\ reading[tees] # <<>>

\* readStreamUpTo() leaves its loop at the first chunk past the limit; leaving
\* it destroys the stream.
Fits(n) == Len(received) + n <= Limit

Take ==
    /\ TakeReady
    /\ asking' = FALSE /\ waited' = 0
    /\ \E n \in 1..Smaller(MaxChunk, Len(reading[tees])) :
           IF sink = "buffer" /\ ~Fits(n)
           THEN /\ stage' = "failed" /\ Destroyed({tees}, "destroyed")
                /\ UNCHANGED received
           ELSE /\ received' = received \o SubSeq(reading[tees], 1, n)
                /\ reading' = [reading EXCEPT ![tees] = SubSeq(@, n + 1, Len(@))]
                /\ UNCHANGED <<stage, status, writing>>
    /\ UNCHANGED <<want, sink, tees, produced, flow, sourceEnded, head, peek, fresh, cut>>

FinishReady == asking /\ Emptied(tees)

Finish ==
    /\ FinishReady
    /\ stage' = "done" /\ asking' = FALSE
    /\ UNCHANGED <<want, sink, tees, produced, status, writing, reading, flow, sourceEnded, head,
                   peek, received, waited, fresh, cut>>

\* The body fails under the sink, or the upload fails under it. The guard and
\* the reading loop destroy the stream they read; otherwise upload() destroys
\* the source.
BreakReady == asking /\ ~Alive(tees)

GiveUp ==
    /\ stage = "uploading"
    /\ stage' = "failed" /\ asking' = FALSE
    /\ Destroyed({IF sink = "plain" THEN 0 ELSE tees}, "destroyed")
    /\ UNCHANGED <<want, sink, tees, produced, flow, sourceEnded, head, peek, received, waited,
                   fresh, cut>>

Break == BreakReady /\ GiveUp

UploadFails == sink # "buffer" /\ GiveUp

\* withIdleTimeout(). Fault: the clock runs for bytes nobody has asked for.
WaitsAlways == TRUE
Waits == asking

Quiet ==
    /\ \A i \in 1..tees : ~(DataReady(i) \/ EndReady(i) \/ ErrorReady(i) \/ CloseReady(i))
    /\ \A i \in Streams : ~TransformReady(i)
    /\ ~(TakeReady \/ FinishReady \/ BreakReady)

\* Node's own work takes no time: the clock moves while all wait.
Tick ==
    /\ sink = "guarded" /\ stage = "uploading" /\ Quiet
    /\ Waits /\ waited < IdleMs
    /\ waited' = waited + 1 /\ fresh' = FALSE
    /\ UNCHANGED <<service, produced, status, writing, reading, flow, sourceEnded, head, peek,
                   received, asking, cut>>

TimeOut ==
    /\ asking /\ waited = IdleMs
    /\ cut' = TRUE /\ asking' = FALSE /\ stage' = "failed"
    /\ Destroyed({tees}, "destroyed")
    /\ UNCHANGED <<want, sink, tees, produced, flow, sourceEnded, head, peek, received, waited, fresh>>

Library ==
    \/ \E i \in 1..tees : Data(i) \/ End(i) \/ Error(i) \/ Close(i)
    \/ \E i \in Streams : Transform(i)
    \/ Take \/ Finish \/ Break \/ Tick \/ TimeOut

Next == Produce \/ SourceEnds \/ SourceBreaks \/ Accept \/ Reject \/ Ask \/ UploadFails \/ Library

\* Node runs its events, the uploader reads on and validators settle. Of the
\* source nothing is assumed.
Spec == Init /\ [][Next]_vars /\ WF_vars(Library) /\ WF_vars(Ask) /\ WF_vars(Accept)
-----------------------------------------------------------------------------
\* What a stream holds, the oldest byte first, and the n bytes of the source
\* that come after its first m.
Held(i) == reading[i] \o writing[i]
Bytes(m, n) == [k \in 1..n |-> m + k]
UpTo(n) == Bytes(0, n)

TypeOK ==
    /\ stage \in {"peeking", "uploading", "done", "failed"}
    /\ tees \in Streams
    /\ \A i \in Streams :
           /\ status[i] \in {"open", "ended", "errored", "destroyed"}
           /\ ~Alive(i) => Held(i) = <<>>
           /\ i > tees => Held(i) = <<>> /\ head[i] = <<>>
    /\ waited \in 0..IdleMs /\ (waited > 0 => sink = "guarded")
    /\ produced \in 0..MaxBytes

(* The upload sends each byte of the source once and in order, however often *)
(* the body was teed, and is complete only if the source ended: an error     *)
(* never passes for the end of the file. teeAndPeek(), withIdleTimeout().    *)
BytesInOrder ==
    /\ received = UpTo(Len(received))
    /\ (\A i \in 0..tees : Alive(i)) =>
           \E taken \in [0..tees -> 0..produced] :
               /\ taken[tees] = Len(received)
               /\ \A i \in 0..tees :
                      LET given == IF i = 0 THEN produced ELSE taken[i - 1]
                      IN  taken[i] <= given /\ Held(i) = Bytes(taken[i], given - taken[i])
    /\ stage = "done" => status[0] = "ended" /\ Len(received) = produced
    /\ sink = "buffer" => Len(received) <= Limit

(* Each validator gets the first bytes of the body, as many as it asked for  *)
(* or as there are, and none is taken from the upload: readBytes().          *)
HeadsAreFirst ==
    \A i \in 1..tees :
        /\ head[i] = UpTo(Len(head[i])) /\ Len(head[i]) <= want[i]
        /\ peek[i] = "closed" =>
               \/ Len(head[i]) = want[i]
               \/ sourceEnded[i] /\ Len(head[i]) = produced
               \/ status[i - 1] = "errored"

(* A tee holds a bounded part of the body, however long that is and however  *)
(* slow the upload: the peeked bytes, a high-water mark and a chunk. A       *)
(* readBytes(0) is excepted: its peek is closed by the end of the body only. *)
MemoryBounded ==
    \A i \in 1..tees : want[i] > 0 =>
        Len(writing[i]) < MaxChunk + (IF want[i] > High THEN want[i] ELSE High)

(* The idle guard gives up on a source only when the uploader has taken all  *)
(* that it delivered: a slow uploader never makes a live source look silent. *)
(* What comes at the very moment the time is up may be lost.                 *)
CutOnlyWhenSilent ==
    [][ cut' /\ ~cut => \/ fresh
                        \/ /\ \A i \in 0..tees : Held(i) = <<>>
                           /\ status[0] \in {"open", "destroyed"} ]_vars

(* An upload whose source ends or fails settles, and under the idle guard    *)
(* every upload does: a source that is held back is always let go again.     *)
Settles ==
    /\ (status[0] \in {"ended", "errored"}) ~> (stage \in {"done", "failed"})
    /\ (stage = "uploading" /\ sink = "guarded") ~> (stage \in {"done", "failed"})

(* A sink that gives up on the last stream of the chain releases the source  *)
(* at its other end: releaseSourceOnEarlyClose().                            *)
SourceIsReleased == (stage = "failed") ~> (status[0] # "open")
=============================================================================
