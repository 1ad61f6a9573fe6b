---------------------------- MODULE ResponseBody ----------------------------
(***************************************************************************)
(* observedBody (pkg/httpdebug): the body of a traced response.  It keeps  *)
(* what its reader reads, prints it if that was all of it, and names the   *)
(* reason otherwise.  Read and Close may run at the same time; the source  *)
(* is read and closed without the mutex, so that a close can end a read    *)
(* that blocks.  The source is external: it delivers its bytes, fails, or  *)
(* hangs, and once closed it lets go of a read.                            *)
(***************************************************************************)
EXTENDS Naturals

CONSTANTS
    Closers,       \* goroutines that close the body
    Lengths,       \* lengths a body may have
    captureLimit   \* bytes kept at most

MaxLength == CHOOSE n \in Lengths : \A k \in Lengths : k <= n

VARIABLES
    source,     \* the length, how much is delivered, and its state
    observed,   \* b.expected, b.total, b.data, b.done
    reader,     \* the goroutine that reads
    closer,     \* closer[k]: a goroutine that closes
    logged      \* the messages about this body

vars == <<source, observed, reader, closer, logged>>

Messages == [kept : 0 .. MaxLength, printed : BOOLEAN]
None == [kept |-> 0, printed |-> FALSE]

TypeOK ==
    /\ source \in [length : Lengths, read : 0 .. MaxLength, is : {"open", "failed", "closed"}]
    /\ observed \in [expected : {"known", "unknown"}, total : 0 .. MaxLength,
                     data : 0 .. captureLimit, done : BOOLEAN]
    /\ reader \in [at : {"idle", "reading", "section", "log", "over"}, n : 0 .. MaxLength,
                   err : {"nil", "EOF", "error"}, message : Messages]
    /\ closer \in [Closers -> [at : {"idle", "closing", "section", "log", "over"}, err : BOOLEAN,
                               message : Messages]]
    /\ logged \subseteq [by : {"reader"} \cup Closers, message : Messages]

-----------------------------------------------------------------------------
Init ==
    /\ source \in [length : Lengths, read : {0}, is : {"open"}]
    /\ observed \in [expected : {"known", "unknown"}, total : {0}, data : {0}, done : {FALSE}]
    /\ reader = [at |-> "idle", n |-> 0, err |-> "nil", message |-> None]
    /\ closer = [k \in Closers |-> [at |-> "idle", err |-> FALSE, message |-> None]]
    /\ logged = {}

(* Read: the call of the source, and what it returns.                      *)
Read ==
    /\ reader.at = "idle"
    /\ reader' = [reader EXCEPT !.at = "reading"]
    /\ UNCHANGED <<source, observed, closer, logged>>

ReadReturns ==
    /\ reader.at = "reading"
    /\ \E n \in 0 .. (source.length - source.read), err \in {"nil", "EOF", "error"} :
        /\ err = "EOF" => source.is # "failed" /\ source.read + n = source.length
        /\ source.is # "open" => err # "nil"
        /\ source.is = "failed" => err = "error" /\ n = 0
        /\ source' = [source EXCEPT !.read = @ + n,
                          !.is = IF err = "error" /\ @ = "open" THEN "failed" ELSE @]
        /\ reader' = [reader EXCEPT !.at = "section", !.n = n, !.err = err]
    /\ UNCHANGED <<observed, closer, logged>>

(* finish: the message, if there is none yet.                              *)
Finish(complete, data) == [kept |-> IF complete THEN data ELSE 0, printed |-> complete]
Finished == [observed EXCEPT !.data = 0, !.done = TRUE]

AfterRead == IF reader.err = "nil" THEN "idle" ELSE "over"

(* Mutant: the limit is compared before the bytes are added.               *)
ReadSectionLate ==
    /\ reader.at = "section"
    /\ LET total == observed.total + reader.n IN
       IF observed.done
       THEN reader' = [reader EXCEPT !.at = AfterRead] /\ UNCHANGED observed
       ELSE IF observed.total > captureLimit
       THEN /\ observed' = [Finished EXCEPT !.total = total]
            /\ reader' = [reader EXCEPT !.at = "log", !.message = Finish(FALSE, 0)]
       ELSE IF reader.err = "nil"
       THEN /\ observed' = [observed EXCEPT !.total = total, !.data = total]
            /\ reader' = [reader EXCEPT !.at = "idle"]
       ELSE /\ observed' = [Finished EXCEPT !.total = total]
            /\ reader' = [reader EXCEPT !.at = "log",
                                        !.message = Finish(reader.err = "EOF", total)]
    /\ UNCHANGED <<source, closer, logged>>

(* Read: its section under the mutex.                                      *)
ReadSection ==
    /\ reader.at = "section"
    /\ LET total == observed.total + reader.n IN
       IF observed.done
       THEN reader' = [reader EXCEPT !.at = AfterRead] /\ UNCHANGED observed
       ELSE IF total > captureLimit
       THEN /\ observed' = [Finished EXCEPT !.total = total]
            /\ reader' = [reader EXCEPT !.at = "log", !.message = Finish(FALSE, 0)]
       ELSE IF reader.err = "nil"
       THEN /\ observed' = [observed EXCEPT !.total = total, !.data = total]
            /\ reader' = [reader EXCEPT !.at = "idle"]
       ELSE /\ observed' = [Finished EXCEPT !.total = total]
            /\ reader' = [reader EXCEPT !.at = "log",
                                        !.message = Finish(reader.err = "EOF", total)]
    /\ UNCHANGED <<source, closer, logged>>

ReadLogs ==
    /\ reader.at = "log"
    /\ logged' = logged \cup {[by |-> "reader", message |-> reader.message]}
    /\ reader' = [reader EXCEPT !.at = AfterRead]
    /\ UNCHANGED <<source, observed, closer>>

ReaderStops ==
    /\ reader.at = "idle"
    /\ reader' = [reader EXCEPT !.at = "over"]
    /\ UNCHANGED <<source, observed, closer, logged>>

-----------------------------------------------------------------------------
Close(k) ==
    /\ closer[k].at = "idle"
    /\ closer' = [closer EXCEPT ![k].at = "closing"]
    /\ UNCHANGED <<source, observed, reader, logged>>

(* Mutant: the source is read and closed under one mutex.                  *)
CloseReturnsAfterRead(k) ==
    /\ closer[k].at = "closing" /\ reader.at # "reading"
    /\ source' = [source EXCEPT !.is = "closed"]
    /\ \E err \in BOOLEAN : closer' = [closer EXCEPT ![k].at = "section", ![k].err = err]
    /\ UNCHANGED <<observed, reader, logged>>

(* Close: the call of the source, while a read of it may be under way.     *)
CloseReturns(k) ==
    /\ closer[k].at = "closing"
    /\ source' = [source EXCEPT !.is = "closed"]
    /\ \E err \in BOOLEAN : closer' = [closer EXCEPT ![k].at = "section", ![k].err = err]
    /\ UNCHANGED <<observed, reader, logged>>

(* Mutant: a body of unknown length counts as read.                        *)
CloseSectionTrusting(k) ==
    /\ closer[k].at = "section"
    /\ IF observed.done
       THEN closer' = [closer EXCEPT ![k].at = "over"] /\ UNCHANGED observed
       ELSE /\ observed' = Finished
            /\ closer' = [closer EXCEPT ![k].at = "log", ![k].message =
                    Finish(~closer[k].err /\ (observed.expected = "known"
                                                => observed.total = source.length),
                           observed.data)]
    /\ UNCHANGED <<source, reader, logged>>

(* Close: its section under the mutex.  Who reads just Content-Length      *)
(* bytes never sees the end.                                               *)
CloseSection(k) ==
    /\ closer[k].at = "section"
    /\ IF observed.done
       THEN closer' = [closer EXCEPT ![k].at = "over"] /\ UNCHANGED observed
       ELSE /\ observed' = Finished
            /\ closer' = [closer EXCEPT ![k].at = "log", ![k].message =
                    Finish(~closer[k].err /\ observed.expected = "known"
                               /\ observed.total = source.length,
                           observed.data)]
    /\ UNCHANGED <<source, reader, logged>>

CloseLogs(k) ==
    /\ closer[k].at = "log"
    /\ logged' = logged \cup {[by |-> k, message |-> closer[k].message]}
    /\ closer' = [closer EXCEPT ![k].at = "over"]
    /\ UNCHANGED <<source, observed, reader>>

Next ==
    \/ Read \/ ReadReturns \/ ReadSection \/ ReadLogs \/ ReaderStops
    \/ \E k \in Closers : Close(k) \/ CloseReturns(k) \/ CloseSection(k) \/ CloseLogs(k)

(* The program runs, a source can be closed.  It need not deliver.         *)
Fairness ==
    /\ WF_vars(ReadSection \/ ReadLogs)
    /\ WF_vars(source.is = "closed" /\ ReadReturns)
    /\ \A k \in Closers : WF_vars(CloseReturns(k) \/ CloseSection(k) \/ CloseLogs(k))

Spec == Init /\ [][Next]_vars

-----------------------------------------------------------------------------
(* A body is named at most once in the trace, whoever ends it, and it is   *)
(* printed only if the reader got all of it and all of it was kept         *)
(* (body.go:196-198).                                                      *)
PrintedWhole ==
    /\ \A m, l \in logged : m = l
    /\ \A m \in logged : m.message.printed => m.message.kept = source.length

(* A close gets through though a read of the source hangs: the body is     *)
(* then named in the trace, by one or the other (body.go:149-151).         *)
BodyNamed == (\E k \in Closers : closer[k].at = "closing") ~> logged # {}
=============================================================================
