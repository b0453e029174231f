-------------------------------- MODULE Logger --------------------------------
(***************************************************************************)
(* Class Logger (src/code/Logger.cpp): threads write log messages into one *)
(* circular byte buffer under m_mutex; the logging thread (Logger is a     *)
(* Thread) wakes up every 200 ms or when a CRIT message was written, takes *)
(* the messages out and prints them; the destructor stops and joins the    *)
(* thread and takes out what is left.                                      *)
(*                                                                         *)
(* The buffer is the first-in first-out store that CircularBuffer is shown *)
(* to implement.  A message in it is a MessageHeader followed by its text: *)
(* here one unit <<m, 0>> and the units <<m, 1>>, ..., one per LOGMSG_SIZE *)
(* fraction the properties tell apart.  Nothing in the buffer marks where  *)
(* a message begins: a reader that comes in the middle of a text takes     *)
(* text for a header, whose pointers it then follows ("undefined").        *)
(* A text longer than LOGMSG_SIZE is read in two pieces, and the mutex is  *)
(* released in between.                                                    *)
(***************************************************************************)
EXTENDS Integers, Sequences, Functions

CONSTANTS
  Writers,          \* threads that log
  LogThread,        \* the logging thread
  Main,             \* the thread that owns the Logger
  NoOne,            \* owner of a free mutex
  Kinds,            \* [via, size, level]: which write, text length, level
  MAX_MESSAGES,     \* bound: messages written in all
  MAX_BUFFER_SIZE,  \* capacity of m_buffer, in units
  LOGMSG_SIZE,      \* text length that fits into the local buffers
  SLEEPS_TO_FLUSH,  \* rounds between two fflush
  AllocationFails   \* whether operator new may throw

ASSUME LoggerAssumption ==
  /\ LOGMSG_SIZE \in Nat \ {0} /\ SLEEPS_TO_FLUSH \in Nat \ {0}
  /\ MAX_BUFFER_SIZE \in Nat /\ MAX_MESSAGES \in Nat
  /\ \A k \in Kinds : k.via \in {"format", "string"} /\ k.size \in Nat
  /\ AllocationFails \in BOOLEAN
  /\ {LogThread, Main, NoOne} \cap Writers = {}
  /\ LogThread # Main /\ NoOne \notin {LogThread, Main}

Flushers == {LogThread, Main}

VARIABLES
  m_buffer,    \* the units stored, oldest first
  m_mutex,     \* the thread that holds m_mutex, or NoOne
  m_state,     \* Thread::m_state of the logging thread
  m_counter,   \* rounds of onProcess, modulo SLEEPS_TO_FLUSH
  m_files,     \* whether the group's FileInfo is there with an open file
  pc,          \* what each thread is about to do
  msg,         \* writers: the message being written
  mh,          \* flushers: the header read last
  logbuf,      \* flushers: the text read so far
  written,     \* number of messages begun, which numbers them
  accepted,    \* history: the messages stored, in the order of their headers
  dropped,     \* history: the set of messages refused and lost
  taken,       \* history: number of headers read
  output,      \* the file: what became of each message taken, in order
  synced,      \* length of the output that was fflush-ed
  drained      \* history: Len(accepted) when the destructor found no more data

bufferVars == <<m_buffer, accepted, dropped, taken>>
threadVars == <<m_state, m_counter>>
fileVars   == <<m_files, output, synced>>
localVars  == <<msg, written, mh, logbuf>>
vars == <<bufferVars, m_mutex, threadVars, fileVars, pc, localVars, drained>>

-----------------------------------------------------------------------------
(* Messages and their units. *)

NoMessage == [seq |-> 0]

(* write(format) cuts the text to LOGMSG_SIZE - 1, write(string) does not. *)
(* What the cut text says is left open: it is formatted a second time from *)
(* a va_list that the first call has consumed.                             *)
IsCut(k) == k.via = "format" /\ k.size >= LOGMSG_SIZE
StoredSize(k) == IF IsCut(k) THEN LOGMSG_SIZE - 1 ELSE k.size

Messages == [seq : 1..MAX_MESSAGES, kind : Kinds]

Size(m)   == StoredSize(m.kind)
Header(m) == <<<<m, 0>>>>
Text(m)   == [i \in 1..Size(m) |-> <<m, i>>]
Frame(m)  == Header(m) \o Text(m)

IsLarge(m) == Size(m) > LOGMSG_SIZE
IsCrit(m)  == m.kind.level = "CRIT"

(* What became of a message in the output: printed, or its processing threw. *)
Printed(m, text) == [msg |-> m, text |-> text]
Lost == Printed(NoMessage, <<>>)

Init ==
  /\ m_buffer = <<>> /\ accepted = <<>> /\ dropped = {} /\ taken = 0
  /\ m_mutex = NoOne
  /\ m_state = "READY" /\ m_counter = 0
  /\ m_files = FALSE /\ output = <<>> /\ synced = 0
  /\ pc = [t \in Writers \cup Flushers |-> IF t = LogThread THEN "none" ELSE IF t = Main THEN "up" ELSE "idle"]
  /\ msg = [w \in Writers |-> NoMessage]
  /\ written = 0
  /\ mh = [f \in Flushers |-> NoMessage]
  /\ logbuf = [f \in Flushers |-> <<>>]
  /\ drained = 0

Goto(t, there) == pc' = [pc EXCEPT ![t] = there]
Go(t, here, there) == pc[t] = here /\ Goto(t, there)
Lock(t)   == m_mutex = NoOne /\ m_mutex' = t
Unlock(t) == m_mutex = t /\ m_mutex' = NoOne

Fits(n)  == Len(m_buffer) + n <= MAX_BUFFER_SIZE
Put(s)   == m_buffer' = m_buffer \o s
Take(n)  == m_buffer' = SubSeq(m_buffer, n + 1, Len(m_buffer))
First(n) == SubSeq(m_buffer, 1, n)

-----------------------------------------------------------------------------
(* Logger::write, both of them. *)

WriteBegin(w) ==
  /\ Go(w, "idle", "lock")
  /\ written < MAX_MESSAGES
  /\ pc[Main] # "destroyed"
  /\ \E m \in Messages :
       /\ m.seq = written + 1
       /\ msg' = [msg EXCEPT ![w] = m]
  /\ written' = written + 1
  /\ UNCHANGED <<bufferVars, m_mutex, threadVars, fileVars, mh, logbuf, drained>>

(* new char[] for the text that did not fit throws, before the lock. *)
WriteThrows(w) ==
  /\ AllocationFails
  /\ Go(w, "lock", "idle")
  /\ msg' = [msg EXCEPT ![w] = NoMessage]
  /\ IsCut(msg[w].kind)
  /\ UNCHANGED <<bufferVars, m_mutex, threadVars, fileVars, written, mh, logbuf, drained>>

WriteLock(w) ==
  /\ Go(w, "lock", msg[w].kind.via)
  /\ Lock(w)
  /\ UNCHANGED <<bufferVars, threadVars, fileVars, localVars, drained>>

(* getDefaultSyslogEnabled(): a refused CRIT message would go to syslog.   *)
useSyslog == FALSE

Refused(w) ==
  /\ dropped' = IF useSyslog /\ IsCrit(msg[w]) THEN dropped ELSE dropped \cup {msg[w]}
  /\ UNCHANGED <<m_buffer, accepted>>
Accepted(w) == accepted' = Append(accepted, msg[w]) /\ UNCHANGED dropped

(* write(settings, format, ...): header and text in one m_buffer.write. *)
WriteFormat(w) ==
  /\ Go(w, "format", "unlock")
  /\ IF Fits(1 + Size(msg[w])) THEN Put(Frame(msg[w])) /\ Accepted(w) ELSE Refused(w)
  /\ UNCHANGED <<taken, m_mutex, threadVars, fileVars, localVars, drained>>

(* Defect: the space is checked for the header alone. *)
WriteHeaderUnchecked(w) ==
  /\ pc[w] = "string"
  /\ IF Fits(1)
     THEN Put(Header(msg[w])) /\ Accepted(w) /\ Goto(w, "text")
     ELSE Refused(w) /\ Goto(w, "unlock")
  /\ UNCHANGED <<taken, m_mutex, threadVars, fileVars, localVars, drained>>

(* write(settings, string): the space is checked for both, then the header *)
(* and the text are two calls of m_buffer.write.                           *)
WriteHeader(w) ==
  /\ pc[w] = "string"
  /\ IF Fits(1 + Size(msg[w]))
     THEN Put(Header(msg[w])) /\ Accepted(w) /\ Goto(w, "text")
     ELSE Refused(w) /\ Goto(w, "unlock")
  /\ UNCHANGED <<taken, m_mutex, threadVars, fileVars, localVars, drained>>

WriteText(w) ==
  /\ Go(w, "text", "unlock")
  /\ IF Fits(Size(msg[w])) THEN Put(Text(msg[w])) ELSE UNCHANGED m_buffer
  /\ UNCHANGED <<accepted, dropped, taken, m_mutex, threadVars, fileVars, localVars, drained>>

WriteUnlock(w) ==
  /\ Go(w, "unlock", IF IsCrit(msg[w]) THEN "notify" ELSE "idle")
  /\ Unlock(w)
  /\ msg' = [msg EXCEPT ![w] = NoMessage]
  /\ UNCHANGED <<bufferVars, threadVars, fileVars, written, mh, logbuf, drained>>

(* m_cond.notify(), after the unlock: wakes the logging thread if it waits. *)
WriteNotify(w) ==
  /\ pc[w] = "notify"
  /\ pc' = [pc EXCEPT ![w] = "idle",
                      ![LogThread] = IF @ = "waiting" THEN "woken" ELSE @]
  /\ UNCHANGED <<bufferVars, m_mutex, threadVars, fileVars, localVars, drained>>

-----------------------------------------------------------------------------
(* Logger::flush, run by the logging thread and by the destructor. *)

FlushLock(f) ==
  /\ Go(f, "flush", "header")
  /\ Lock(f)
  /\ UNCHANGED <<bufferVars, threadVars, fileVars, localVars, drained>>

(* The header is read.  No data: break, which unlocks.  What is read is a  *)
(* header only if a message begins here.                                   *)
FlushHeader(f) ==
  /\ pc[f] = "header"
  /\ IF m_buffer = <<>>
     THEN /\ Goto(f, "sync") /\ Unlock(f)
          /\ drained' = IF f = Main THEN Len(accepted) ELSE drained
          /\ UNCHANGED <<m_buffer, taken, mh>>
     ELSE /\ Take(1)
          /\ UNCHANGED <<m_mutex, drained>>
          /\ IF Head(m_buffer)[2] = 0
             THEN /\ mh' = [mh EXCEPT ![f] = Head(m_buffer)[1]]
                  /\ taken' = taken + 1
                  /\ Goto(f, "text")
             ELSE /\ Goto(f, "undefined")
                  /\ UNCHANGED <<mh, taken>>
  /\ UNCHANGED <<accepted, dropped, threadVars, fileVars, msg, written, logbuf>>

(* The text, or its first LOGMSG_SIZE units; then the mutex is released.   *)
FlushText(f) ==
  LET n == IF IsLarge(mh[f]) THEN LOGMSG_SIZE ELSE Size(mh[f]) IN
  /\ pc[f] = "text"
  /\ IF Len(m_buffer) < n
     THEN Goto(f, "sync") /\ UNCHANGED <<m_buffer, logbuf>>
     ELSE /\ Goto(f, "file") /\ Take(n)
          /\ logbuf' = [logbuf EXCEPT ![f] = First(n)]
  /\ Unlock(f)
  /\ UNCHANGED <<accepted, dropped, taken, threadVars, fileVars, msg, written, mh, drained>>

(* The round is over: mh and logbuf are set anew before they are used. *)
Forget(f) ==
  /\ mh' = [mh EXCEPT ![f] = NoMessage]
  /\ logbuf' = [logbuf EXCEPT ![f] = <<>>]
  /\ UNCHANGED <<msg, written>>

(* m_files[group], the file, which is always stdout and so neither fails   *)
(* to open nor is rolled, and for a large text the memory for its rest.    *)
FlushFile(f) ==
  /\ Go(f, "file", IF IsLarge(mh[f]) THEN "relock" ELSE "print")
  /\ m_files' = TRUE
  /\ UNCHANGED <<bufferVars, m_mutex, threadVars, output, synced, localVars, drained>>

(* operator new throws: onProcess catches what flush throws and goes on,   *)
(* the destructor does not and the program terminates.                     *)
FlushThrows(f) ==
  /\ AllocationFails
  /\ Go(f, "file", IF f = LogThread THEN "loop" ELSE "terminated")
  /\ \/ ~m_files /\ UNCHANGED m_files            \* the FileInfo
     \/ IsLarge(mh[f]) /\ m_files' = TRUE         \* heap_logbuf
  /\ output' = Append(output, Lost)
  /\ Forget(f)
  /\ UNCHANGED <<bufferVars, m_mutex, threadVars, synced, drained>>

FlushRelock(f) ==
  /\ Go(f, "relock", "rest")
  /\ Lock(f)
  /\ UNCHANGED <<bufferVars, threadVars, fileVars, localVars, drained>>

(* Defect: the rest overwrites the text read before it. *)
FlushRestOverwriting(f) ==
  LET n == Size(mh[f]) - LOGMSG_SIZE IN
  /\ Go(f, "rest", "print")
  /\ Take(n)
  /\ logbuf' = [logbuf EXCEPT ![f] = First(n)]
  /\ Unlock(f)
  /\ UNCHANGED <<accepted, dropped, taken, threadVars, fileVars, msg, written, mh, drained>>

FlushRest(f) ==
  LET n == Size(mh[f]) - LOGMSG_SIZE IN
  /\ pc[f] = "rest"
  /\ IF Len(m_buffer) < n
     THEN Goto(f, "sync") /\ UNCHANGED <<m_buffer, logbuf>>
     ELSE /\ Goto(f, "print") /\ Take(n)
          /\ logbuf' = [logbuf EXCEPT ![f] = @ \o First(n)]
  /\ Unlock(f)
  /\ UNCHANGED <<accepted, dropped, taken, threadVars, fileVars, msg, written, mh, drained>>

FlushPrint(f) ==
  /\ Go(f, "print", "flush")
  /\ output' = Append(output, Printed(mh[f], logbuf[f]))
  /\ Forget(f)
  /\ UNCHANGED <<bufferVars, m_mutex, threadVars, m_files, synced, drained>>

(* Defect: m_counter counts up to the number instead of modulo it. *)
SyncFilesLate == synced' = IF m_counter = SLEEPS_TO_FLUSH THEN Len(output) ELSE synced

SyncFiles == synced' = IF m_counter = 0 THEN Len(output) ELSE synced

-----------------------------------------------------------------------------
(* The logging thread: Thread::run and Logger::onProcess. *)

ThreadRun ==
  /\ Go(LogThread, "starting", "loop")
  /\ m_state' = IF m_state = "STARTING" THEN "RUNNING" ELSE m_state
  /\ UNCHANGED <<bufferVars, m_mutex, m_counter, fileVars, localVars, drained>>

ThreadLoop ==
  /\ pc[LogThread] = "loop"
  /\ IF m_state = "STOPPING"
     THEN Goto(LogThread, "exited") /\ m_state' = "STOPPED"
     ELSE Goto(LogThread, "wait") /\ UNCHANGED m_state
  /\ UNCHANGED <<bufferVars, m_mutex, m_counter, fileVars, localVars, drained>>

(* synchronized(m_mutex) m_cond.wait: locks, and unlocks as it waits. *)
ThreadWait ==
  /\ Go(LogThread, "wait", "waiting")
  /\ m_mutex = NoOne
  /\ UNCHANGED <<bufferVars, m_mutex, threadVars, fileVars, localVars, drained>>

ThreadTimeout ==
  /\ Go(LogThread, "waiting", "woken")
  /\ UNCHANGED <<bufferVars, m_mutex, threadVars, fileVars, localVars, drained>>

(* The wait returns with the mutex and the block ends: locked, unlocked. *)
ThreadWoken ==
  /\ Go(LogThread, "woken", "flush")
  /\ m_mutex = NoOne
  /\ UNCHANGED <<bufferVars, m_mutex, threadVars, fileVars, localVars, drained>>

(* The end of flush and m_counter++. *)
ThreadSync ==
  /\ Go(LogThread, "sync", "loop")
  /\ SyncFiles
  /\ m_counter' = (m_counter + 1) % SLEEPS_TO_FLUSH
  /\ UNCHANGED <<bufferVars, m_mutex, m_state, m_files, output, localVars, drained>>

-----------------------------------------------------------------------------
(* The owner: startLoggingThread and ~Logger. *)

StartLoggingThread ==
  /\ pc[Main] = "up"
  /\ m_state = "READY"
  /\ m_state' = "STARTING"
  /\ Go(LogThread, "none", "starting")
  /\ UNCHANGED <<bufferVars, m_mutex, m_counter, fileVars, localVars, drained>>

DestructorStop ==
  /\ Go(Main, "up", "join")
  /\ m_state' = IF m_state \in {"STARTING", "RUNNING"} THEN "STOPPING" ELSE m_state
  /\ UNCHANGED <<bufferVars, m_mutex, m_counter, fileVars, localVars, drained>>

(* Defect: the thread is not waited for. *)
DestructorJoinMissing ==
  /\ Go(Main, "join", "flush")
  /\ m_state' = "READY"
  /\ UNCHANGED <<bufferVars, m_mutex, m_counter, fileVars, localVars, drained>>

DestructorJoin ==
  /\ Go(Main, "join", "flush")
  /\ m_state # "READY" => pc[LogThread] = "exited"
  /\ m_state' = "READY"
  /\ UNCHANGED <<bufferVars, m_mutex, m_counter, fileVars, localVars, drained>>

(* Defect: the destructor leaves without closing, and so flushing, the files. *)
DestructorClearUnflushed ==
  /\ Go(Main, "sync", "destroyed")
  /\ m_files' = FALSE
  /\ UNCHANGED <<bufferVars, m_mutex, threadVars, output, synced, localVars, drained>>

(* The end of flush and m_files.clear(), which flushes and closes. *)
DestructorClear ==
  /\ Go(Main, "sync", "destroyed")
  /\ synced' = Len(output)
  /\ m_files' = FALSE
  /\ UNCHANGED <<bufferVars, m_mutex, threadVars, output, localVars, drained>>

-----------------------------------------------------------------------------
WriterStep(w) ==
  \/ WriteThrows(w) \/ WriteLock(w) \/ WriteFormat(w) \/ WriteHeader(w) \/ WriteText(w)
  \/ WriteUnlock(w) \/ WriteNotify(w)

FlushStep(f) ==
  \/ FlushLock(f) \/ FlushHeader(f) \/ FlushText(f) \/ FlushFile(f)
  \/ FlushThrows(f) \/ FlushRelock(f) \/ FlushRest(f) \/ FlushPrint(f)

ThreadStep ==
  \/ FlushStep(LogThread)
  \/ ThreadRun \/ ThreadLoop \/ ThreadWait \/ ThreadTimeout \/ ThreadWoken \/ ThreadSync

DestructorStep == FlushStep(Main) \/ DestructorJoin \/ DestructorClear

(* The program has ended, or a wild header was followed. *)
Undefined == \E f \in Flushers : pc[f] = "undefined"
Over == pc[Main] \in {"destroyed", "terminated"} \/ Undefined

Next ==
  \/ /\ ~Over
     /\ \/ \E w \in Writers : WriteBegin(w) \/ WriterStep(w)
        \/ ThreadStep
        \/ StartLoggingThread \/ DestructorStop \/ DestructorStep
  \/ Over /\ UNCHANGED vars

(* Threads that can run do run; a timed wait ends.  Nobody has to log, to  *)
(* start the logging thread or to destroy the logger.                      *)
Fairness ==
  /\ \A w \in Writers : WF_vars(~Over /\ WriterStep(w))
  /\ WF_vars(~Over /\ ThreadStep)
  /\ WF_vars(~Over /\ DestructorStep)

Spec == Init /\ [][Next]_vars /\ Fairness

-----------------------------------------------------------------------------
TypeOK ==
  /\ \A u \in Range(m_buffer) : u[1] \in Messages /\ u[2] \in 0..Size(u[1])
  /\ Len(m_buffer) <= MAX_BUFFER_SIZE
  /\ m_mutex \in Writers \cup Flushers \cup {NoOne}
  /\ m_state \in {"READY", "STARTING", "RUNNING", "STOPPING", "STOPPED"}
  /\ m_counter \in 0..(SLEEPS_TO_FLUSH - 1)
  /\ \A w \in Writers : pc[w] \in {"idle", "lock", "format", "string", "text", "unlock", "notify"}
  /\ \A f \in Flushers : mh[f] \in Messages \cup {NoMessage}
  /\ written \in 0..MAX_MESSAGES
  /\ \A w \in Writers : msg[w] \in Messages \cup {NoMessage}
  /\ Range(accepted) \cup dropped \subseteq Messages
  /\ taken \in 0..Len(accepted)
  /\ synced \in 0..Len(output)

(* A message whose first piece was read and whose rest nobody will read.   *)
TailLost == \E i \in 1..Len(output) : output[i] = Lost /\ IsLarge(accepted[i])

(* The units stored, and those that a writer between its two calls of      *)
(* m_buffer.write has still to store.                                      *)
Stream == m_buffer \o IF \E w \in Writers : pc[w] = "text" THEN Text(accepted[Len(accepted)]) ELSE <<>>

(* How much of the text of the message taken last has been read: all of    *)
(* it, but for a message that a flusher has still in hand.                 *)
TextRead ==
  IF \E f \in Flushers : pc[f] = "text" THEN 0
  ELSE IF \E f \in Flushers : pc[f] \in {"file", "relock", "rest"} /\ IsLarge(mh[f]) THEN LOGMSG_SIZE
  ELSE Size(accepted[taken])

(* From the unit <<m, j>> at place p on, the stream s holds the rest of m  *)
(* and then the next message accepted, if there is one.                    *)
InFrame(s, p, acc) ==
  LET m == s[p][1]
      j == s[p][2]
      end == p + Size(m) - j IN
  /\ m \in Range(acc) /\ j \in 0..Size(m)
  /\ end <= Len(s) /\ \A q \in p..end : s[q] = <<m, j + (q - p)>>
  /\ \A i \in 1..Len(acc) : acc[i] = m =>
       IF i = Len(acc) THEN end = Len(s) ELSE end < Len(s) /\ s[end + 1] = <<acc[i + 1], 0>>

(* It begins with what is to be read next, when k units of the text of the *)
(* n-th message were the last to be read.                                  *)
Continues(s, acc, n, k) ==
  IF n > 0 /\ k < Size(acc[n]) THEN s # <<>> /\ s[1] = <<acc[n], k + 1>>
  ELSE IF n < Len(acc) THEN s # <<>> /\ s[1] = <<acc[n + 1], 0>>
  ELSE s = <<>>

Framed(s, acc, n, k) == Continues(s, acc, n, k) /\ \A p \in 1..Len(s) : InFrame(s, p, acc)

(* Framing.  The buffer always holds, seen from the next read, the rest of *)
(* the message in hand and then whole messages, each header followed by    *)
(* its own text, in the order in which they were accepted: although        *)
(* write(string) stores a message in two calls, flush reads it in two or   *)
(* three, and the mutex is free between the pieces of a large one.  The    *)
(* exception is the large message for whose rest no memory could be had;   *)
(* only then can text be taken for a header.                               *)
Framing == ~TailLost => ~Undefined /\ Framed(Stream, accepted, taken, TextRead)

(* The file holds the accepted messages in the order of acceptance, none   *)
(* torn, none twice, none skipped but those whose processing threw.        *)
PrintedAsWritten ==
  \A i \in 1..Len(output) :
    output[i] # Lost => output[i] = Printed(accepted[i], Text(accepted[i]))

(* ~Logger: when it is done, every message accepted before it found no     *)
(* more data has been taken and printed, also the ones the logging thread  *)
(* had in hand when it was told to stop, and the file is flushed.          *)
DestructorDrains ==
  pc[Main] = "destroyed" => Len(output) = drained /\ synced = drained

Bad == Undefined \/ pc[Main] = "terminated"
AllMessages == 1..MAX_MESSAGES

(* Somebody reads: the logging thread was started, or the destructor runs  *)
(* and has not yet found the buffer empty.                                 *)
Served ==
  /\ pc[LogThread] # "none" \/ pc[Main] # "up"
  /\ pc[Main] \notin {"sync", "destroyed", "terminated"}

(* An accepted message is taken out and printed, also one that is written  *)
(* while the logging thread is on its way into or out of its wait, and one *)
(* that it leaves behind when it is stopped.                               *)
Delivered ==
  \A i \in AllMessages : (Len(accepted) >= i /\ Served) ~> (Len(output) >= i \/ Bad)

(* What is printed is fflush-ed, although only every SLEEPS_TO_FLUSH-th    *)
(* round of onProcess does it and stopping may come before that round.     *)
FlushedEventually ==
  \A i \in AllMessages : Len(output) >= i ~> (synced >= i \/ Bad)

(* Logger.cpp:298, 342: "If for some reason our buffer is full, inform the *)
(* syslog and make sure we don't lose CRIT messages".                      *)
CritNeverLost == \A m \in dropped : ~IsCrit(m)
=============================================================================
