-------------------------------- MODULE Klog --------------------------------
(***************************************************************************)
(* Log messages of the eBPF programs: bpf_log_event_internal on every CPU  *)
(* (src/src/services/klog/klog_helpers.bpf.h) writes into a pinned ring    *)
(* buffer; Ringbuffer (src/src/ebpf/ringbuffer.cc), called back by the io  *)
(* thread (src/src/io/io.cc), hands each record to Klog::logEvent          *)
(* (src/src/services/klog/klog.cc).  The ring outlives a process that      *)
(* dies; the next one goes on reading where the kernel's consumer position *)
(* stands.                                                                 *)
(*                                                                         *)
(* The ring is the kernel's and libbpf's: records are read in the order of *)
(* their reservation, a record that is not submitted yet stops the reader, *)
(* and the position moves on after the callback has returned.              *)
(***************************************************************************)
EXTENDS Integers, FiniteSets, SequencesExt

CONSTANTS
  Cpus,       \* CPUs that run eBPF programs
  NoRecord,   \* a CPU that is writing none
  Events,     \* what the programs log: records of level, msg and args
  Level,      \* the log level of the process
  Specs,      \* the conversions logEvent knows
  Width,      \* [Specs -> characters a value takes]
  ProtoName,  \* names of the protocols that %P knows, by number
  MaxArgs,    \* MAX_ARGS_CNT
  BufSize,    \* sizeof(formatted_msg)
  Header,     \* sizeof(struct log_event)
  RingSize,   \* KLOG_BUFFER_SIZE
  MaxEvents,  \* bound: messages logged by the programs
  MaxCrashes  \* bound: deaths of the process

ASSUME KlogAssumption ==
  /\ MaxEvents \in Nat /\ MaxCrashes \in Nat /\ RingSize \in Nat \ {0} /\ Header \in Nat
  /\ MaxArgs \in Nat \ {0} /\ BufSize \in Nat \ {0, 1}
  /\ \A e \in Events :
       e.level \in Int /\ Len(e.msg) \in Nat /\ DOMAIN e.args = 1..MaxArgs
  /\ Level \in Int /\ NoRecord \notin Nat
  /\ \A spec \in Specs : Width[spec] \in Nat \ {0}

VARIABLES
  ring,     \* records from the consumer position to the producer position
  writing,  \* [Cpus -> id of the record the CPU has reserved, or NoRecord]
  nextId,   \* number of messages so far, plus one
  wanted,   \* history: the messages in the ring's order that the log level lets through
  logged,   \* lines given to the logger: id, text, where the 0 went
  io,       \* what the io thread does with the ring
  alive,    \* the Ringbuffer of Klog exists
  crashes,  \* how often the process died
  twice     \* the record that was logged when the process died, if any

klogVars == <<ring, writing, nextId, wanted, logged, io, alive, crashes, twice>>

-----------------------------------------------------------------------------
(* logEvent's loop, a character of msg at a time.  s.spec: the character   *)
(* after a '%' is next.  A cell is a character of the output.              *)

Cell(kind, value, c) == <<kind, value, c>>
Literal(ch) == Cell(ch, 0, 1)

(* What snprintf makes of a value; %P knows names of protocols.            *)
Text(spec, v) ==
  LET kind == IF spec = "P" /\ v \in DOMAIN ProtoName THEN ProtoName[v] ELSE spec
  IN  [c \in 1..Width[spec] |-> Cell(kind, v, c)]

Missing == [c \in 1..9 |-> Cell("<missing>", 0, c)]

(* formatted_msg[pos++] = ..., and pos += snprintf(...), which returns the *)
(* length it would have liked to write.                                    *)
Put(s, cells) ==
  [s EXCEPT !.spec = FALSE, !.buf = @ \o cells, !.pos = @ + Len(cells)]

Snprintf(s, cells) ==
  LET room == BufSize - s.pos - 1
  IN  [s EXCEPT !.spec = FALSE,
                !.buf = @ \o SubSeq(cells, 1, IF Len(cells) < room THEN Len(cells) ELSE room),
                !.pos = @ + Len(cells)]

Scan(args, s, ch, last) ==
  CASE ~s.spec /\ s.pos >= last                -> s
    [] ~s.spec /\ s.pos < last /\ ch = "%"      -> [s EXCEPT !.spec = TRUE]
    [] ~s.spec /\ s.pos < last /\ ch # "%"      -> Put(s, <<Literal(ch)>>)
    [] s.spec /\ ch = "%"                       -> Put(s, <<Literal("%")>>)
    [] s.spec /\ ch # "%" /\ ch \in Specs       ->
         IF s.arg > MaxArgs
         THEN Snprintf(s, Missing)
         ELSE [Snprintf(s, Text(ch, args[s.arg])) EXCEPT !.arg = @ + 1]
    [] s.spec /\ ch # "%" /\ ch \notin Specs    -> Put(s, <<Literal("%"), Literal(ch)>>)

Start == [spec |-> FALSE, pos |-> 0, arg |-> 1, buf |-> <<>>]

FormatToTheEnd(e) ==    \* mutant: no room is left for the 0
  LET after[i \in 0..Len(e.msg)] ==
        IF i = 0 THEN Start ELSE LET s == after[i - 1] IN Scan(e.args, s, e.msg[i], BufSize)
  IN  after[Len(e.msg)]

FormatFirstArg(e) ==    \* mutant: arg_idx stays where it is
  LET after[i \in 0..Len(e.msg)] ==
        IF i = 0 THEN Start
        ELSE LET s == after[i - 1] IN [Scan(e.args, s, e.msg[i], BufSize - 1) EXCEPT !.arg = 1]
  IN  after[Len(e.msg)]

Format(e) ==
  LET after[i \in 0..Len(e.msg)] ==
        IF i = 0 THEN Start ELSE LET s == after[i - 1] IN Scan(e.args, s, e.msg[i], BufSize - 1)
  IN  after[Len(e.msg)]

Formatted == [e \in Events |-> Format(e)]

-----------------------------------------------------------------------------
(* The eBPF side.  The record has the message with its 0; it takes as much *)
(* room in the ring.                                                       *)
SizeOf(e) == Header + Len(e.msg) + 1

Used ==
  LET upTo[n \in 0..Len(ring)] == IF n = 0 THEN 0 ELSE upTo[n - 1] + SizeOf(ring[n].event)
  IN  upTo[Len(ring)]

Reserve(c, e) ==
  /\ writing[c] = NoRecord /\ nextId <= MaxEvents
  /\ nextId' = nextId + 1
  /\ IF Used + SizeOf(e) < RingSize
     THEN /\ ring' = Append(ring, [id |-> nextId, event |-> e, ready |-> FALSE])
          /\ writing' = [writing EXCEPT ![c] = nextId]
          /\ wanted' = IF e.level < Level THEN wanted ELSE Append(wanted, nextId)
     ELSE UNCHANGED <<ring, writing, wanted>>
  /\ UNCHANGED <<logged, io, alive, crashes, twice>>

Submit(c) ==
  /\ writing[c] # NoRecord
  /\ ring' = [i \in DOMAIN ring |->
       IF ring[i].id = writing[c] THEN [ring[i] EXCEPT !.ready = TRUE] ELSE ring[i]]
  /\ writing' = [writing EXCEPT ![c] = NoRecord]
  /\ UNCHANGED <<nextId, wanted, logged, io, alive, crashes, twice>>

-----------------------------------------------------------------------------
(* Klog's constructor, Ringbuffer::init and addReadCb; the ring is the one *)
(* that is pinned.  Then the posted start().                               *)
Construct ==
  /\ io = "down"
  /\ io' = "posted" /\ alive' = TRUE
  /\ UNCHANGED <<ring, writing, nextId, wanted, logged, crashes, twice>>

StartWait ==
  /\ io = "posted"
  /\ io' = "wait"
  /\ UNCHANGED <<ring, writing, nextId, wanted, logged, alive, crashes, twice>>

(* The descriptor is readable, also while the first record is not yet      *)
(* submitted: the handler calls consume.                                   *)
Readable ==
  /\ io = "wait" /\ ring # <<>>
  /\ io' = "consume"
  /\ UNCHANGED <<ring, writing, nextId, wanted, logged, alive, crashes, twice>>

LineOf(r) ==
  LET s == Formatted[r.event]
  IN  IF SizeOf(r.event) < Header \/ r.event.level < Level
      THEN <<>>
      ELSE <<[id |-> r.id, text |-> s.buf, event |-> r.event, zero |-> s.pos, past |-> s.spec]>>

LogEventAny ==    \* mutant: a record is logged although its program still writes it
  /\ io = "consume" /\ alive /\ ring # <<>>
  /\ logged' = logged \o LineOf([ring[Len(ring)] EXCEPT !.ready = TRUE])
  /\ io' = "advance"
  /\ UNCHANGED <<ring, writing, nextId, wanted, alive, crashes, twice>>

(* ring_buffer__consume calls raw_cb, which calls logEvent ...             *)
LogEvent ==
  /\ io = "consume" /\ alive /\ ring # <<>> /\ Head(ring).ready
  /\ logged' = logged \o LineOf(Head(ring))
  /\ io' = "advance"
  /\ UNCHANGED <<ring, writing, nextId, wanted, alive, crashes, twice>>

(* ... and moves the consumer position on.                                 *)
Advance ==
  /\ io = "advance" /\ alive
  /\ ring' = Tail(ring)
  /\ io' = "consume"
  /\ UNCHANGED <<writing, nextId, wanted, logged, alive, crashes, twice>>

ConsumeEndOnce ==    \* mutant: async_wait is not called again
  /\ io = "consume" /\ alive
  /\ ring # <<>> => ~Head(ring).ready
  /\ io' = "ended"
  /\ UNCHANGED <<ring, writing, nextId, wanted, logged, alive, crashes, twice>>

(* Nothing more that is submitted: the handler returns and waits again.    *)
ConsumeEnd ==
  /\ io = "consume" /\ alive
  /\ ring # <<>> => ~Head(ring).ready
  /\ io' = "wait"
  /\ UNCHANGED <<ring, writing, nextId, wanted, logged, alive, crashes, twice>>

-----------------------------------------------------------------------------
(* main() is over: unpin, and ~Klog on the main thread destroys the        *)
(* Ringbuffer.  A handler that waits never runs; one that runs goes on     *)
(* with a pointer to the object.                                           *)
Destroy ==
  /\ alive
  /\ alive' = FALSE
  /\ io' = IF io \in {"posted", "wait"} THEN "ended" ELSE io
  /\ UNCHANGED <<ring, writing, nextId, wanted, logged, crashes, twice>>

(* Undefined: the handler may find nothing more to read, or the process    *)
(* dies.                                                                   *)
HandlerDangles ==
  /\ io \in {"consume", "advance"} /\ ~alive
  /\ io' \in {"ended", "dead"}
  /\ UNCHANGED <<ring, writing, nextId, wanted, logged, alive, crashes, twice>>

(* The process dies; programs, ring and pin stay.                          *)
Crash ==
  /\ alive /\ crashes < MaxCrashes
  /\ crashes' = crashes + 1
  /\ twice' = IF io = "advance" THEN twice \cup {Head(ring).id} ELSE twice
  /\ io' = "down" /\ alive' = FALSE
  /\ UNCHANGED <<ring, writing, nextId, wanted, logged>>

-----------------------------------------------------------------------------
KlogInit ==
  /\ ring = <<>> /\ nextId = 1 /\ wanted = <<>>
  /\ writing = [c \in Cpus |-> NoRecord]
  /\ logged = <<>>
  /\ io = "down" /\ alive = FALSE
  /\ crashes = 0 /\ twice = {}

IoStep == StartWait \/ Readable \/ LogEvent \/ Advance \/ ConsumeEnd \/ HandlerDangles

KlogNext ==
  \/ \E c \in Cpus, e \in Events : Reserve(c, e)
  \/ \E c \in Cpus : Submit(c)
  \/ Construct \/ IoStep \/ Destroy \/ Crash

(* The io thread runs, and an eBPF program ends: the kernel's verifier     *)
(* sees to that.                                                           *)
KlogSpec ==
  /\ KlogInit /\ [][KlogNext]_klogVars
  /\ WF_klogVars(IoStep)
  /\ \A c \in Cpus : WF_klogVars(Submit(c))

-----------------------------------------------------------------------------
(* The reference for Format: what a message means, by its characters.      *)

(* A '%' with an even number of them right before it begins a conversion   *)
(* or a literal '%'; the character after it is part of that.               *)
Begins(msg, i) ==
  /\ msg[i] = "%"
  /\ LET other == {j \in 1..i : msg[j] # "%"}
     IN  (i - (IF other = {} THEN 0 ELSE Max(other))) % 2 = 1

Pieces(msg) == {i \in DOMAIN msg : i = 1 \/ ~Begins(msg, i - 1)}

Converts(msg, i) == Begins(msg, i) /\ i < Len(msg) /\ msg[i + 1] \in Specs

Piece(e, i) ==
  LET n == Cardinality({j \in 1..i : Converts(e.msg, j)})
  IN  IF ~Begins(e.msg, i) THEN <<Literal(e.msg[i])>>
      ELSE IF Converts(e.msg, i)
      THEN IF n > MaxArgs THEN Missing ELSE Text(e.msg[i + 1], e.args[n])
      ELSE IF e.msg[i + 1] = "%" THEN <<Literal("%")>>
      ELSE <<Literal("%"), Literal(e.msg[i + 1])>>

Meaning(e) ==
  LET text == FlattenSeq([i \in DOMAIN e.msg |-> IF i \in Pieces(e.msg) THEN Piece(e, i) ELSE <<>>])
  IN  SubSeq(text, 1, IF Len(text) < BufSize - 1 THEN Len(text) ELSE BufSize - 1)

Meant == [e \in Events |-> Meaning(e)]

-----------------------------------------------------------------------------
Records == {ring[i] : i \in DOMAIN ring}
Lines == {logged[i] : i \in DOMAIN logged}

(* The types of the state; the ring keeps one position free, and a record  *)
(* that is not submitted is being written by one CPU                       *)
(* (klog_helpers.bpf.h 34-54).                                             *)
KlogTypeOK ==
  /\ nextId \in 1..(MaxEvents + 1) /\ twice \subseteq 1..MaxEvents
  /\ io \in {"down", "posted", "wait", "consume", "advance", "ended", "dead"}
  /\ Used < RingSize
  /\ \A r \in Records : ~r.ready => Cardinality({c \in Cpus : writing[c] = r.id}) = 1
  /\ io = "advance" /\ alive => ring # <<>> /\ Head(ring).ready

(* The lines, and after them the records in the ring that are to be logged *)
(* still.                                                                  *)
Once ==
  LET again(i) == i > 1 /\ logged[i - 1].id = logged[i].id /\ logged[i].id \in twice
  IN  FlattenSeq([i \in DOMAIN logged |-> IF again(i) THEN <<>> ELSE <<logged[i].id>>])

Pending ==
  LET new(r) == r.event.level >= Level /\ \A l \in Lines : l.id # r.id
  IN  FlattenSeq([n \in DOMAIN ring |-> IF new(ring[n]) THEN <<ring[n].id>> ELSE <<>>])

(* Lines come out in the order in which the programs reserved their        *)
(* records, on whatever CPU and whoever submitted first, and every record  *)
(* that found room comes out, from the process that was up then or from    *)
(* the next.  Only the record at which a process died is logged again,     *)
(* right away (ringbuffer.cc 53-78, klog_helpers.bpf.h 35-54).             *)
LoggedInOrder == Once \o Pending = wanted

(* Every line says what its message means: the k-th conversion shows the   *)
(* k-th argument, however '%' signs precede it, and a text that is too     *)
(* long is cut (klog.cc 65-141).                                           *)
RenderedAsFormatted == \A l \in Lines : l.text = Meant[l.event]

(* The 0 at the end of the line is put into formatted_msg, and the message *)
(* is not read past its own 0 (klog.cc 65-142).                            *)
WithinBuffers == \A l \in Lines : l.zero < BufSize /\ ~l.past

(* A message that fits.  open[i]: a conversion or a literal '%' begins     *)
(* with character i; nth[i]: the conversions up to character i; at[i]: the *)
(* room that the text takes up to character i, with what begins there.     *)
(* What begins has its second character and ends before the last place of  *)
(* formatted_msg; other text may be as long as it likes, it is cut.        *)
Conversion(ch) == ch # "%" /\ ch \in Specs

Need(msg, i, n) ==
  IF msg[i + 1] = "%" THEN 1
  ELSE IF ~Conversion(msg[i + 1]) THEN 2
  ELSE IF n < MaxArgs THEN Width[msg[i + 1]] ELSE Len(Missing)

Layout(msg, open, nth, at) ==
  /\ open \in [0..Len(msg) -> BOOLEAN]
  /\ nth \in [0..Len(msg) -> Nat] /\ at \in [0..Len(msg) -> Nat]
  /\ open[0] = FALSE /\ nth[0] = 0 /\ at[0] = 0
  /\ \A i \in 1..Len(msg) :
       /\ open[i] <=> (msg[i] = "%" /\ ~open[i - 1])
       /\ nth[i] = nth[i - 1] + (IF open[i - 1] /\ Conversion(msg[i]) THEN 1 ELSE 0)
       /\ at[i] = at[i - 1] + (IF open[i - 1] THEN 0 ELSE IF open[i] THEN Need(msg, i, nth[i]) ELSE 1)
       /\ open[i] => i < Len(msg) /\ at[i] < BufSize

MessagesFit == \A e \in Events : \E open, nth, at : Layout(e.msg, open, nth, at)

(* The ring and the buffer for a line are kept within their sizes          *)
(* (klog_helpers.bpf.h 34-54, klog.cc 65-142).                             *)
KlogInv == KlogTypeOK /\ WithinBuffers

(* What is submitted is logged, unless the process goes: a program that    *)
(* was interrupted between reserve and submit delays the records behind    *)
(* its own and does not stop the reader (io.cc 45-55, ringbuffer.cc 67).   *)
SubmittedIsLogged ==
  \A n \in 1..MaxEvents :
    (\E r \in Records : r.id = n /\ r.event.level >= Level)
      ~> ((\E l \in Lines : l.id = n) \/ ~alive)

-----------------------------------------------------------------------------
(* Properties the code does not have.                                      *)

(* The io thread and the owner share the life of what a callback uses      *)
(* ("需要用 std::shared_ptr 来共享本对象的生命周期", io.cc 20-21): no      *)
(* handler runs in an object that is destroyed.                            *)
HandlerHasObject == io \in {"consume", "advance"} => alive
=============================================================================
