------------------------------- MODULE Daemon -------------------------------
(***************************************************************************)
(* The life of the engine: main (src/main.cpp), the libbpf collector       *)
(* (src/collector/collector_libbpf.cpp) and the sink, with the kernel      *)
(* producing events and a signal asking for shutdown at any moment.        *)
(*                                                                         *)
(* main opens the sink, starts the collector (open and load the object,    *)
(* write the configuration into its maps, attach the programs one by one,  *)
(* make the ring buffer reader), polls until a signal has cleared          *)
(* g_running, stops the collector and returns, which destroys the sink.    *)
(* Programs produce events from the moment they are attached until Stop    *)
(* destroys their links; the ring keeps what was not consumed.  What one   *)
(* event does to the registry is the subject of EntityRegistry.            *)
(***************************************************************************)
EXTENDS JsonSink, FiniteSets

CONSTANTS
  NumPrograms,   \* programs of the BPF object
  RingSlots,     \* events the ring buffer can hold
  MaxEvents      \* bound on the events produced, for model checking only

ASSUME DaemonAssumption ==
  NumPrograms \in Nat \ {0} /\ RingSlots \in Nat \ {0} /\ MaxEvents \in 0 .. MaxRecords

\* What a ring record turns out to be: an event, a record Decode refuses, or an
\* event of the engine itself.
EventClass == {"event", "malformed", "self"}

VARIABLES
  pc,          \* where main is
  g_running,   \* cleared by the signal handler
  obj,         \* obj_ is an open object
  links,       \* number of links_
  tried,       \* programs the attach loop has tried
  rb,          \* rb_ is a ring buffer reader
  started,     \* started_
  degraded,    \* startup_report_.degraded
  exit_code,   \* what main returned
  ring,        \* submitted and not consumed, as [n, class]
  produced,    \* events submitted
  metrics,     \* received, decoded, dropped
  delivered    \* history: what the callback was given, in order

mainVars == <<pc, g_running, obj, links, tried, rb, started, degraded, exit_code>>
pipeVars == <<ring, produced, metrics, delivered>>
daemonVars == <<mainVars, pipeVars, sinkVars>>

DaemonInit ==
  /\ SinkInit
  /\ pc = "sink"
  /\ g_running = TRUE
  /\ obj = FALSE /\ links = 0 /\ tried = 0 /\ rb = FALSE /\ started = FALSE
  /\ degraded = FALSE
  /\ exit_code = 0
  /\ ring = <<>> /\ produced = 0
  /\ metrics = [received |-> 0, decoded |-> 0, dropped |-> 0]
  /\ delivered = <<>>

-----------------------------------------------------------------------------
(* Collector::Start and Stop.                                              *)

AppendDegradeReason == degraded' = TRUE

\* Release everything; what is still in the ring goes with the object.
StopCollector ==
  /\ started' = FALSE /\ rb' = FALSE /\ links' = 0 /\ obj' = FALSE
  /\ ring' = <<>>

\* Fault: an early return without Stop.
FailStartNoStop ==
  /\ AppendDegradeReason
  /\ exit_code' = 1 /\ pc' = "exited"
  /\ Destroy
  /\ UNCHANGED <<g_running, obj, links, tried, rb, started, pipeVars>>

\* Start returns false after Stop, main returns 1, the sink is destroyed.
FailStart ==
  /\ AppendDegradeReason
  /\ StopCollector
  /\ exit_code' = 1 /\ pc' = "exited"
  /\ Destroy
  /\ UNCHANGED <<g_running, tried, produced, metrics, delivered>>

\* main gives up before anything is started when the file cannot be opened.
BuildSink ==
  /\ pc = "sink"
  /\ \/ pc' = "start" /\ UNCHANGED <<ready, exit_code>>
     \/ pc' = "exited" /\ ready' = FALSE /\ exit_code' = 1
  /\ UNCHANGED <<g_running, obj, links, tried, rb, started, degraded, pipeVars,
                 streamVars, written, crashes, lost>>

\* The object is opened and loaded.
OpenObject ==
  /\ pc = "start"
  /\ \/ FailStart
     \/ /\ obj' = TRUE /\ pc' = "configure"
        /\ UNCHANGED <<g_running, links, tried, rb, started, degraded, exit_code, pipeVars, sinkVars>>

\* The configuration goes into the maps; every map that is missing and every
\* update that fails is a degradation and nothing more.
ApplyConfig ==
  /\ pc = "configure"
  /\ UNCHANGED degraded \/ AppendDegradeReason
  /\ pc' = "attach"
  /\ UNCHANGED <<g_running, obj, links, tried, rb, started, exit_code, pipeVars, sinkVars>>

\* Fault: a program is attached and not counted in the total.
AttachUncounted ==
  /\ pc = "attach" /\ tried < NumPrograms
  /\ tried' \in {tried, tried + 1}
  /\ links' = links + 1
  /\ UNCHANGED <<pc, g_running, obj, rb, started, degraded, exit_code, pipeVars, sinkVars>>

\* One turn of the attach loop; an attach may fail.
AttachProgram ==
  /\ pc = "attach" /\ tried < NumPrograms
  /\ tried' = tried + 1
  /\ links' \in {links, links + 1}
  /\ UNCHANGED <<pc, g_running, obj, rb, started, degraded, exit_code, pipeVars, sinkVars>>

\* Fault: failed attaches do not degrade the report.
FinishStartSilent ==
  /\ pc = "attach" /\ tried = NumPrograms
  /\ \/ FailStart
     \/ /\ links # 0
        /\ rb' = TRUE /\ started' = TRUE /\ pc' = "loop"
        /\ UNCHANGED <<g_running, obj, links, tried, degraded, exit_code, pipeVars, sinkVars>>

\* No program, no events map or no reader: give up.  Otherwise the engine runs,
\* degraded if an attach failed.
FinishStart ==
  /\ pc = "attach" /\ tried = NumPrograms
  /\ \/ FailStart
     \/ /\ links # 0
        /\ degraded' = (degraded \/ links < tried)
        /\ rb' = TRUE /\ started' = TRUE /\ pc' = "loop"
        /\ UNCHANGED <<g_running, obj, links, tried, exit_code, pipeVars, sinkVars>>

-----------------------------------------------------------------------------
(* main's loop and the event callback.                                     *)

\* Fault: the flag is not looked at.
LoopTestForever ==
  /\ pc = "loop"
  /\ pc' = "poll"
  /\ UNCHANGED <<g_running, obj, links, tried, rb, started, degraded, exit_code, pipeVars, sinkVars>>

\* while (g_running): poll, or fall through to the end.
LoopTest ==
  /\ pc = "loop"
  /\ pc' = IF g_running THEN "poll" ELSE "stop"
  /\ UNCHANGED <<g_running, obj, links, tried, rb, started, degraded, exit_code, pipeVars, sinkVars>>

\* Fault: a malformed record is written all the same.
OnRingBufferEventUndecoded ==
  /\ pc = "poll" /\ started /\ rb /\ ring # <<>>
  /\ ring' = Tail(ring)
  /\ delivered' = Append(delivered, Head(ring))
  /\ metrics' = [metrics EXCEPT !.received = @ + 1, !.decoded = @ + 1]
  /\ IF Head(ring).class # "self" THEN \E len \in Lengths : Write(len) ELSE UNCHANGED sinkVars
  /\ UNCHANGED <<mainVars, produced>>

\* The callback, for the next record: decode, skip the engine itself, write.
OnRingBufferEvent ==
  /\ pc = "poll" /\ started /\ rb /\ ring # <<>>
  /\ LET e == Head(ring)
     IN  /\ ring' = Tail(ring)
         /\ delivered' = Append(delivered, e)
         /\ metrics' = [received |-> metrics.received + 1,
                        decoded  |-> metrics.decoded + (IF e.class = "malformed" THEN 0 ELSE 1),
                        dropped  |-> metrics.dropped + (IF e.class = "malformed" THEN 1 ELSE 0)]
         /\ IF e.class = "event" THEN \E len \in Lengths : Write(len) ELSE UNCHANGED sinkVars
  /\ UNCHANGED <<mainVars, produced>>

\* ring_buffer__poll returns when it finds the ring empty, after its timeout or a
\* signal; what is submitted from then on waits for the next poll.
PollReturns ==
  /\ pc = "poll" /\ ring = <<>>
  /\ pc' = "loop"
  /\ UNCHANGED <<g_running, obj, links, tried, rb, started, degraded, exit_code, pipeVars, sinkVars>>

\* After the loop: Stop, return 0, destroy the sink.
Shutdown ==
  /\ pc = "stop"
  /\ StopCollector
  /\ exit_code' = 0 /\ pc' = "exited"
  /\ Destroy
  /\ UNCHANGED <<g_running, tried, degraded, produced, metrics, delivered>>

Main == BuildSink \/ OpenObject \/ ApplyConfig \/ AttachProgram \/ FinishStart
          \/ LoopTest \/ OnRingBufferEvent \/ PollReturns \/ Shutdown

-----------------------------------------------------------------------------
(* The surroundings.                                                       *)

\* An attached program submits an event; a full ring loses it.
Produce(class) ==
  /\ links > 0 /\ produced < MaxEvents
  /\ produced' = produced + 1
  /\ ring' = IF Len(ring) < RingSlots THEN Append(ring, [n |-> produced + 1, class |-> class])
             ELSE ring
  /\ UNCHANGED <<mainVars, metrics, delivered, sinkVars>>

OnSignal ==
  /\ pc # "exited"
  /\ g_running' = FALSE
  /\ UNCHANGED <<pc, obj, links, tried, rb, started, degraded, exit_code, pipeVars, sinkVars>>

Time == pc # "exited" /\ Tick /\ UNCHANGED <<mainVars, pipeVars>>

DaemonNext == Main \/ (\E class \in EventClass : Produce(class)) \/ OnSignal \/ Time

\* main is one thread that is always scheduled again, and time goes on.  Nothing
\* obliges the system to produce an event or a user to send a signal.
DaemonSpec == DaemonInit /\ [][DaemonNext]_daemonVars
              /\ WF_daemonVars(Main) /\ WF_daemonVars(Time)

-----------------------------------------------------------------------------
(* Properties.                                                             *)

\* Type correctness.
DaemonTypeOK ==
  /\ SinkTypeOK
  /\ pc \in {"sink", "start", "configure", "attach", "loop", "poll", "stop", "exited"}
  /\ links \in 0 .. tried /\ tried \in 0 .. NumPrograms
  /\ Len(ring) <= RingSlots
  /\ exit_code \in {0, 1}

\* On every way out, failed starts included, Stop has released the reader, the
\* links and the object, the sink is flushed, and a start that failed delivered
\* nothing (collector.h: no events will be produced).
CleanExit ==
  pc = "exited" =>
    /\ ~started /\ ~rb /\ links = 0 /\ ~obj /\ buffered = <<>>
    /\ exit_code = 1 => delivered = <<>> /\ (ready => degraded)

\* The callback sees each event at most once and in the order the ring was
\* filled, and nothing vanishes between the callback and the file: what was
\* decoded and was not the engine's own reached the sink.
OrderedDelivery ==
  /\ \A i, j \in DOMAIN delivered : i < j => delivered[i].n < delivered[j].n
  /\ \A i \in DOMAIN ring, j \in DOMAIN delivered : delivered[j].n < ring[i].n
  /\ metrics.received = metrics.decoded + metrics.dropped
  /\ written = Cardinality({i \in DOMAIN delivered : delivered[i].class = "event"})

\* docs/verification-checklist.md, degraded-mode honesty: an engine that runs
\* without all of its programs says so in the startup report.
DegradedIsReported == started /\ links < NumPrograms => degraded

\* A signal, whenever it comes, leads to the end of main, provided the programs
\* stop producing long enough for ring_buffer__poll to find the ring empty once
\* (MaxEvents sees to it in a run): poll does not look at g_running between events.
SignalEndsMain == <>[][FALSE]_produced => (~g_running ~> pc = "exited")

\* docs/setup.md: output is flushed periodically so external readers can consume
\* it in near real time.  A record in the stream reaches the file.
NearRealTime == buffered # <<>> ~> buffered = <<>>
=============================================================================
