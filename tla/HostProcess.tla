----------------------------- MODULE HostProcess -----------------------------
(***************************************************************************)
(* One host service managed by embedserv/host_process_manager.py: the      *)
(* embedding proxy or the document server of full mode.                    *)
(*                                                                         *)
(* start and stop are commands of the Makefile, one at a time; either may  *)
(* be killed between two steps, and the service it has launched runs on.   *)
(* A process is known by its pid and by the token on its command line.     *)
(* The system gives a free pid to anybody.                                 *)
(***************************************************************************)
EXTENDS Naturals

CONSTANTS
    Pids,
    MaxTokens,  \* bound on the launches; every launch has a new token
    NONE

Configs == {"old", "new"}

VARIABLES
    record,    \* the record file: its pid, token and configuration
    proc,      \* proc[i]: the process with pid i, or NONE
    launched,  \* tokens given out so far
    command,   \* the command under way: its step, and what it holds
    signals,   \* the tokens of the processes that were sent SIGTERM
    strays     \* tokens of launches that were killed before their record

hostVars == <<record, proc, launched, command, signals, strays>>

Idle == [step |-> "idle", config |-> NONE, pid |-> NONE]

(* serves: it listens on the port.  A process of another program that has  *)
(* a pid has no token.                                                     *)
Foreign == [token |-> 0, config |-> NONE, serves |-> FALSE]

Processes == {i \in Pids : proc[i] # NONE}

Ours == {i \in Processes : proc[i].token > 0}

PortTaken == \E i \in Processes : proc[i].serves

NoRecord == [pid |-> NONE, token |-> 0, config |-> NONE]

Malformed == [NoRecord EXCEPT !.config = "malformed"]

IsRecord(r) == r.pid # NONE

(* Mutant of Owned: the pid is enough.                                     *)
OwnedByPid(r) == IsRecord(r) /\ r.pid \in Processes

(* The recorded process lives and carries the recorded token.              *)
Owned(r) ==
    /\ IsRecord(r)
    /\ r.pid \in Processes
    /\ proc[r.pid].token = r.token

Init ==
    /\ record \in {NoRecord, Malformed}
    /\ proc \in [Pids -> {NONE, Foreign}]
    /\ launched = 0
    /\ command = Idle
    /\ signals = {} /\ strays = {}

TypeOK ==
    /\ record \in [pid : Pids \cup {NONE}, token : 0..MaxTokens,
                   config : Configs \cup {NONE, "malformed"}]
    /\ proc \in [Pids -> [token : 0..MaxTokens, config : Configs \cup {NONE},
                          serves : BOOLEAN] \cup {NONE}]
    /\ launched \in 0..MaxTokens
    /\ command \in [step : {"idle", "start", "launch", "write", "wait", "stopping",
                            "terminating"},
                    config : Configs \cup {NONE}, pid : Pids \cup {NONE}]
    /\ signals \subseteq 0..MaxTokens /\ strays \subseteq 1..MaxTokens

Goto(step) == command' = [command EXCEPT !.step = step]

Done == command' = Idle

Unchanging == UNCHANGED <<proc, launched, signals, strays>>

-----------------------------------------------------------------------------
(* start, with the configuration the command line and files amount to.     *)
BeginStart ==
    /\ command = Idle
    /\ \E c \in Configs : command' = [Idle EXCEPT !.step = "start", !.config = c]
    /\ UNCHANGED record /\ Unchanging

(* Ready as recorded, not ready, or not to be trusted: nothing is done.    *)
StartRefuses ==
    /\ command.step = "start"
    /\ \/ record = Malformed
       \/ Owned(record) /\ record.config = command.config
       \/ ~Owned(record) /\ PortTaken
       \/ IsRecord(record) /\ ~Owned(record) /\ record.pid \in Processes
    /\ Done /\ UNCHANGED record /\ Unchanging

StartRestarts ==
    /\ command.step = "start"
    /\ Owned(record) /\ record.config # command.config
    /\ command' = [command EXCEPT !.step = "stopping", !.pid = record.pid]
    /\ signals' = signals \cup {proc[record.pid].token}
    /\ UNCHANGED <<record, proc, launched, strays>>

StartClears ==
    /\ command.step = "start"
    /\ record = NoRecord \/ (IsRecord(record) /\ ~Owned(record)
                           /\ record.pid \notin Processes)
    /\ ~PortTaken
    /\ record' = NoRecord
    /\ Goto("launch")
    /\ Unchanging

(* Popen; the new process has yet to listen.                               *)
Launch ==
    /\ command.step = "launch"
    /\ launched < MaxTokens
    /\ launched' = launched + 1
    /\ \E i \in Pids \ Processes :
          /\ proc' = [proc EXCEPT ![i] =
                [token |-> launched', config |-> command.config, serves |-> FALSE]]
          /\ command' = [command EXCEPT !.step = "write", !.pid = i]
    /\ UNCHANGED <<record, signals, strays>>

(* The record is replaced in one step.                                     *)
Write ==
    /\ command.step = "write"
    /\ record' = [pid |-> command.pid, token |-> launched, config |-> command.config]
    /\ Goto("wait")
    /\ Unchanging

(* The child of this command; its pid is not reused before it is reaped.   *)
Child == command.pid \in Processes /\ proc[command.pid].token = launched

StartReady ==
    /\ command.step = "wait" /\ PortTaken
    /\ Done /\ UNCHANGED record /\ Unchanging

StartExited ==
    /\ command.step = "wait" /\ ~Child
    /\ record' = NoRecord
    /\ Done /\ Unchanging

StartTimesOut ==
    /\ command.step = "wait" /\ Child
    /\ signals' = signals \cup {launched}
    /\ Goto("terminating")
    /\ UNCHANGED <<record, proc, launched, strays>>

-----------------------------------------------------------------------------
(* stop: a record that names no process of ours is dropped.                *)
Stop ==
    /\ command = Idle
    /\ record # NoRecord
    /\ IF Owned(record)
         THEN /\ command' = [Idle EXCEPT !.step = "stopping", !.pid = record.pid]
              /\ signals' = signals \cup {proc[record.pid].token}
              /\ UNCHANGED record
         ELSE record' = NoRecord /\ UNCHANGED <<command, signals>>
    /\ UNCHANGED <<proc, launched, strays>>

(* The service that is stopping is gone: its pid is nobody's, or it was    *)
(* this command's own child.                                               *)
Gone == IF command.step = "terminating" THEN ~Child ELSE command.pid \notin Processes

(* Only then does the record go; a restart looks at the port again.        *)
Stopped ==
    /\ command.step \in {"stopping", "terminating"}
    /\ Gone
    /\ record' = NoRecord
    /\ IF command.step = "stopping" /\ command.config # NONE THEN Goto("start")
                                                            ELSE Done
    /\ Unchanging

StopTimesOut ==
    /\ command.step \in {"stopping", "terminating"}
    /\ ~Gone
    /\ Done /\ UNCHANGED record /\ Unchanging

(* The command is killed.  Between the launch and its record it leaves a   *)
(* service nobody knows of.                                                *)
Killed ==
    /\ command # Idle
    /\ strays' = IF command.step = "write" THEN strays \cup {launched} ELSE strays
    /\ Done
    /\ UNCHANGED <<record, proc, launched, signals>>

-----------------------------------------------------------------------------
(* The processes.                                                          *)
Listens(i) ==
    /\ i \in Ours /\ ~PortTaken
    /\ proc' = [proc EXCEPT ![i].serves = TRUE]
    /\ UNCHANGED <<record, launched, command, signals, strays>>

Exits(i) ==
    /\ i \in Processes
    /\ proc' = [proc EXCEPT ![i] = NONE]
    /\ UNCHANGED <<record, launched, command, signals, strays>>

(* Another program gets a free pid; it may listen on the port.             *)
Appears(i) ==
    /\ i \notin Processes
    /\ \E takes \in BOOLEAN :
          /\ takes => ~PortTaken
          /\ proc' = [proc EXCEPT ![i] = [Foreign EXCEPT !.serves = takes]]
    /\ UNCHANGED <<record, launched, command, signals, strays>>

Next ==
    \/ BeginStart \/ StartRefuses \/ StartRestarts \/ StartClears
    \/ Launch \/ Write \/ StartReady \/ StartExited \/ StartTimesOut
    \/ Stop \/ Stopped \/ StopTimesOut \/ Killed
    \/ \E i \in Pids : Listens(i) \/ Exits(i) \/ Appears(i)

Spec == Init /\ [][Next]_hostVars
-----------------------------------------------------------------------------
(* Only a process this manager has launched is ever sent a signal, although *)
(* its pid may have gone to somebody else (test_stop_never_signals_a_       *)
(* reused_pid; _owned, _stop_owned).                                       *)
SignalsOnlyOurs == 0 \notin signals

(* Between commands every service of ours that runs is the recorded one:   *)
(* no restart, failed stop or killed command loses one, except a kill      *)
(* between the launch and its record.  So there is one at most.            *)
RunningIsRecorded ==
    command = Idle =>
        \A i \in Ours : proc[i].token \notin strays =>
            Owned(record) /\ record.pid = i

HostSound == TypeOK /\ SignalsOnlyOurs /\ RunningIsRecorded
-----------------------------------------------------------------------------
(* The inductive invariant behind HostSound.  What a command holds at each *)
(* step,                                                                   *)
CommandHolds ==
    /\ command.step = "launch" => record = NoRecord
    /\ command.step = "write" => record = NoRecord /\ launched > 0
    /\ command.step \in {"wait", "terminating"} =>
          record.pid = command.pid /\ record.token = launched /\ launched > 0
    /\ command.step = "stopping" => record.pid = command.pid

(* that a record names a launch,                                           *)
RecordNamesALaunch == IsRecord(record) => record.token > 0

(* and that a service is unrecorded only while its launch is being         *)
(* recorded.                                                               *)
RecordedOrInHand ==
    \A i \in Ours : proc[i].token \notin strays =>
        \/ Owned(record) /\ record.pid = i
        \/ command.step = "write" /\ command.pid = i /\ proc[i].token = launched

HostInv == HostSound /\ CommandHolds /\ RecordNamesALaunch /\ RecordedOrInHand
=============================================================================
