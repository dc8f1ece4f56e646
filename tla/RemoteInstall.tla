----------------------------- MODULE RemoteInstall -----------------------------
(***************************************************************************)
(* Axon on a remote host, as AxonRemoteOperationLinux and                  *)
(* AxonRemoteOperationWindows install, start, stop and register it: each   *)
(* operation is a list of commands run over ssh, and the first that fails  *)
(* raises. What systemctl and sc do to the service is the host's doing:    *)
(* systemctl waits for the service to be gone, sc stop does not, and       *)
(* neither starts what runs.                                               *)
(***************************************************************************)
EXTENDS Sequences

CONSTANTS
  Systems,   \* operating systems looked at
  Versions,  \* of the package
  Events,    \* "fail": a command fails by itself, with or without effect; "death"
  None

InstallAssumption ==
  /\ Systems \subseteq {"linux", "windows"} /\ None \notin Versions
  /\ Events \subseteq {"fail", "death"}

VARIABLES
  os,     \* the host's system; never changes
  host,   \* pkg: the version installed; unit: "no", "yes", or "marked" for deletion;
          \* svc: "stopped", "running", "stopping"; loaded: the version that runs
  cmds,   \* commands of the operation that are still to run
  op,     \* the operation in progress, or the last one
  ver,    \* the version it installs
  ret,    \* "busy", "ok" or "raised"
  kept,   \* its attempt to stop the service failed without need
  want    \* the version of the last installation, if that was remote_install_sdist

vars == <<os, host, cmds, op, ver, ret, kept, want>>

-----------------------------------------------------------------------------
(* Operations are the commands they run; those that only copy or look at a *)
(* file, or prepare the host, are one.                                     *)

BaseProgram(o) ==
  CASE o = "pypi" -> <<"pip">>
    [] o = "uninstall" -> <<"remove">>

\* Mutant: a running service is not stopped before the package is installed.
LinuxProgramUnstopped(o) ==
  CASE o = "sdist" -> <<"prepare", "pip">>
    [] o = "requirements" -> <<"prepare">>
    [] o = "distribution" -> <<"prepare", "dpkg">>
    [] o \in {"start", "stop", "restart"} -> <<o>>

LinuxProgram(o) ==
  CASE o = "sdist" -> <<"trystop", "prepare", "pip">>
    [] o = "requirements" -> <<"prepare">>
    [] o = "distribution" -> <<"prepare", "dpkg">>
    [] o \in {"start", "stop", "restart"} -> <<o>>

WindowsProgram(o) ==
  CASE o = "sdist" -> <<"prepare", "trystop", "prepare", "pip">>
    [] o = "requirements" -> <<"prepare">>
    [] o = "register" -> <<"create">>
    [] o = "start" -> <<"prepare", "start">>
    [] o = "stop" -> <<"stop">>
    [] o = "restart" -> <<"query", "stop", "prepare", "start">>
    [] o = "unregister" -> <<"query", "stop", "delete">>

BaseOps == {"pypi", "uninstall"}
LinuxOps == {"sdist", "requirements", "distribution", "start", "stop", "restart"}
WindowsOps == {"sdist", "requirements", "register", "start", "stop", "restart", "unregister"}

Program(o) ==
  IF o \in BaseOps THEN BaseProgram(o)
  ELSE IF os = "linux" THEN LinuxProgram(o) ELSE WindowsProgram(o)

Installs == {"sdist", "pypi", "distribution", "uninstall"}

-----------------------------------------------------------------------------
(* What the host does for a command, and when it cannot.                   *)

Known == host.unit = "yes"

Can(c) ==
  CASE c = "create" -> host.pkg # None /\ host.unit = "no"
    [] c = "delete" -> Known
    [] c \in {"stop", "trystop"} -> Known /\ (os = "windows" => host.svc = "running")
    [] c = "restart" -> Known /\ host.pkg # None
    [] c = "start" -> /\ Known
                      /\ \/ host.svc = "running" /\ os = "linux"
                         \/ host.svc = "stopped" /\ host.pkg # None
    [] c \in {"pip", "dpkg", "remove", "prepare", "query"} -> TRUE

Stopped == [host EXCEPT !.svc = "stopped", !.loaded = None]

Started(h) == IF h.svc = "running" THEN h ELSE [h EXCEPT !.svc = "running", !.loaded = h.pkg]

\* The package of a Linux host brings the service with it, and starts it.
After(c) ==
  CASE c = "pip" -> [host EXCEPT !.pkg = ver]
    [] c = "dpkg" -> Started([host EXCEPT !.pkg = ver, !.unit = "yes"])
    [] c = "remove" -> [host EXCEPT !.pkg = None]
    [] c = "create" -> [host EXCEPT !.unit = "yes"]
    [] c = "delete" -> [host EXCEPT !.unit = IF host.svc = "stopped" THEN "no" ELSE "marked"]
    [] c \in {"stop", "trystop"} ->
         IF os = "linux" THEN Stopped ELSE [host EXCEPT !.svc = "stopping"]
    [] c = "restart" -> Started(Stopped)
    [] c = "start" -> Started(host)
    [] c \in {"prepare", "query"} -> host

-----------------------------------------------------------------------------
Init ==
  /\ os \in Systems
  /\ host = [pkg |-> None, unit |-> "no", svc |-> "stopped", loaded |-> None]
  /\ cmds = <<>> /\ op = "none" /\ ver = None /\ ret = "ok" /\ kept = FALSE /\ want = None

Begin(o, v) ==
  /\ cmds = <<>>
  /\ op' = o /\ ver' = v /\ cmds' = Program(o) /\ ret' = "busy" /\ kept' = FALSE
  /\ want' = IF o \in Installs THEN None ELSE want
  /\ UNCHANGED <<os, host>>

\* remote_is_running_axon tells whether there is a stop to send.
Left == IF Head(cmds) = "query" /\ host.svc # "running" THEN Tail(Tail(cmds)) ELSE Tail(cmds)

Run ==
  /\ cmds # <<>> /\ Can(Head(cmds))
  /\ host' = After(Head(cmds))
  /\ cmds' = Left
  /\ ret' = IF Left = <<>> THEN "ok" ELSE "busy"
  /\ want' = IF op = "sdist" /\ Left = <<>> /\ ~ kept THEN ver ELSE want
  /\ UNCHANGED <<os, op, ver, kept>>

\* The command cannot be done, or fails by itself. The operation raises, but an
\* installation whose attempt to stop the service fails goes on.
Fail ==
  /\ cmds # <<>>
  /\ \/ /\ ~ Can(Head(cmds)) /\ UNCHANGED kept
        /\ host' = IF Known /\ Head(cmds) = "restart" THEN Stopped ELSE host
     \/ /\ "fail" \in Events /\ Can(Head(cmds))
        /\ host' \in {host, After(Head(cmds))} /\ kept' = (os = "linux")
  /\ IF Head(cmds) = "trystop"
     THEN cmds' = Tail(cmds) /\ UNCHANGED ret
     ELSE cmds' = <<>> /\ ret' = "raised"
  /\ UNCHANGED <<os, op, ver, want>>

\* A service that was told to stop is gone, or one dies.
Gone ==
  /\ host.svc = "stopping" \/ ("death" \in Events /\ host.svc = "running")
  /\ host' = [Stopped EXCEPT !.unit = IF @ = "marked" THEN "no" ELSE @]
  /\ UNCHANGED <<os, cmds, op, ver, ret, kept, want>>

\* Somebody sets up the service of a Linux host by hand (doc/INSTALL.rst).
SetUp ==
  /\ os = "linux" /\ host.unit = "no"
  /\ host' = [host EXCEPT !.unit = "yes"]
  /\ UNCHANGED <<os, cmds, op, ver, ret, kept, want>>

Next ==
  \/ \E v \in Versions : \/ \E o \in BaseOps : Begin(o, v)
                         \/ os = "linux" /\ \E o \in LinuxOps : Begin(o, v)
                         \/ os = "windows" /\ \E o \in WindowsOps : Begin(o, v)
  \/ Run \/ Fail \/ Gone \/ SetUp

Spec == Init /\ [][Next]_vars

-----------------------------------------------------------------------------
TypeOK ==
  /\ os \in Systems
  /\ host \in [pkg : Versions \cup {None}, unit : {"no", "yes", "marked"},
              svc : {"stopped", "running", "stopping"}, loaded : Versions \cup {None}]
  /\ ver \in Versions \cup {None} /\ want \in Versions \cup {None}
  /\ ret \in {"busy", "ok", "raised"} /\ kept \in BOOLEAN

(* When remote_install_sdist has returned and then a start or a restart,   *)
(* what runs is what was installed, and not what ran before: the running   *)
(* service was stopped first, or the start fails. On Linux unless the stop *)
(* failed although it could be done, which the installation conceals.      *)
InstalledRuns ==
  (op \in {"start", "restart"} /\ ret = "ok" /\ want # None) =>
    (host.svc = "running" => host.loaded = want)

(* In case service is already running, we have to stop that: pip installs  *)
(* when the service is not there (comment in remote_install_sdist).        *)
InstallsStopped ==
  (op = "sdist" /\ cmds = <<"pip">> /\ ~ kept) => host.svc = "stopped"

(* remote_restart_axon does not leave a service stopped that ran before.   *)
RestartKeepsRunning ==
  [][ (op = "restart" /\ ret = "busy" /\ ret' = "raised") => host'.svc # "stopped" ]_vars
=============================================================================
