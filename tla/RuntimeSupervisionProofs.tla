---------------------- MODULE RuntimeSupervisionProofs ----------------------
(***************************************************************************)
(* Proofs about RuntimeSupervision, for any number of Runtimes: its type   *)
(* invariant, its three safety invariants and its two action properties.   *)
(*                                                                         *)
(* The invariants are proved together with IndInv, which adds how the      *)
(* state of one Runtime hangs together: how far its bootstrap is, what     *)
(* Main knows of its process and of its connection, how far its cleanup    *)
(* is.                                                                     *)
(***************************************************************************)
EXTENDS RuntimeSupervision, TLAPS

\* Before there is a process, before there is a connection, before the hello.
NotHosted == {"idle", "registering", "launching", "refused"}
NotLinked == NotHosted \cup {"acquiring", "unlinked"}
NotGreeted == NotLinked \cup {"identifying"}

MayRun(k) == fate[k] \in {"running", "lost"}

\* What holds of a Runtime whatever the session does.
RuntimeInv(k) ==
    /\ step[k] \in NotHosted <=> fate[k] = "none"
    /\ step[k] \in NotLinked => link[k] = "none"
    /\ step[k] \in NotGreeted => reported[k] = "awaiting"
    /\ identified[k] <=> step[k] \in {"readying", "done"}
    /\ fate[k] # "none" \/ step[k] = "launching" => phase[k] # "none"
    /\ Failed(k) => fate[k] # "none"
    /\ link[k] # "none" => fate[k] # "none"
    /\ physicallyTerminated[k] => fate[k] = "exited"
    /\ attempt[k] # 0 => asked[k]
    /\ Failed(k) /\ MayRun(k) => asked[k]
    /\ statusTurn[k] = "failed" => reported[k] = "failed"

\* What the cleanup of a Runtime has done so far.
CleanupInv(k) ==
    /\ cleanup[k] # "none" \/ shutdownRequested[k] => terminal # "none"
    /\ terminal # "none" /\ fate[k] # "none" => cleanup[k] # "none"
    /\ asked[k] => Failed(k) \/ cleanup[k] \in {"terminate", "linger", "done"}
    /\ cleanup[k] \in {"shutdown", "natural"} => identified[k]
    /\ cleanup[k] = "closing" => link[k] # "none"
    /\ cleanup[k] \in {"terminate", "linger", "done"} /\ MayRun(k) => asked[k]
    /\ cleanup[k] \in {"shutdown", "natural"} /\ asked[k] => reported[k] = "failed"

\* While the Runtimes are being established, the phase of a Runtime follows
\* what it has reported.
BootstrapInv(k) ==
    ~frameAuthorityStarted /\ terminal = "none" =>
        /\ ~Failed(k)
        /\ step[k] = "identifying" => phase[k] = "connected"
        /\ step[k] \in {"readying", "done"} => phase[k] = reported[k]
        /\ step[k] = "done" => phase[k] = "ready"

\* The lane is contended only after the bootstrap.
SessionInv ==
    /\ ~frameAuthorityStarted => LaneFree /\ \A k \in Runtimes : statusTurn[k] = "none"
    /\ frameAuthorityStarted => \A k \in Runtimes : step[k] = "done"
    /\ settled => terminal # "none" /\ \A k \in Runtimes : cleanup[k] \in {"none", "done"}

IndInv ==
    /\ TypeOK
    /\ SessionInv
    /\ \A k \in Runtimes : RuntimeInv(k) /\ CleanupInv(k) /\ BootstrapInv(k)

----------------------------------------------------------------------------
\* Where the cleanup of a Runtime begins.
CleanupBegins(k, F) ==
    /\ cleanup'[k] \in {"none", "shutdown", "closing", "terminate", "done"}
    /\ cleanup'[k] = "none" => phase[k] = "none"
    /\ cleanup'[k] = "shutdown" => identified[k] /\ k \notin F /\ phase[k] # "failed"
    /\ cleanup'[k] = "closing" => link[k] # "none"
    /\ cleanup'[k] = "done" => fate[k] = "none" \/ physicallyTerminated'[k]
    /\ cleanup'[k] = "terminate" => asked'[k] \/ attempt[k] # 0

\* What markRuntimeFailed and the three ways to end the session do to the
\* session and to each Runtime.
SessionEffect(t) ==
    /\ phase' \in [Runtimes -> Phases]
    /\ shutdownRequested' \in [Runtimes -> BOOLEAN]
    /\ link' \in [Runtimes -> {"none", "up", "down"}]
    /\ attempt' \in [Runtimes -> 0..2]
    /\ asked' \in [Runtimes -> BOOLEAN]
    /\ cleanup' \in [Runtimes -> Cleanups]
    /\ terminal' \in Terminals
    /\ terminal # "none" \/ t = "none" => terminal' = terminal /\ cleanup' = cleanup
    /\ terminal = "none" /\ t # "none" => terminal' = t

RuntimeEffect(k, F, t) ==
    /\ phase'[k] = "failed" <=> k \in F \/ phase[k] = "failed"
    /\ phase'[k] \in {phase[k], "stopping", "failed"}
    /\ shutdownRequested'[k] # shutdownRequested[k] => terminal = "none" /\ t # "none"
    /\ phase'[k] # phase[k] /\ k \notin F => terminal = "none" /\ t # "none" /\ link[k] # "none"
    /\ link'[k] = "none" <=> link[k] = "none"
    /\ asked[k] => asked'[k]
    /\ attempt'[k] # 0 => attempt[k] # 0 \/ asked'[k]
    /\ k \in F /\ fate[k] # "none" /\ ~physicallyTerminated'[k] => asked'[k] \/ attempt[k] # 0
    /\ asked'[k] # asked[k] =>
            k \in F \/ (terminal = "none" /\ t # "none" /\ cleanup'[k] = "terminate")
    /\ terminal = "none" /\ t # "none" => CleanupBegins(k, F)

\* What FailAndEnd does to one Runtime, field by field.
LEMMA FailAndEndFacts ==
    ASSUME TypeOK, NEW F \in SUBSET Runtimes, NEW t \in Terminals, FailAndEnd(F, t),
           physicallyTerminated' \in [Runtimes -> BOOLEAN]
    PROVE  SessionEffect(t) /\ \A k \in Runtimes : RuntimeEffect(k, F, t)
  <1> DEFINE ph == [k \in Runtimes |-> IF k \in F THEN "failed" ELSE phase[k]]
             ends == t # "none" /\ terminal = "none"
             begins(k, c) == ends /\ CleanupStart(k, ph) = c
             asks == F \cup {k \in Runtimes : begins(k, "terminate")}
             starting == {k \in asks : Hosted(k) /\ ~physicallyTerminated'[k] /\ attempt[k] = 0}
  <1>1. /\ terminal' = IF ends THEN t ELSE terminal
        /\ cleanup' = IF ends THEN [k \in Runtimes |-> CleanupStart(k, ph)] ELSE cleanup
        /\ phase' = [k \in Runtimes |-> IF begins(k, "shutdown") THEN "stopping" ELSE ph[k]]
        /\ shutdownRequested' =
                [k \in Runtimes |-> shutdownRequested[k] \/ begins(k, "shutdown")]
        /\ link' = [k \in Runtimes |->
                        IF begins(k, "shutdown") /\ reported[k] = "failed"
                        THEN "down" ELSE link[k]]
        /\ attempt' = [k \in Runtimes |-> IF k \in starting THEN 1 ELSE attempt[k]]
        /\ asked' = [k \in Runtimes |-> asked[k] \/ k \in starting]
    BY DEF FailAndEnd, Ask
  <1>2. \A k \in Runtimes : ph[k] \in Phases
    BY DEF TypeOK, Phases, Statuses
  <1>3. \A k \in Runtimes :
          /\ CleanupStart(k, ph) \in {"none", "shutdown", "closing", "terminate", "done"}
          /\ CleanupStart(k, ph) = "none" => ph[k] = "none"
          /\ CleanupStart(k, ph) = "shutdown" =>
                link[k] # "none" /\ identified[k] /\ ph[k] # "failed"
          /\ CleanupStart(k, ph) = "closing" => link[k] # "none"
          /\ CleanupStart(k, ph) = "done" => ~Hosted(k) \/ physicallyTerminated'[k]
          /\ CleanupStart(k, ph) = "terminate" => Hosted(k) /\ ~physicallyTerminated'[k]
    BY DEF CleanupStart
  <1> HIDE DEF ph
  <1>4. \A k \in Runtimes : ph[k] = IF k \in F THEN "failed" ELSE phase[k]
    BY DEF ph
  <1>5. /\ phase' \in [Runtimes -> Phases]
        /\ shutdownRequested' \in [Runtimes -> BOOLEAN]
        /\ link' \in [Runtimes -> {"none", "up", "down"}]
        /\ terminal' \in Terminals
    BY <1>1, <1>2 DEF TypeOK, Phases, Statuses
  <1>6. /\ attempt' \in [Runtimes -> 0..2]
        /\ asked' \in [Runtimes -> BOOLEAN]
    BY <1>1 DEF TypeOK
  <1>7. cleanup' \in [Runtimes -> Cleanups]
    BY <1>1, <1>3 DEF TypeOK, Cleanups
  <1>8. ASSUME NEW k \in Runtimes
        PROVE  /\ phase'[k] = "failed" <=> k \in F \/ phase[k] = "failed"
               /\ phase'[k] \in {phase[k], "stopping", "failed"}
               /\ shutdownRequested'[k] # shutdownRequested[k] => terminal = "none" /\ t # "none"
               /\ phase'[k] # phase[k] /\ k \notin F =>
                        terminal = "none" /\ t # "none" /\ link[k] # "none"
               /\ link'[k] = "none" <=> link[k] = "none"
    BY <1>1, <1>3, <1>4 DEF TypeOK
  <1>9. ASSUME NEW k \in Runtimes
        PROVE  /\ asked[k] => asked'[k]
               /\ attempt'[k] # 0 => attempt[k] # 0 \/ asked'[k]
               /\ k \in F /\ fate[k] # "none" /\ ~physicallyTerminated'[k] =>
                        asked'[k] \/ attempt[k] # 0
               /\ asked'[k] # asked[k] =>
                        \/ k \in F
                        \/ terminal = "none" /\ t # "none" /\ cleanup'[k] = "terminate"
    BY <1>1 DEF TypeOK, Hosted
  <1>10. ASSUME NEW k \in Runtimes, terminal = "none", t # "none"
         PROVE  CleanupBegins(k, F)
    BY <1>1, <1>3, <1>4, <1>10 DEF CleanupBegins, Hosted
  <1> QED
    BY <1>1, <1>5, <1>6, <1>7, <1>8, <1>9, <1>10 DEF SessionEffect, RuntimeEffect

----------------------------------------------------------------------------
\* The steps that neither fail a Runtime nor end the session: each changes one
\* Runtime's state, or none, and keeps the invariant by its guard.
USE DEF recordVars, peerVars, processVars, terminationVars, sessionVars, LaneFree, Stopped,
        Failed, MayRun, NotHosted, NotLinked, NotGreeted, Goto

\* Starting a Runtime's bootstrap task keeps the invariant.
LEMMA BootstrapRuntimeStep ==
    ASSUME IndInv, NEW k \in Runtimes, BootstrapRuntime(k)
    PROVE  IndInv'
  <1>1. TypeOK'
    BY DEF IndInv, TypeOK, Steps, Phases, Statuses, PeerPhases, Cleanups, BootstrapRuntime,
           BootstrapTurn
  <1>2. SessionInv'
    BY DEF IndInv, TypeOK, SessionInv, BootstrapRuntime, BootstrapTurn
  <1>3. ASSUME NEW j \in Runtimes PROVE RuntimeInv(j)'
    BY DEF IndInv, TypeOK, SessionInv, RuntimeInv, BootstrapInv, BootstrapRuntime, BootstrapTurn
  <1>4. ASSUME NEW j \in Runtimes PROVE CleanupInv(j)'
    BY DEF IndInv, TypeOK, SessionInv, RuntimeInv, CleanupInv, BootstrapInv, BootstrapRuntime,
           BootstrapTurn
  <1>5. ASSUME NEW j \in Runtimes PROVE BootstrapInv(j)'
    BY DEF IndInv, TypeOK, SessionInv, RuntimeInv, BootstrapInv, BootstrapRuntime, BootstrapTurn
  <1> QED
    BY <1>1, <1>2, <1>3, <1>4, <1>5 DEF IndInv

\* Registering the record keeps the invariant, also when the session has ended.
LEMMA RegisterStep == ASSUME IndInv, NEW k \in Runtimes, Register(k) PROVE IndInv'
  <1>1. TypeOK'
    BY DEF IndInv, TypeOK, Steps, Phases, Statuses, PeerPhases, Cleanups, Register
  <1>2. SessionInv'
    BY DEF IndInv, TypeOK, SessionInv, Register
  <1>3. ASSUME NEW j \in Runtimes PROVE RuntimeInv(j)'
    BY DEF IndInv, TypeOK, SessionInv, RuntimeInv, BootstrapInv, Register
  <1>4. ASSUME NEW j \in Runtimes PROVE CleanupInv(j)'
    BY DEF IndInv, TypeOK, SessionInv, RuntimeInv, CleanupInv, BootstrapInv, Register
  <1>5. ASSUME NEW j \in Runtimes PROVE BootstrapInv(j)'
    BY DEF IndInv, TypeOK, SessionInv, RuntimeInv, BootstrapInv, Register
  <1> QED
    BY <1>1, <1>2, <1>3, <1>4, <1>5 DEF IndInv

\* A launched process belongs to a Runtime that no cleanup has passed over.
LEMMA LaunchSucceedsStep == ASSUME IndInv, NEW k \in Runtimes, LaunchSucceeds(k) PROVE IndInv'
  <1>1. TypeOK'
    BY DEF IndInv, TypeOK, Steps, Phases, Statuses, PeerPhases, Cleanups, LaunchSucceeds
  <1>2. SessionInv'
    BY DEF IndInv, TypeOK, SessionInv, LaunchSucceeds
  <1>3. ASSUME NEW j \in Runtimes PROVE RuntimeInv(j)'
    BY DEF IndInv, TypeOK, SessionInv, RuntimeInv, BootstrapInv, LaunchSucceeds
  <1>4. ASSUME NEW j \in Runtimes PROVE CleanupInv(j)'
    BY DEF IndInv, TypeOK, SessionInv, RuntimeInv, CleanupInv, BootstrapInv, LaunchSucceeds
  <1>5. ASSUME NEW j \in Runtimes PROVE BootstrapInv(j)'
    BY DEF IndInv, TypeOK, SessionInv, RuntimeInv, BootstrapInv, LaunchSucceeds
  <1> QED
    BY <1>1, <1>2, <1>3, <1>4, <1>5 DEF IndInv

\* A new connection belongs to a Runtime whose cleanup has not begun.
LEMMA AcquireSucceedsStep == ASSUME IndInv, NEW k \in Runtimes, AcquireSucceeds(k) PROVE IndInv'
  <1>1. TypeOK'
    BY DEF IndInv, TypeOK, Steps, Phases, Statuses, PeerPhases, Cleanups, AcquireSucceeds
  <1>2. SessionInv'
    BY DEF IndInv, TypeOK, SessionInv, AcquireSucceeds
  <1>3. ASSUME NEW j \in Runtimes PROVE RuntimeInv(j)'
    BY DEF IndInv, TypeOK, SessionInv, RuntimeInv, BootstrapInv, AcquireSucceeds
  <1>4. ASSUME NEW j \in Runtimes PROVE CleanupInv(j)'
    BY DEF IndInv, TypeOK, SessionInv, RuntimeInv, CleanupInv, BootstrapInv, AcquireSucceeds
  <1>5. ASSUME NEW j \in Runtimes PROVE BootstrapInv(j)'
    BY DEF IndInv, TypeOK, SessionInv, RuntimeInv, BootstrapInv, AcquireSucceeds
  <1> QED
    BY <1>1, <1>2, <1>3, <1>4, <1>5 DEF IndInv

\* An accepted hello identifies the Runtime, whatever the session has become.
LEMMA HelloAcceptedStep == ASSUME IndInv, NEW k \in Runtimes, HelloAccepted(k) PROVE IndInv'
  <1>1. TypeOK'
    BY DEF IndInv, TypeOK, Steps, Phases, Statuses, PeerPhases, Cleanups, HelloAccepted
  <1>2. SessionInv'
    BY DEF IndInv, TypeOK, SessionInv, HelloAccepted
  <1>3. ASSUME NEW j \in Runtimes PROVE RuntimeInv(j)'
    BY DEF IndInv, TypeOK, SessionInv, RuntimeInv, BootstrapInv, HelloAccepted
  <1>4. ASSUME NEW j \in Runtimes PROVE CleanupInv(j)'
    BY DEF IndInv, TypeOK, SessionInv, RuntimeInv, CleanupInv, BootstrapInv, HelloAccepted
  <1>5. ASSUME NEW j \in Runtimes PROVE BootstrapInv(j)'
    BY DEF IndInv, TypeOK, SessionInv, RuntimeInv, BootstrapInv, HelloAccepted
  <1> QED
    BY <1>1, <1>2, <1>3, <1>4, <1>5 DEF IndInv

\* A bootstrap task that is done leaves its Runtime ready.
LEMMA ReadyContinuesStep == ASSUME IndInv, NEW k \in Runtimes, ReadyContinues(k) PROVE IndInv'
  <1>1. TypeOK'
    BY DEF IndInv, TypeOK, Steps, Phases, Statuses, PeerPhases, Cleanups, ReadyContinues
  <1>2. SessionInv'
    BY DEF IndInv, TypeOK, SessionInv, ReadyContinues
  <1>3. ASSUME NEW j \in Runtimes PROVE RuntimeInv(j)'
    BY DEF IndInv, TypeOK, SessionInv, RuntimeInv, BootstrapInv, ReadyContinues
  <1>4. ASSUME NEW j \in Runtimes PROVE CleanupInv(j)'
    BY DEF IndInv, TypeOK, SessionInv, RuntimeInv, CleanupInv, BootstrapInv, ReadyContinues
  <1>5. ASSUME NEW j \in Runtimes PROVE BootstrapInv(j)'
    BY DEF IndInv, TypeOK, SessionInv, RuntimeInv, BootstrapInv, ReadyContinues
  <1> QED
    BY <1>1, <1>2, <1>3, <1>4, <1>5 DEF IndInv

\* The start of the Frame authority keeps the invariant.
LEMMA FrameAuthorityStartsStep == ASSUME IndInv, FrameAuthorityStarts PROVE IndInv'
  <1>1. TypeOK'
    BY DEF IndInv, TypeOK, Steps, Phases, Statuses, PeerPhases, Cleanups, FrameAuthorityStarts
  <1>2. SessionInv'
    BY DEF IndInv, TypeOK, SessionInv, FrameAuthorityStarts
  <1>3. ASSUME NEW j \in Runtimes PROVE RuntimeInv(j)'
    BY DEF IndInv, TypeOK, SessionInv, RuntimeInv, BootstrapInv, FrameAuthorityStarts
  <1>4. ASSUME NEW j \in Runtimes PROVE CleanupInv(j)'
    BY DEF IndInv, TypeOK, SessionInv, RuntimeInv, CleanupInv, BootstrapInv,
           FrameAuthorityStarts
  <1>5. ASSUME NEW j \in Runtimes PROVE BootstrapInv(j)'
    BY DEF IndInv, TypeOK, SessionInv, RuntimeInv, BootstrapInv, FrameAuthorityStarts
  <1> QED
    BY <1>1, <1>2, <1>3, <1>4, <1>5 DEF IndInv

\* The loss of a connection alone disturbs nothing.
LEMMA LinkEndsStep == ASSUME IndInv, NEW k \in Runtimes, LinkEnds(k) PROVE IndInv'
  <1>1. TypeOK'
    BY DEF IndInv, TypeOK, Steps, Phases, Statuses, PeerPhases, Cleanups, LinkEnds
  <1>2. SessionInv'
    BY DEF IndInv, TypeOK, SessionInv, LinkEnds
  <1>3. ASSUME NEW j \in Runtimes PROVE RuntimeInv(j)'
    BY DEF IndInv, TypeOK, SessionInv, RuntimeInv, BootstrapInv, LinkEnds
  <1>4. ASSUME NEW j \in Runtimes PROVE CleanupInv(j)'
    BY DEF IndInv, TypeOK, SessionInv, RuntimeInv, CleanupInv, BootstrapInv, LinkEnds
  <1>5. ASSUME NEW j \in Runtimes PROVE BootstrapInv(j)'
    BY DEF IndInv, TypeOK, SessionInv, RuntimeInv, BootstrapInv, LinkEnds
  <1> QED
    BY <1>1, <1>2, <1>3, <1>4, <1>5 DEF IndInv

\* The end of a process alone disturbs nothing.
LEMMA ProcessEndsStep == ASSUME IndInv, NEW k \in Runtimes, ProcessEnds(k) PROVE IndInv'
  <1>1. TypeOK'
    BY DEF IndInv, TypeOK, Steps, Phases, Statuses, PeerPhases, Cleanups, ProcessEnds
  <1>2. SessionInv'
    BY DEF IndInv, TypeOK, SessionInv, ProcessEnds
  <1>3. ASSUME NEW j \in Runtimes PROVE RuntimeInv(j)'
    BY DEF IndInv, TypeOK, SessionInv, RuntimeInv, BootstrapInv, ProcessEnds
  <1>4. ASSUME NEW j \in Runtimes PROVE CleanupInv(j)'
    BY DEF IndInv, TypeOK, SessionInv, RuntimeInv, CleanupInv, BootstrapInv, ProcessEnds
  <1>5. ASSUME NEW j \in Runtimes PROVE BootstrapInv(j)'
    BY DEF IndInv, TypeOK, SessionInv, RuntimeInv, BootstrapInv, ProcessEnds
  <1> QED
    BY <1>1, <1>2, <1>3, <1>4, <1>5 DEF IndInv

\* The request to stop keeps the invariant: its turn is queued with it.
LEMMA RequestShutdownStep == ASSUME IndInv, RequestShutdown PROVE IndInv'
  <1>1. TypeOK'
    BY DEF IndInv, TypeOK, Steps, Phases, Statuses, PeerPhases, Cleanups, RequestShutdown
  <1>2. SessionInv'
    BY DEF IndInv, TypeOK, SessionInv, RequestShutdown
  <1>3. ASSUME NEW j \in Runtimes PROVE RuntimeInv(j)'
    BY DEF IndInv, TypeOK, SessionInv, RuntimeInv, BootstrapInv, RequestShutdown
  <1>4. ASSUME NEW j \in Runtimes PROVE CleanupInv(j)'
    BY DEF IndInv, TypeOK, SessionInv, RuntimeInv, CleanupInv, BootstrapInv, RequestShutdown
  <1>5. ASSUME NEW j \in Runtimes PROVE BootstrapInv(j)'
    BY DEF IndInv, TypeOK, SessionInv, RuntimeInv, BootstrapInv, RequestShutdown
  <1> QED
    BY <1>1, <1>2, <1>3, <1>4, <1>5 DEF IndInv

\* A Frame operation takes the lane of a started session only.
LEMMA FrameOperationStep == ASSUME IndInv, FrameOperation PROVE IndInv'
  <1>1. TypeOK'
    BY DEF IndInv, TypeOK, Steps, Phases, Statuses, PeerPhases, Cleanups, FrameOperation
  <1>2. SessionInv'
    BY DEF IndInv, TypeOK, SessionInv, FrameOperation
  <1>3. ASSUME NEW j \in Runtimes PROVE RuntimeInv(j)'
    BY DEF IndInv, TypeOK, SessionInv, RuntimeInv, BootstrapInv, FrameOperation
  <1>4. ASSUME NEW j \in Runtimes PROVE CleanupInv(j)'
    BY DEF IndInv, TypeOK, SessionInv, RuntimeInv, CleanupInv, BootstrapInv, FrameOperation
  <1>5. ASSUME NEW j \in Runtimes PROVE BootstrapInv(j)'
    BY DEF IndInv, TypeOK, SessionInv, RuntimeInv, BootstrapInv, FrameOperation
  <1> QED
    BY <1>1, <1>2, <1>3, <1>4, <1>5 DEF IndInv

\* Releasing the lane keeps the invariant.
LEMMA FrameOperationEndsStep == ASSUME IndInv, FrameOperationEnds PROVE IndInv'
  <1>1. TypeOK'
    BY DEF IndInv, TypeOK, Steps, Phases, Statuses, PeerPhases, Cleanups, FrameOperationEnds
  <1>2. SessionInv'
    BY DEF IndInv, TypeOK, SessionInv, FrameOperationEnds
  <1>3. ASSUME NEW j \in Runtimes PROVE RuntimeInv(j)'
    BY DEF IndInv, TypeOK, SessionInv, RuntimeInv, BootstrapInv, FrameOperationEnds
  <1>4. ASSUME NEW j \in Runtimes PROVE CleanupInv(j)'
    BY DEF IndInv, TypeOK, SessionInv, RuntimeInv, CleanupInv, BootstrapInv, FrameOperationEnds
  <1>5. ASSUME NEW j \in Runtimes PROVE BootstrapInv(j)'
    BY DEF IndInv, TypeOK, SessionInv, RuntimeInv, BootstrapInv, FrameOperationEnds
  <1> QED
    BY <1>1, <1>2, <1>3, <1>4, <1>5 DEF IndInv

\* An accepted subsystem.shutdown leads to the natural wait, or to the end.
LEMMA ShutdownAcceptedStep ==
    ASSUME IndInv, NEW k \in Runtimes, ShutdownAccepted(k)
    PROVE  IndInv'
  <1>1. TypeOK'
    BY DEF IndInv, TypeOK, Steps, Phases, Statuses, PeerPhases, Cleanups, ShutdownAccepted
  <1>2. SessionInv'
    BY DEF IndInv, TypeOK, SessionInv, ShutdownAccepted
  <1>3. ASSUME NEW j \in Runtimes PROVE RuntimeInv(j)'
    BY DEF IndInv, TypeOK, SessionInv, RuntimeInv, BootstrapInv, ShutdownAccepted
  <1>4. ASSUME NEW j \in Runtimes PROVE CleanupInv(j)'
    BY DEF IndInv, TypeOK, SessionInv, RuntimeInv, CleanupInv, BootstrapInv, ShutdownAccepted
  <1>5. ASSUME NEW j \in Runtimes PROVE BootstrapInv(j)'
    BY DEF IndInv, TypeOK, SessionInv, RuntimeInv, BootstrapInv, ShutdownAccepted
  <1> QED
    BY <1>1, <1>2, <1>3, <1>4, <1>5 DEF IndInv

\* A termination attempt that ends has been asked for.
LEMMA AttemptEndsStep == ASSUME IndInv, NEW k \in Runtimes, AttemptEnds(k) PROVE IndInv'
  <1>1. TypeOK'
    BY DEF IndInv, TypeOK, Steps, Phases, Statuses, PeerPhases, Cleanups, AttemptEnds
  <1>2. SessionInv'
    BY DEF IndInv, TypeOK, SessionInv, AttemptEnds
  <1>3. ASSUME NEW j \in Runtimes PROVE RuntimeInv(j)'
    BY DEF IndInv, TypeOK, SessionInv, RuntimeInv, BootstrapInv, AttemptEnds
  <1>4. ASSUME NEW j \in Runtimes PROVE CleanupInv(j)'
    BY DEF IndInv, TypeOK, SessionInv, RuntimeInv, CleanupInv, BootstrapInv, AttemptEnds
  <1>5. ASSUME NEW j \in Runtimes PROVE BootstrapInv(j)'
    BY DEF IndInv, TypeOK, SessionInv, RuntimeInv, BootstrapInv, AttemptEnds
  <1> QED
    BY <1>1, <1>2, <1>3, <1>4, <1>5 DEF IndInv

\* The retry of a termination request keeps the invariant.
LEMMA RetryStep == ASSUME IndInv, NEW k \in Runtimes, Retry(k) PROVE IndInv'
  <1>1. TypeOK'
    BY DEF IndInv, TypeOK, Steps, Phases, Statuses, PeerPhases, Cleanups, Retry
  <1>2. SessionInv'
    BY DEF IndInv, TypeOK, SessionInv, Retry
  <1>3. ASSUME NEW j \in Runtimes PROVE RuntimeInv(j)'
    BY DEF IndInv, TypeOK, SessionInv, RuntimeInv, BootstrapInv, Retry
  <1>4. ASSUME NEW j \in Runtimes PROVE CleanupInv(j)'
    BY DEF IndInv, TypeOK, SessionInv, RuntimeInv, CleanupInv, BootstrapInv, Retry
  <1>5. ASSUME NEW j \in Runtimes PROVE BootstrapInv(j)'
    BY DEF IndInv, TypeOK, SessionInv, RuntimeInv, BootstrapInv, Retry
  <1> QED
    BY <1>1, <1>2, <1>3, <1>4, <1>5 DEF IndInv

\* The last wait of a cleanup keeps the invariant.
LEMMA LingerEndsStep == ASSUME IndInv, NEW k \in Runtimes, LingerEnds(k) PROVE IndInv'
  <1>1. TypeOK'
    BY DEF IndInv, TypeOK, Steps, Phases, Statuses, PeerPhases, Cleanups, LingerEnds
  <1>2. SessionInv'
    BY DEF IndInv, TypeOK, SessionInv, LingerEnds
  <1>3. ASSUME NEW j \in Runtimes PROVE RuntimeInv(j)'
    BY DEF IndInv, TypeOK, SessionInv, RuntimeInv, BootstrapInv, LingerEnds
  <1>4. ASSUME NEW j \in Runtimes PROVE CleanupInv(j)'
    BY DEF IndInv, TypeOK, SessionInv, RuntimeInv, CleanupInv, BootstrapInv, LingerEnds
  <1>5. ASSUME NEW j \in Runtimes PROVE BootstrapInv(j)'
    BY DEF IndInv, TypeOK, SessionInv, RuntimeInv, BootstrapInv, LingerEnds
  <1> QED
    BY <1>1, <1>2, <1>3, <1>4, <1>5 DEF IndInv

\* run() settles only when every process that may run has been asked to end.
LEMMA SessionSettlesStep == ASSUME IndInv, SessionSettles PROVE IndInv'
  <1>1. TypeOK'
    BY DEF IndInv, TypeOK, Steps, Phases, Statuses, PeerPhases, Cleanups, SessionSettles
  <1>2. SessionInv'
    BY DEF IndInv, TypeOK, SessionInv, SessionSettles
  <1>3. ASSUME NEW j \in Runtimes PROVE RuntimeInv(j)'
    BY DEF IndInv, TypeOK, SessionInv, RuntimeInv, BootstrapInv, SessionSettles
  <1>4. ASSUME NEW j \in Runtimes PROVE CleanupInv(j)'
    BY DEF IndInv, TypeOK, SessionInv, RuntimeInv, CleanupInv, BootstrapInv, SessionSettles
  <1>5. ASSUME NEW j \in Runtimes PROVE BootstrapInv(j)'
    BY DEF IndInv, TypeOK, SessionInv, RuntimeInv, BootstrapInv, SessionSettles
  <1> QED
    BY <1>1, <1>2, <1>3, <1>4, <1>5 DEF IndInv

----------------------------------------------------------------------------
\* The steps that fail the Runtimes of F, or end the session with t, or both,
\* and what such a step may change besides.
FailureStep(F, t) ==
    /\ FailAndEnd(F, t)
    /\ UNCHANGED <<identified, fate, frameAuthorityStarted, settled>>
    /\ ~settled
    /\ stopRequested' \in BOOLEAN /\ shutdownQueued' \in BOOLEAN
    /\ lane' \in {"free", "frame"} /\ (~frameAuthorityStarted => lane' = lane)
    /\ step' \in [Runtimes -> Steps]
    /\ \A j \in Runtimes :
        \/ step'[j] = step[j]
        \/ step[j] \in {"idle", "launching"} /\ step'[j] = "refused"
        \/ step[j] = "acquiring" /\ step'[j] = "unlinked"
        \/ step[j] = "identifying" /\ step'[j] = "rejected"
    /\ reported' \in [Runtimes -> PeerPhases]
    /\ \A j \in Runtimes :
        \/ reported'[j] = reported[j]
        \/ /\ reported'[j] = "failed"
           /\ step'[j] \notin NotGreeted
           /\ step'[j] = "rejected" \/ frameAuthorityStarted \/ t # "none"
    /\ statusTurn' \in [Runtimes -> Statuses \cup {"none"}]
    /\ \A j \in Runtimes : statusTurn'[j] \in {statusTurn[j], "none"}
    /\ physicallyTerminated' \in [Runtimes -> BOOLEAN]
    /\ \A j \in Runtimes : physicallyTerminated'[j] => fate[j] = "exited"
    /\ \A j \in Runtimes : physicallyTerminated[j] => physicallyTerminated'[j]
    /\ F # {} /\ ~frameAuthorityStarted => t # "none"
    /\ \A j \in F : Hosted(j) /\ (terminal # "none" => reported'[j] = "failed")

\* A step that fails Runtimes or ends the session keeps the invariant.
LEMMA FailureStepKeeps ==
    ASSUME IndInv, NEW F \in SUBSET Runtimes, NEW t \in Terminals, FailureStep(F, t)
    PROVE  IndInv'
  <1>1. SessionEffect(t) /\ \A j \in Runtimes : RuntimeEffect(j, F, t)
    BY FailAndEndFacts DEF IndInv, FailureStep
  <1>2. TypeOK'
    BY <1>1 DEF IndInv, TypeOK, FailureStep, SessionEffect
  <1>3. SessionInv'
    BY DEF IndInv, TypeOK, SessionInv, FailureStep
  <1>4. ASSUME NEW j \in Runtimes
        PROVE  RuntimeInv(j)' /\ CleanupInv(j)' /\ BootstrapInv(j)'
    <2>1. SessionEffect(t) /\ RuntimeEffect(j, F, t)
      BY <1>1
    <2>4. RuntimeInv(j) /\ CleanupInv(j) /\ BootstrapInv(j)
      BY DEF IndInv
    <2>5. RuntimeInv(j)'
      BY <2>1, <2>4 DEF RuntimeInv, RuntimeEffect, FailureStep, IndInv, TypeOK, Hosted
    <2>6. CleanupInv(j)'
      BY <2>1, <2>4
      DEF RuntimeInv, CleanupInv, SessionEffect, RuntimeEffect, CleanupBegins, FailureStep,
          IndInv, TypeOK, Hosted
    <2>7. BootstrapInv(j)'
      BY <2>1, <2>4 DEF BootstrapInv, SessionEffect, RuntimeEffect, FailureStep
    <2> QED
      BY <2>5, <2>6, <2>7
  <1> QED
    BY <1>2, <1>3, <1>4 DEF IndInv

\* Each step that fails a Runtime or ends the session is such a step.
LEMMA TokenRefusedStep ==
    ASSUME IndInv, NEW k \in Runtimes, TokenRefused(k), ~settled
    PROVE  IndInv'
  <1>1. FailureStep({}, "fatal")
    BY DEF FailureStep, EndSession, IndInv, TypeOK, Steps, PeerPhases, Terminals, TokenRefused,
           BootstrapTurn, RuntimeInv
  <1> QED
    BY <1>1, FailureStepKeeps DEF Terminals

\* A launch that fails is a failure step.
LEMMA LaunchFailsStep ==
    ASSUME IndInv, NEW k \in Runtimes, LaunchFails(k), ~settled
    PROVE  IndInv'
  <1>1. FailureStep({}, IF Stopped THEN "none" ELSE "fatal")
    BY DEF FailureStep, EndSession, IndInv, TypeOK, Steps, PeerPhases, Terminals, LaunchFails,
           RuntimeInv
  <1> QED
    BY <1>1, FailureStepKeeps DEF Terminals

\* An acquire that fails is a failure step.
LEMMA AcquireFailsStep ==
    ASSUME IndInv, NEW k \in Runtimes, AcquireFails(k), ~settled
    PROVE  IndInv'
  <1>1. FailureStep({}, IF Stopped THEN "none" ELSE "fatal")
    BY DEF FailureStep, EndSession, IndInv, TypeOK, Steps, PeerPhases, Terminals, AcquireFails,
           RuntimeInv
  <1> QED
    BY <1>1, FailureStepKeeps DEF Terminals

\* A refused hello is a failure step.
LEMMA HelloRejectedStep ==
    ASSUME IndInv, NEW k \in Runtimes, HelloRejected(k), ~settled
    PROVE  IndInv'
  <1>1. FailureStep({}, IF Stopped THEN "none" ELSE "fatal")
    BY DEF FailureStep, EndSession, IndInv, TypeOK, Steps, PeerPhases, Terminals, HelloRejected,
           RuntimeInv
  <1> QED
    BY <1>1, FailureStepKeeps DEF Terminals

\* The bootstrap deadline is a failure step.
LEMMA BootstrapDeadlineStep ==
    ASSUME IndInv, NEW k \in Runtimes, BootstrapDeadline(k), ~settled
    PROVE  IndInv'
  <1>1. FailureStep({}, "fatal")
    BY DEF FailureStep, EndSession, IndInv, TypeOK, Steps, PeerPhases, Terminals,
           BootstrapDeadline, RuntimeInv
  <1> QED
    BY <1>1, FailureStepKeeps DEF Terminals

\* The turn of a requested shutdown is a failure step.
LEMMA BeginShutdownStep == ASSUME IndInv, BeginShutdown, ~settled PROVE IndInv'
  <1>1. FailureStep({}, "shutdown")
    BY DEF FailureStep, EndSession, IndInv, TypeOK, Steps, PeerPhases, Terminals, BeginShutdown,
           RuntimeInv
  <1> QED
    BY <1>1, FailureStepKeeps DEF Terminals

\* A terminal authority is a failure step.
LEMMA AuthorityFatalStep == ASSUME IndInv, AuthorityFatal, ~settled PROVE IndInv'
  <1>1. FailureStep({}, "fatal")
    BY DEF FailureStep, EndSession, IndInv, TypeOK, Steps, PeerPhases, Terminals,
           AuthorityFatal, RuntimeInv
  <1> QED
    BY <1>1, FailureStepKeeps DEF Terminals

\* watchControl's continuation is a failure step.
LEMMA WatchControlStep ==
    ASSUME IndInv, NEW k \in Runtimes, WatchControl(k), ~settled
    PROVE  IndInv'
  <1>1. FailureStep({k}, IF frameAuthorityStarted THEN "none" ELSE "fatal")
    BY DEF FailureStep, EndSession, IndInv, TypeOK, Steps, PeerPhases, Terminals, WatchControl,
           FailRuntime, RuntimeInv, SessionInv, Hosted
  <1> QED
    BY <1>1, FailureStepKeeps DEF Terminals

\* A failed Frame RPC is a failure step.
LEMMA FrameOperationFailsStep ==
    ASSUME IndInv, NEW k \in Runtimes, FrameOperationFails(k), ~settled
    PROVE  IndInv'
  <1>1. FailureStep({k}, "none")
    BY DEF FailureStep, EndSession, IndInv, TypeOK, Steps, PeerPhases, Terminals,
           FrameOperationFails, RuntimeInv, SessionInv, Hosted
  <1> QED
    BY <1>1, FailureStepKeeps DEF Terminals

\* A Frame operation that ends the session is a failure step.
LEMMA FrameOperationEndsSessionStep ==
    ASSUME IndInv, FrameOperationEndsSession, ~settled PROVE IndInv'
  <1>1. PICK t \in {"root", "fatal"} : EndSession(t)
    BY DEF FrameOperationEndsSession
  <1>2. FailureStep({}, t)
    BY <1>1 DEF FailureStep, EndSession, IndInv, TypeOK, Steps, PeerPhases, Terminals,
                FrameOperationEndsSession, RuntimeInv, SessionInv
  <1> QED
    BY <1>2, FailureStepKeeps DEF Terminals

\* A status that reports no failure, or comes from a Runtime that has failed,
\* or waits for the lane, ends nothing.
LEMMA StatusArrivesStep ==
    ASSUME IndInv, NEW k \in Runtimes, NEW s \in Statuses, StatusArrives(k, s), ~settled
    PROVE  IndInv'
  <1>1. CASE LaneFree /\ ~Failed(k) /\ s = "failed"
    <2>1. FailureStep({k}, IF frameAuthorityStarted THEN "none" ELSE "fatal")
      BY <1>1 DEF FailureStep, IndInv, TypeOK, Statuses, PeerPhases, Terminals, StatusArrives,
                  StatusAllowed, HandleStatus, FailRuntime, RuntimeInv, SessionInv, Hosted
    <2> QED
      BY <2>1, FailureStepKeeps DEF Terminals
  <1>3. CASE ~(LaneFree /\ ~Failed(k) /\ s = "failed")
    <2>1. TypeOK'
      BY <1>3 DEF IndInv, TypeOK, Steps, Phases, Statuses, PeerPhases, Cleanups, Terminals,
                  StatusArrives, StatusAllowed, HandleStatus
    <2>2. SessionInv'
      BY <1>3 DEF IndInv, TypeOK, SessionInv, StatusArrives, StatusAllowed,
          HandleStatus
    <2>3. ASSUME NEW j \in Runtimes PROVE RuntimeInv(j)'
      BY <1>3 DEF IndInv, TypeOK, Steps, Phases, Statuses, PeerPhases, Cleanups, Terminals,
                  SessionInv, RuntimeInv, BootstrapInv, StatusArrives, StatusAllowed,
                  HandleStatus
    <2>4. ASSUME NEW j \in Runtimes PROVE CleanupInv(j)'
      BY <1>3 DEF IndInv, TypeOK, RuntimeInv, CleanupInv, StatusArrives, StatusAllowed,
          HandleStatus
    <2>5. ASSUME NEW j \in Runtimes PROVE BootstrapInv(j)'
      BY <1>3 DEF IndInv, TypeOK, Steps, Phases, Statuses, PeerPhases, Cleanups, Terminals,
                  SessionInv, RuntimeInv, CleanupInv, BootstrapInv, StatusArrives,
                  StatusAllowed, HandleStatus
    <2> QED
      BY <2>1, <2>2, <2>3, <2>4, <2>5 DEF IndInv
  <1> QED
    BY <1>1, <1>3

\* A status whose turn has come fails its Runtime or moves its phase.
LEMMA OnStatusStep == ASSUME IndInv, NEW k \in Runtimes, OnStatus(k), ~settled PROVE IndInv'
  <1>1. statusTurn[k] \in Statuses
    BY DEF IndInv, TypeOK, OnStatus
  <1>2. CASE ~Failed(k) /\ statusTurn[k] = "failed"
    <2>1. reported[k] = "failed" /\ Hosted(k)
      BY <1>2 DEF IndInv, RuntimeInv, Hosted
    <2>2. statusTurn' \in [Runtimes -> Statuses \cup {"none"}]
      BY DEF OnStatus, IndInv, TypeOK
    <2>3. FailureStep({k}, IF frameAuthorityStarted THEN "none" ELSE "fatal")
      BY <1>2, <2>1, <2>2
      DEF FailureStep, IndInv, TypeOK, PeerPhases, Terminals, OnStatus, HandleStatus,
          FailRuntime, RuntimeInv
    <2> QED
      BY <2>3, FailureStepKeeps DEF Terminals
  <1>3. CASE ~(~Failed(k) /\ statusTurn[k] = "failed")
    <2>1. TypeOK'
      BY <1>1, <1>3 DEF IndInv, TypeOK, Steps, Phases, Statuses, PeerPhases, Cleanups,
                        Terminals, OnStatus, HandleStatus
    <2>2. SessionInv'
      BY <1>1, <1>3 DEF IndInv, TypeOK, SessionInv, OnStatus, HandleStatus
    <2>3. ASSUME NEW j \in Runtimes PROVE RuntimeInv(j)'
      BY <1>1, <1>3 DEF IndInv, TypeOK, Steps, Phases, Statuses, PeerPhases, Cleanups,
                        Terminals, SessionInv, RuntimeInv, BootstrapInv, OnStatus, HandleStatus
    <2>4. ASSUME NEW j \in Runtimes PROVE CleanupInv(j)'
      BY <1>1, <1>3 DEF IndInv, TypeOK, RuntimeInv, CleanupInv, OnStatus, HandleStatus
    <2>5. ASSUME NEW j \in Runtimes PROVE BootstrapInv(j)'
      BY <1>1, <1>3 DEF IndInv, TypeOK, Steps, Phases, Statuses, PeerPhases, Cleanups,
                        Terminals, SessionInv, RuntimeInv, CleanupInv, BootstrapInv, OnStatus,
                        HandleStatus
    <2> QED
      BY <2>1, <2>2, <2>3, <2>4, <2>5 DEF IndInv
  <1> QED
    BY <1>2, <1>3

\* watchPhysicalRuntime's continuation observes the exit and may fail the Runtime.
LEMMA WatchPhysicalRuntimeStep ==
    ASSUME IndInv, NEW k \in Runtimes, WatchPhysicalRuntime(k), ~settled PROVE IndInv'
  <1>1. physicallyTerminated' \in [Runtimes -> BOOLEAN]
    BY DEF IndInv, TypeOK, WatchPhysicalRuntime
  <1>2. CASE ~(Failed(k) \/ terminal # "none")
    <2>1. FailureStep({k}, IF frameAuthorityStarted THEN "none" ELSE "fatal")
      BY <1>1, <1>2 DEF FailureStep, IndInv, TypeOK, PeerPhases, Terminals, FailRuntime,
                        WatchPhysicalRuntime, RuntimeInv, SessionInv, Hosted
    <2> QED
      BY <2>1, FailureStepKeeps DEF Terminals
  <1>3. CASE Failed(k) \/ terminal # "none"
    <2>1. TypeOK'
      BY <1>1, <1>3 DEF IndInv, TypeOK, Steps, Phases, Statuses, PeerPhases, Cleanups,
                        Terminals, WatchPhysicalRuntime
    <2>2. SessionInv'
      BY <1>1, <1>3 DEF IndInv, TypeOK, SessionInv, WatchPhysicalRuntime
    <2>3. ASSUME NEW j \in Runtimes PROVE RuntimeInv(j)'
      BY <1>1, <1>3 DEF IndInv, TypeOK, Steps, Phases, Statuses, PeerPhases, Cleanups,
                        Terminals, SessionInv, RuntimeInv, BootstrapInv, WatchPhysicalRuntime
    <2>4. ASSUME NEW j \in Runtimes PROVE CleanupInv(j)'
      BY <1>1, <1>3 DEF IndInv, TypeOK, RuntimeInv, CleanupInv, WatchPhysicalRuntime
    <2>5. ASSUME NEW j \in Runtimes PROVE BootstrapInv(j)'
      BY <1>1, <1>3 DEF IndInv, TypeOK, Steps, Phases, Statuses, PeerPhases, Cleanups,
                        Terminals, SessionInv, RuntimeInv, CleanupInv, BootstrapInv,
                        WatchPhysicalRuntime
    <2> QED
      BY <2>1, <2>2, <2>3, <2>4, <2>5 DEF IndInv
  <1> QED
    BY <1>2, <1>3

\* What Escalate does to the Runtime whose graceful shutdown is over.
LEMMA EscalateFacts ==
    ASSUME IndInv, NEW k \in Runtimes, Escalate(k), UNCHANGED physicallyTerminated
    PROVE  /\ attempt' \in [Runtimes -> 0..2]
           /\ asked' \in [Runtimes -> BOOLEAN]
           /\ cleanup' = [cleanup EXCEPT ![k] = IF physicallyTerminated[k] THEN "done" ELSE "terminate"]
           /\ \A j \in Runtimes :
                /\ asked[j] => asked'[j]
                /\ j # k => asked'[j] = asked[j] /\ attempt'[j] = attempt[j]
                /\ attempt'[j] # 0 => attempt[j] # 0 \/ asked'[j]
           /\ Hosted(k) /\ ~physicallyTerminated[k] => asked'[k] \/ attempt[k] # 0
           /\ physicallyTerminated[k] => asked'[k] = asked[k]
  <1>1. CASE physicallyTerminated[k]
    BY <1>1 DEF Escalate, IndInv, TypeOK
  <1>2. CASE ~physicallyTerminated[k]
    <2> DEFINE starting == {j \in {k} : Hosted(j) /\ ~physicallyTerminated'[j] /\ attempt[j] = 0}
    <2>1. /\ cleanup' = [cleanup EXCEPT ![k] = "terminate"]
          /\ attempt' = [j \in Runtimes |-> IF j \in starting THEN 1 ELSE attempt[j]]
          /\ asked' = [j \in Runtimes |-> asked[j] \/ j \in starting]
      BY <1>2 DEF Escalate, Ask
    <2>2. attempt' \in [Runtimes -> 0..2] /\ asked' \in [Runtimes -> BOOLEAN]
      BY <2>1 DEF IndInv, TypeOK
    <2>3. Hosted(k) => asked'[k] \/ attempt[k] # 0
      BY <1>2, <2>1 DEF IndInv, TypeOK
    <2>4. ASSUME NEW j \in Runtimes
          PROVE  /\ asked[j] => asked'[j]
                 /\ j # k => asked'[j] = asked[j] /\ attempt'[j] = attempt[j]
                 /\ attempt'[j] # 0 => attempt[j] # 0 \/ asked'[j]
      BY <2>1 DEF IndInv, TypeOK
    <2> QED
      BY <1>2, <2>1, <2>2, <2>3, <2>4
  <1> QED
    BY <1>1, <1>2

\* The end of the graceful part, whatever ended it.
LEMMA EscalateStep ==
    ASSUME IndInv, NEW k \in Runtimes, Escalate(k),
           cleanup[k] \in {"shutdown", "closing", "natural"},
           link' \in {link, [link EXCEPT ![k] = "down"]},
           UNCHANGED <<step, recordVars, reported, statusTurn, processVars, lane, terminal,
                       sessionVars>>,
           ~settled
    PROVE  IndInv'
  <1>1. /\ attempt' \in [Runtimes -> 0..2]
        /\ asked' \in [Runtimes -> BOOLEAN]
        /\ cleanup' = [cleanup EXCEPT ![k] =
                            IF physicallyTerminated[k] THEN "done" ELSE "terminate"]
        /\ \A j \in Runtimes :
            /\ asked[j] => asked'[j]
            /\ j # k => asked'[j] = asked[j] /\ attempt'[j] = attempt[j]
            /\ attempt'[j] # 0 => attempt[j] # 0 \/ asked'[j]
        /\ Hosted(k) /\ ~physicallyTerminated[k] => asked'[k] \/ attempt[k] # 0
        /\ physicallyTerminated[k] => asked'[k] = asked[k]
    BY EscalateFacts
  <1>2. link' \in [Runtimes -> {"none", "up", "down"}]
    BY DEF IndInv, TypeOK
  <1>3. \A j \in Runtimes : link'[j] # link[j] => j = k
    BY DEF IndInv, TypeOK
  <1>4. step[k] \notin NotLinked /\ fate[k] # "none"
    BY DEF IndInv, RuntimeInv, CleanupInv
  <1>5. TypeOK'
    BY <1>1, <1>2 DEF IndInv, TypeOK, Cleanups
  <1>6. SessionInv'
    BY <1>1 DEF IndInv, TypeOK, SessionInv
  <1>7. ASSUME NEW j \in Runtimes PROVE RuntimeInv(j)'
    BY <1>1, <1>3, <1>4 DEF IndInv, TypeOK, RuntimeInv
  <1>8. ASSUME NEW j \in Runtimes PROVE CleanupInv(j)'
    BY <1>1, <1>3, <1>4 DEF IndInv, TypeOK, RuntimeInv, CleanupInv, Hosted
  <1>9. ASSUME NEW j \in Runtimes PROVE BootstrapInv(j)'
    BY DEF IndInv, BootstrapInv
  <1> QED
    BY <1>5, <1>6, <1>7, <1>8, <1>9 DEF IndInv

\* A failed subsystem.shutdown ends the graceful part.
LEMMA ShutdownFailsStep ==
    ASSUME IndInv, NEW k \in Runtimes, ShutdownFails(k), ~settled PROVE IndInv'
  BY EscalateStep DEF ShutdownFails

\* The close of an unidentified peer ends the graceful part.
LEMMA PeerClosesStep ==
    ASSUME IndInv, NEW k \in Runtimes, PeerCloses(k), ~settled PROVE IndInv'
  BY EscalateStep DEF PeerCloses

\* The bounded wait for the exit ends the graceful part.
LEMMA NaturalWaitEndsStep ==
    ASSUME IndInv, NEW k \in Runtimes, NaturalWaitEnds(k), ~settled PROVE IndInv'
  <1>1. CASE fate[k] = "exited"
    <2>1. TypeOK'
      BY <1>1 DEF IndInv, TypeOK, Cleanups, NaturalWaitEnds, peerVars
    <2>2. SessionInv'
      BY <1>1 DEF IndInv, TypeOK, SessionInv, NaturalWaitEnds
    <2>3. ASSUME NEW j \in Runtimes PROVE RuntimeInv(j)'
      BY <1>1 DEF IndInv, TypeOK, RuntimeInv, NaturalWaitEnds
    <2>4. ASSUME NEW j \in Runtimes PROVE CleanupInv(j)'
      BY <1>1 DEF IndInv, TypeOK, CleanupInv, NaturalWaitEnds
    <2>5. ASSUME NEW j \in Runtimes PROVE BootstrapInv(j)'
      BY <1>1 DEF IndInv, TypeOK, BootstrapInv, NaturalWaitEnds
    <2> QED
      BY <2>1, <2>2, <2>3, <2>4, <2>5 DEF IndInv
  <1>2. CASE fate[k] # "exited"
    BY <1>2, EscalateStep DEF NaturalWaitEnds
  <1> QED
    BY <1>1, <1>2

----------------------------------------------------------------------------
\* The invariant holds in the initial state.
LEMMA InitIndInv == Init => IndInv
  <1> SUFFICES ASSUME Init PROVE IndInv
    OBVIOUS
  <1>1. TypeOK
    <2>1. attempt \in [Runtimes -> 0..2]
      BY DEF Init
    <2>2. step \in [Runtimes -> Steps] /\ phase \in [Runtimes -> Phases]
      BY DEF Init, Steps, Phases, Statuses
    <2>3. reported \in [Runtimes -> PeerPhases] /\ statusTurn \in [Runtimes -> Statuses \cup {"none"}]
      BY DEF Init, PeerPhases, Statuses
    <2>4. cleanup \in [Runtimes -> Cleanups] /\ terminal \in Terminals
      BY DEF Init, Cleanups, Terminals
    <2> QED
      BY <2>1, <2>2, <2>3, <2>4 DEF Init, TypeOK
  <1>2. SessionInv
    BY DEF Init, SessionInv
  <1>3. ASSUME NEW k \in Runtimes PROVE RuntimeInv(k) /\ CleanupInv(k) /\ BootstrapInv(k)
    BY DEF Init, RuntimeInv, CleanupInv, BootstrapInv
  <1> QED
    BY <1>1, <1>2, <1>3 DEF IndInv

\* Every step keeps the invariant.
LEMMA NextIndInv == IndInv /\ [Next]_vars => IndInv'
  <1> SUFFICES ASSUME IndInv, [Next]_vars PROVE IndInv'
    OBVIOUS
  <1>1. CASE UNCHANGED vars
    BY <1>1 DEF vars, IndInv, TypeOK, SessionInv, RuntimeInv, CleanupInv, BootstrapInv
  <1>2. ASSUME ~settled, NEW k \in Runtimes, Bootstrap(k) PROVE IndInv'
    BY <1>2, BootstrapRuntimeStep, RegisterStep, LaunchFailsStep, AcquireFailsStep,
       ReadyContinuesStep, BootstrapDeadlineStep
    DEF Bootstrap
  <1>3. ASSUME ~settled, NEW k \in Runtimes, Environment(k) PROVE IndInv'
    BY <1>3, TokenRefusedStep, LaunchSucceedsStep, AcquireSucceedsStep, HelloAcceptedStep,
       HelloRejectedStep, StatusArrivesStep, LinkEndsStep, ProcessEndsStep,
       FrameOperationFailsStep
    DEF Environment
  <1>4. ASSUME ~settled, NEW k \in Runtimes, Supervision(k) PROVE IndInv'
    BY <1>4, OnStatusStep, WatchControlStep, WatchPhysicalRuntimeStep DEF Supervision
  <1>5. ASSUME ~settled, NEW k \in Runtimes, CleanupStep(k) PROVE IndInv'
    BY <1>5, ShutdownAcceptedStep, ShutdownFailsStep, PeerClosesStep, NaturalWaitEndsStep,
       LingerEndsStep
    DEF CleanupStep
  <1>6. ASSUME ~settled, NEW k \in Runtimes, TerminationStep(k) PROVE IndInv'
    BY <1>6, AttemptEndsStep, RetryStep DEF TerminationStep
  <1>7. ASSUME ~settled, Session PROVE IndInv'
    BY <1>7, FrameAuthorityStartsStep, BeginShutdownStep, SessionSettlesStep DEF Session
  <1> QED
    BY <1>1, <1>2, <1>3, <1>4, <1>5, <1>6, <1>7, RequestShutdownStep, AuthorityFatalStep,
       FrameOperationStep, FrameOperationEndsStep, FrameOperationEndsSessionStep
    DEF Next

\* The inductive invariant is an invariant of the supervision.
THEOREM InvariantHolds == Spec => []IndInv
  <1> QED
    BY InitIndInv, NextIndInv, PTL DEF Spec

\* Every variable of the supervision keeps its type.
THEOREM TypeCorrect == Spec => []TypeOK
  <1>1. IndInv => TypeOK
    BY DEF IndInv
  <1> QED
    BY <1>1, InvariantHolds, PTL

\* Main never goes on with a part of the declared Runtimes.
THEOREM FailedBootstrapEnds == Spec => []BootstrapFailureEnds
  <1>1. IndInv => BootstrapFailureEnds
    BY DEF IndInv, BootstrapInv, BootstrapFailureEnds
  <1> QED
    BY <1>1, InvariantHolds, PTL

\* No process is left running without having been asked to terminate.
THEOREM NoOrphans == Spec => []NoOrphanRuntime
  <1>1. ASSUME IndInv, NEW k \in Runtimes, fate[k] \in {"running", "lost"}, Failed(k) \/ settled
        PROVE  asked[k]
    BY <1>1 DEF IndInv, SessionInv, RuntimeInv, CleanupInv
  <1>2. IndInv => NoOrphanRuntime
    BY <1>1 DEF NoOrphanRuntime
  <1> QED
    BY <1>2, InvariantHolds, PTL

\* A graceful shutdown is not cut short.
THEOREM GracefulIsSpared == Spec => []GracefulRuntimeIsSpared
  <1>1. IndInv => GracefulRuntimeIsSpared
    BY DEF IndInv, CleanupInv, GracefulRuntimeIsSpared
  <1> QED
    BY <1>1, InvariantHolds, PTL

----------------------------------------------------------------------------
\* The Frames start when all the Runtimes are ready together.
THEOREM StartsReady == Spec => StartsOnlyWhenAllReady
  <1>1. ASSUME IndInv, Next, frameAuthorityStarted' # frameAuthorityStarted
        PROVE  terminal = "none" /\ \A k \in Runtimes : phase[k] = "ready"
    <2>1. CASE FrameAuthorityStarts
      BY <1>1, <2>1 DEF FrameAuthorityStarts, IndInv, BootstrapInv
    <2>2. ASSUME NEW k \in Runtimes, Bootstrap(k) PROVE UNCHANGED frameAuthorityStarted
      BY <2>2 DEF Bootstrap, BootstrapRuntime, Register, LaunchFails, AcquireFails,
                  ReadyContinues, BootstrapDeadline
    <2>3. ASSUME NEW k \in Runtimes, Environment(k) PROVE UNCHANGED frameAuthorityStarted
      <3>1. ASSUME NEW s \in Statuses, StatusArrives(k, s) PROVE UNCHANGED frameAuthorityStarted
        BY <3>1 DEF StatusArrives, HandleStatus
      <3> QED
        BY <2>3, <3>1 DEF Environment, TokenRefused, LaunchSucceeds, AcquireSucceeds,
                          HelloAccepted, HelloRejected, LinkEnds, ProcessEnds,
                          FrameOperationFails
    <2>4. ASSUME NEW k \in Runtimes, Supervision(k) PROVE UNCHANGED frameAuthorityStarted
      BY <2>4 DEF Supervision, OnStatus, HandleStatus, WatchControl, WatchPhysicalRuntime
    <2>5. ASSUME NEW k \in Runtimes, CleanupStep(k) \/ TerminationStep(k)
          PROVE  UNCHANGED frameAuthorityStarted
      BY <2>5 DEF CleanupStep, TerminationStep, ShutdownAccepted, ShutdownFails, PeerCloses,
                  NaturalWaitEnds, LingerEnds, AttemptEnds, Retry
    <2>6. ASSUME BeginShutdown \/ SessionSettles \/ RequestShutdown \/ AuthorityFatal
                 \/ FrameOperation \/ FrameOperationEnds \/ FrameOperationEndsSession
          PROVE  UNCHANGED frameAuthorityStarted
      BY <2>6 DEF BeginShutdown, SessionSettles, RequestShutdown, AuthorityFatal,
                  FrameOperation, FrameOperationEnds, FrameOperationEndsSession
    <2> QED
      BY <1>1, <2>1, <2>2, <2>3, <2>4, <2>5, <2>6 DEF Next, Session
  <1>2. IndInv /\ [Next]_vars =>
            [frameAuthorityStarted' # frameAuthorityStarted =>
                terminal = "none" /\ \A k \in Runtimes : phase[k] = "ready"]_vars
    BY <1>1 DEF vars
  <1> QED
    BY <1>2, InvariantHolds, PTL DEF Spec, StartsOnlyWhenAllReady

\* What is asked of a Runtime whose exit Main has observed.
LEMMA AskSparesTheEnded ==
    ASSUME IndInv, NEW S, Ask(S), NEW k \in Runtimes, physicallyTerminated'[k]
    PROVE  attempt'[k] = attempt[k]
  BY DEF Ask

\* Neither does a failure or the end of the session.
LEMMA FailAndEndSparesTheEnded ==
    ASSUME IndInv, NEW F, NEW t, FailAndEnd(F, t), NEW k \in Runtimes, physicallyTerminated'[k]
    PROVE  attempt'[k] = attempt[k]
  <1>1. PICK S : Ask(S)
    BY DEF FailAndEnd
  <1> QED
    BY <1>1, AskSparesTheEnded

\* A Runtime whose exit Main has observed is not asked to terminate any more.
THEOREM EndedIsSpared == Spec => NoRequestAfterExit
  <1>1. ASSUME IndInv, Next, NEW k \in Runtimes, physicallyTerminated[k]
        PROVE  attempt'[k] \in {0, attempt[k]}
    <2>1. ASSUME NEW j \in Runtimes, Bootstrap(j) PROVE attempt'[k] \in {0, attempt[k]}
      BY <1>1, <2>1, FailAndEndSparesTheEnded
      DEF Bootstrap, BootstrapRuntime, Register, LaunchFails, AcquireFails, ReadyContinues,
          BootstrapDeadline, EndSession
    <2>2. ASSUME NEW j \in Runtimes, Environment(j) PROVE attempt'[k] \in {0, attempt[k]}
      <3>1. ASSUME NEW s \in Statuses, StatusArrives(j, s) PROVE attempt'[k] \in {0, attempt[k]}
        BY <1>1, <3>1, FailAndEndSparesTheEnded DEF StatusArrives, HandleStatus, FailRuntime
      <3> QED
        BY <1>1, <2>2, <3>1, FailAndEndSparesTheEnded
        DEF Environment, TokenRefused, LaunchSucceeds, AcquireSucceeds, HelloAccepted,
            HelloRejected, LinkEnds, ProcessEnds, FrameOperationFails, EndSession
    <2>3. ASSUME NEW j \in Runtimes, Supervision(j) PROVE attempt'[k] \in {0, attempt[k]}
      <3>1. CASE OnStatus(j) \/ WatchControl(j)
        BY <1>1, <3>1, FailAndEndSparesTheEnded DEF OnStatus, HandleStatus, WatchControl,
                                                    FailRuntime
      <3>2. CASE WatchPhysicalRuntime(j)
        <4>1. physicallyTerminated'[k]
          BY <1>1, <3>2 DEF WatchPhysicalRuntime, IndInv, TypeOK
        <4> QED
          BY <1>1, <3>2, <4>1, FailAndEndSparesTheEnded DEF WatchPhysicalRuntime, FailRuntime
      <3> QED
        BY <2>3, <3>1, <3>2 DEF Supervision
    <2>4. ASSUME NEW j \in Runtimes, CleanupStep(j) PROVE attempt'[k] \in {0, attempt[k]}
      BY <1>1, <2>4, AskSparesTheEnded
      DEF CleanupStep, ShutdownAccepted, ShutdownFails, PeerCloses, NaturalWaitEnds, LingerEnds,
          Escalate
    <2>5. ASSUME NEW j \in Runtimes, TerminationStep(j) PROVE attempt'[k] \in {0, attempt[k]}
      BY <1>1, <2>5 DEF TerminationStep, AttemptEnds, Retry, IndInv, TypeOK
    <2>6. ASSUME Session \/ RequestShutdown \/ AuthorityFatal \/ FrameOperation
                 \/ FrameOperationEnds \/ FrameOperationEndsSession
          PROVE  attempt'[k] \in {0, attempt[k]}
      <3>1. CASE FrameOperationEndsSession
        <4>1. PICK t \in {"root", "fatal"} : EndSession(t)
          BY <3>1 DEF FrameOperationEndsSession
        <4> QED
          BY <1>1, <3>1, <4>1, FailAndEndSparesTheEnded DEF FrameOperationEndsSession,
                                                            EndSession
      <3>2. CASE BeginShutdown \/ AuthorityFatal
        BY <1>1, <3>2, FailAndEndSparesTheEnded DEF BeginShutdown, AuthorityFatal, EndSession
      <3>3. CASE FrameAuthorityStarts \/ SessionSettles \/ RequestShutdown \/ FrameOperation
                 \/ FrameOperationEnds
        BY <3>3 DEF FrameAuthorityStarts, SessionSettles, RequestShutdown, FrameOperation,
                    FrameOperationEnds
      <3> QED
        BY <2>6, <3>1, <3>2, <3>3 DEF Session
    <2> QED
      BY <1>1, <2>1, <2>2, <2>3, <2>4, <2>5, <2>6 DEF Next
  <1>2. IndInv /\ [Next]_vars =>
            [\A k \in Runtimes : physicallyTerminated[k] => attempt'[k] \in {0, attempt[k]}]_vars
    BY <1>1 DEF vars
  <1> QED
    BY <1>2, InvariantHolds, PTL DEF Spec, NoRequestAfterExit
=============================================================================
