--------------------------- MODULE ManagerProofs ----------------------------
(***************************************************************************)
(* The safety properties of Manager hold for any number of clients and     *)
(* sessions.                                                               *)
(*                                                                         *)
(* None of them is inductive.  MInv adds what the code relies on: m.busy   *)
(* has one holder (Locks), the holder works on the session that m.current  *)
(* or the new session is (InHand), a Stop has marked the session before it *)
(* touches the engine and found its guard mutex free before it returned    *)
(* (Halting), an engine that reports it is stopped has left nothing unless *)
(* a late Apply took it up again (Idle), an error-free Stop has released   *)
(* everything else (Released), so only the session in hand can own         *)
(* something (Owned).  SetKillSwitch does not take m.busy; Changing and    *)
(* Resting say why it is harmless: the session it found is still the       *)
(* current one, or is marked and refuses.                                  *)
(***************************************************************************)
EXTENDS Manager, TLAPS

-----------------------------------------------------------------------------
(***************************************************************************)
(* What Guard.Apply and Guard.Restore do to the record of the guard and to *)
(* the kernel's table, for any networks and any outcomes of nft but one:   *)
(* an nft that is cut off after the kernel has committed leaves a block    *)
(* the guard does not know of.                                             *)
(***************************************************************************)

\* The guard's record and the table agree.
GuardAgrees ==
    /\ armed \in BOOLEAN /\ table \in Seq(Networks)
    /\ armed <=> Blocked

\* Nothing armed, no table.
LEMMA EmptyAgrees ==
    ASSUME table' = << >>, armed' = FALSE
    PROVE  GuardAgrees' /\ ~armed'
<1>1. << >> \in Seq(Networks)
  OBVIOUS
<1> QED BY <1>1, Zenon DEF GuardAgrees, Blocked

\* A new guard finds no table.
LEMMA InitAgrees == GuardInit => GuardAgrees
<1>1. << >> \in Seq(Networks)
  OBVIOUS
<1> QED BY <1>1, Zenon DEF GuardInit, GuardAgrees, Blocked

\* Guard.Apply records what the kernel did, and nothing if nft was refused.
LEMMA ApplyAgrees ==
    ASSUME "cut" \notin Outcomes, GuardAgrees, NEW on \in BOOLEAN, NEW n \in Networks,
           NEW o \in Outcomes, Apply(on, n, o)
    PROVE  /\ GuardAgrees'
           /\ o = "ok" => armed' = on
           /\ o # "ok" => armed' = armed
<1>0. o = "ok" \/ o = "refused"
  BY OutcomesAssumption, Zenon DEF NftOutcomes
<1>1. armed' = IF o = "ok" THEN on ELSE armed
  BY Zenon DEF Apply
<1>2. GuardAgrees'
  <2>1. CASE on = armed
    <3>1. UNCHANGED <<armed, table>>
      BY <2>1, Zenon DEF Apply
    <3> QED BY <3>1, Zenon DEF GuardAgrees, Blocked
  <2>2. CASE on # armed /\ o = "refused"
    <3>1. UNCHANGED <<armed, table>>
      BY <2>2, Zenon DEF Apply, NftAdd, NftDelete
    <3> QED BY <3>1, Zenon DEF GuardAgrees, Blocked
  <2>3. CASE on # armed /\ o = "ok" /\ on = TRUE
    <3>1. table' = Append(table, n) /\ armed' = TRUE
      BY <2>3, Zenon DEF Apply, NftAdd
    <3>2. table' \in Seq(Networks) /\ table' # << >>
      BY <3>1 DEF GuardAgrees
    <3> QED BY <3>1, <3>2, Zenon DEF GuardAgrees, Blocked
  <2>4. CASE on # armed /\ o = "ok" /\ on = FALSE
    <3>1. table' = << >> /\ armed' = FALSE
      BY <2>4, Zenon DEF Apply, NftDelete
    <3> QED BY <3>1, EmptyAgrees, Zenon
  <2> QED BY <1>0, <2>1, <2>2, <2>3, <2>4, Zenon
<1> QED BY <1>1, <1>2, Zenon

\* So does Guard.Restore.
LEMMA RestoreAgrees ==
    ASSUME "cut" \notin Outcomes, GuardAgrees, NEW o \in Outcomes, Restore(o)
    PROVE  /\ GuardAgrees'
           /\ o = "ok" => ~armed'
           /\ o # "ok" => armed' = armed
<1>0. o = "ok" \/ o = "refused"
  BY OutcomesAssumption, Zenon DEF NftOutcomes
<1>1. CASE ~armed
  <2>1. armed' = FALSE /\ UNCHANGED table
    BY <1>1, Zenon DEF Restore, GuardAgrees
  <2> QED BY <1>1, <2>1, Zenon DEF GuardAgrees, Blocked
<1>2. CASE armed /\ o = "ok"
  <2>1. table' = << >> /\ armed' = FALSE
    BY <1>2, Zenon DEF Restore, NftDelete
  <2> QED BY <1>2, <2>1, EmptyAgrees, Zenon
<1>3. CASE armed /\ o = "refused"
  <2>1. UNCHANGED <<armed, table>>
    BY <1>3, Zenon DEF Restore, NftDelete
  <2> QED BY <1>3, <2>1, Zenon DEF GuardAgrees, Blocked
<1> QED BY <1>0, <1>1, <1>2, <1>3, Zenon

-----------------------------------------------------------------------------

\* Where a goroutine stops a session, starts one, or changes a kill switch.
Stopping == {"mark", "engine", "restore", "leave", "stopped"}
Starting == {"arm", "run", "undo", "failed", "up"}
Killers == {"check", "kill", "killing"}

\* ManagerTypeOK without the guard and without what relates two variables: the
\* flags, and the rest.
Flags ==
    /\ busy \in BOOLEAN /\ failing \in [Actors -> BOOLEAN]
    /\ kill \in [Sessions -> BOOLEAN] /\ owns \in [Sessions -> BOOLEAN]
    /\ eng \in [Sessions -> BOOLEAN] /\ still \in [Sessions -> BOOLEAN]
    /\ ran \in [Sessions -> BOOLEAN] /\ late \in [Sessions -> BOOLEAN]
    /\ halted \in [Sessions -> BOOLEAN]
    /\ lock \in [Sessions -> BOOLEAN]

Types ==
    /\ created \in 0 .. MaxSessions /\ current \in 0 .. MaxSessions
    /\ DOMAIN pc = Actors /\ DOMAIN op = Actors /\ DOMAIN named = Actors
    /\ DOMAIN target = Actors /\ DOMAIN failing = Actors /\ DOMAIN st = Sessions

\* m.busy excludes: one Connect or Disconnect at a time.
Exclusive == \A c, d \in Actors : pc[c] \in Inside /\ pc[d] \in Inside => c = d

\* m.busy and s.guardMu are held exactly while somebody is inside.
Locks ==
    /\ Exclusive
    /\ busy <=> \E c \in Actors : pc[c] \in Inside
    /\ \A s \in Sessions : lock[s] <=> \E c \in Actors : pc[c] = "killing" /\ target[c] = s
    /\ \A c, d \in Actors :
          pc[c] = "killing" /\ pc[d] = "killing" /\ target[c] = target[d] => c = d

\* The session a Connect or Disconnect works on.
InHand ==
    /\ current <= created
    /\ \A c \in Actors :
        /\ pc[c] = "disconnect" => op[c] = "disconnect"
        /\ pc[c] = "build" => op[c] = "connect" /\ target[c] = current
        /\ pc[c] \in Stopping => target[c] \in Sessions
        /\ pc[c] \in Stopping => op[c] \in {"connect", "disconnect", "cleanup"}
        /\ pc[c] \in Stopping /\ op[c] # "cleanup" => target[c] = current
        /\ pc[c] \in Stopping /\ op[c] = "connect" => current < created
        /\ pc[c] \in Starting \/ (pc[c] \in Stopping /\ op[c] = "cleanup")
             => current = None /\ target[c] = created /\ created \in Sessions
        /\ pc[c] = "start" => op[c] = "connect" /\ created \in Sessions

\* s.stopping is set, and s.guardMu was free, by the time Stop gets there.
Halting ==
    \A c \in Actors :
        /\ pc[c] \in Stopping \ {"mark"} => halted[target[c]]
        /\ pc[c] = "start" /\ current # None => halted[current] /\ ~lock[current]
        /\ pc[c] \in {"leave", "stopped"} => ~lock[target[c]]

\* What Stop has given back, unless it will return an error.
Released ==
    \A c \in Actors :
        /\ pc[c] \in {"restore", "leave", "stopped"} /\ ~failing[c] /\ eng[target[c]] => late[target[c]]
        /\ pc[c] \in {"leave", "stopped"} /\ ~failing[c] => ~owns[target[c]]

\* An engine that reports it is stopped, and that a repeated Stop skips, has
\* left nothing, unless an Apply took it up again.
Idle == \A s \in Sessions : still[s] /\ eng[s] => late[s]

\* Who may own something.
Owned ==
    /\ ~busy => Owning \subseteq {current}
    /\ \A c \in Actors : pc[c] \in Inside =>
          Owning \subseteq IF pc[c] = "start" THEN {} ELSE {target[c]}

\* The session a SetKillSwitch works on.
Changing ==
    \A c \in Actors :
        /\ pc[c] \in Killers => target[c] \in Sessions /\ target[c] <= created
        /\ pc[c] \in {"check", "kill"} => target[c] = current \/ halted[target[c]]
        /\ pc[c] = "killing" => target[c] = current
        /\ pc[c] = "kill" => named[c] \in {None, target[c]} \/ halted[target[c]]
        /\ pc[c] = "killing" => named[c] \in {None, target[c]}

\* A disconnected session refuses a kill-switch change.
Resting == \A s \in Sessions : st[s] = "disconnected" => ~lock[s]

\* The inductive invariant.
MInv ==
    /\ Flags /\ Types /\ Locks /\ InHand /\ Halting /\ Idle /\ Released /\ Owned
    /\ Changing /\ Resting

\* A block has an owner, also while the new session is about to arm it.
Armed ==
    /\ GuardAgrees
    /\ armed => \E s \in Sessions : owns[s]
    /\ \A c \in Actors : pc[c] = "arm" => owns[target[c]]

-----------------------------------------------------------------------------
(***************************************************************************)
(* The invariant holds in every step, one conjunct at a time.              *)
(***************************************************************************)

\* Every flag stays Boolean.
LEMMA FlagsStep ==
    ASSUME Flags, [ManagerNext]_mgrVars
    PROVE  Flags'
<1>1. ASSUME NEW c \in Actors, Connect(c) PROVE Flags'
  BY <1>1, Zenon DEF Connect, Goto, guardVars, sessions, engines, Flags
<1>2. ASSUME NEW c \in Actors, NEW ok \in BOOLEAN, NEW on \in BOOLEAN, Build(c, ok, on)
      PROVE  Flags'
  BY <1>2, Zenon DEF Build, engines, Reply, Goto, guardVars, Flags
<1>3. ASSUME NEW c \in Actors, NEW ok \in BOOLEAN, StartSession(c, ok) PROVE Flags'
  BY <1>3, Zenon DEF StartSession, engines, Goto, guardVars, Flags
<1>4. ASSUME NEW c \in Actors, NEW o \in Outcomes, ArmSession(c, o) PROVE Flags'
  BY <1>4, Zenon DEF ArmSession, Goto, sessions, engines, Flags
<1>5. ASSUME NEW c \in Actors, NEW ok \in BOOLEAN, RunEngine(c, ok) PROVE Flags'
  BY <1>5, Zenon DEF RunEngine, Goto, guardVars, Flags
<1>6. ASSUME NEW c \in Actors, NEW o \in Outcomes, UndoStart(c, o) PROVE Flags'
  BY <1>6, Zenon DEF UndoStart, engines, RestoreSession, Goto, guardVars, Flags
<1>7. ASSUME NEW c \in Actors, StartFailed(c) PROVE Flags'
  BY <1>7, Zenon DEF StartFailed, engines, Goto, guardVars, Flags
<1>8. ASSUME NEW c \in Actors, Started(c) PROVE Flags'
  BY <1>8, Zenon DEF Started, Reply, guardVars, Flags
<1>9. ASSUME NEW c \in Actors, NEW name \in Sessions \cup {None}, Disconnect(c, name)
      PROVE  Flags'
  BY <1>9, Zenon DEF Disconnect, Goto, guardVars, sessions, engines, Flags
<1>10. ASSUME NEW c \in Actors, DisconnectBegin(c) PROVE Flags'
  BY <1>10, Zenon DEF DisconnectBegin, Reply, Goto, guardVars, sessions, engines, Flags
<1>11. ASSUME NEW c \in Actors, StopMark(c) PROVE Flags'
  BY <1>11, Zenon DEF StopMark, engines, Goto, guardVars, Flags
<1>12. ASSUME NEW c \in Actors, NEW ok \in BOOLEAN, StopEngine(c, ok) PROVE Flags'
  BY <1>12, Zenon DEF StopEngine, Goto, guardVars, Flags
<1>13. ASSUME NEW c \in Actors, NEW o \in Outcomes, StopRestore(c, o) PROVE Flags'
  BY <1>13, Zenon DEF StopRestore, engines, RestoreSession, Goto, guardVars, Flags
<1>14. ASSUME NEW c \in Actors, StopLeave(c) PROVE Flags'
  BY <1>14, Zenon DEF StopLeave, Goto, guardVars, Flags
<1>15. ASSUME NEW c \in Actors, Stopped(c) PROVE Flags'
  BY <1>15, Zenon DEF Stopped, Reply, Goto, guardVars, sessions, engines, Flags
<1>16. ASSUME NEW c \in Actors, NEW on \in BOOLEAN, NEW name \in Sessions \cup {None},
              SetKillSwitch(c, on, name) PROVE Flags'
  BY <1>16, Zenon DEF SetKillSwitch, Goto, guardVars, sessions, engines, Flags
<1>17. ASSUME NEW c \in Actors, CheckSession(c) PROVE Flags'
  BY <1>17, Zenon DEF CheckSession, Reply, Goto, guardVars, sessions, engines, Flags
<1>18. ASSUME NEW c \in Actors, KillBegin(c) PROVE Flags'
  BY <1>18, Zenon DEF KillBegin, engines, Reply, Goto, guardVars, Flags
<1>19. ASSUME NEW c \in Actors, NEW o \in Outcomes, KillEnd(c, o) PROVE Flags'
  BY <1>19, Zenon DEF KillEnd, engines, Reply, Flags
<1>20. ASSUME NEW s \in Sessions, SessionFails(s) PROVE Flags'
  BY <1>20, Zenon DEF SessionFails, guardVars, handlers, Flags
<1>21. ASSUME NEW s \in Sessions, LateApply(s) PROVE Flags'
  BY <1>21, Zenon DEF LateApply, guardVars, handlers, Flags
<1>22. ASSUME NEW s \in Sessions, WatchCancelled(s) PROVE Flags'
  BY <1>22, Zenon DEF WatchCancelled, guardVars, handlers, Flags
<1>23. ASSUME Close PROVE Flags'
  BY <1>23, Zenon DEF Close, Goto, guardVars, sessions, engines, Flags
<1>24. ASSUME Exit PROVE Flags'
  BY <1>24, Zenon DEF Exit, Goto, guardVars, sessions, engines, Flags
<1>25. CASE UNCHANGED mgrVars
  BY <1>25, Zenon DEF mgrVars, guardVars, sessions, engines, handlers, Flags
<1> QED
  BY <1>1, <1>2, <1>3, <1>4, <1>5, <1>6, <1>7, <1>8, <1>9, <1>10, <1>11, <1>12, <1>13,
     <1>14, <1>15, <1>16, <1>17, <1>18, <1>19, <1>20, <1>21, <1>22, <1>23, <1>24,
     <1>25, Zenon DEF ManagerNext, Request, Step, Exited, Actors

\* The other variables keep their types.
LEMMA TypesStep ==
    ASSUME Types, InHand, [ManagerNext]_mgrVars
    PROVE  Types'
<1>1. ASSUME NEW c \in Actors, Connect(c) PROVE Types'
  BY <1>1, Zenon DEF Connect, Goto, guardVars, sessions, engines, Types
<1>2. ASSUME NEW c \in Actors, NEW ok \in BOOLEAN, NEW on \in BOOLEAN, Build(c, ok, on)
      PROVE  Types'
  BY <1>2, ManagerAssumption DEF Build, Reply, Goto, guardVars, Types
<1>3. ASSUME NEW c \in Actors, NEW ok \in BOOLEAN, StartSession(c, ok) PROVE Types'
  BY <1>3, ManagerAssumption DEF StartSession, Goto, guardVars, Types, Sessions, None
<1>4. ASSUME NEW c \in Actors, NEW o \in Outcomes, ArmSession(c, o) PROVE Types'
  BY <1>4, Zenon DEF ArmSession, Goto, sessions, engines, Types
<1>5. ASSUME NEW c \in Actors, NEW ok \in BOOLEAN, RunEngine(c, ok) PROVE Types'
  BY <1>5, Zenon DEF RunEngine, Goto, guardVars, Types
<1>6. ASSUME NEW c \in Actors, NEW o \in Outcomes, UndoStart(c, o) PROVE Types'
  BY <1>6, Zenon DEF UndoStart, RestoreSession, Goto, guardVars, Types
<1>7. ASSUME NEW c \in Actors, StartFailed(c) PROVE Types'
  BY <1>7, Zenon DEF StartFailed, Goto, guardVars, Types
<1>8. ASSUME NEW c \in Actors, Started(c) PROVE Types'
  BY <1>8, ManagerAssumption, Zenon DEF Started, Reply, guardVars, Types, InHand,
     Stopping, Starting, Sessions, None
<1>9. ASSUME NEW c \in Actors, NEW name \in Sessions \cup {None}, Disconnect(c, name)
      PROVE  Types'
  BY <1>9, Zenon DEF Disconnect, Goto, guardVars, sessions, engines, Types
<1>10. ASSUME NEW c \in Actors, DisconnectBegin(c) PROVE Types'
  BY <1>10, Zenon DEF DisconnectBegin, Reply, Goto, guardVars, sessions, engines, Types
<1>11. ASSUME NEW c \in Actors, StopMark(c) PROVE Types'
  BY <1>11, Zenon DEF StopMark, Goto, guardVars, Types
<1>12. ASSUME NEW c \in Actors, NEW ok \in BOOLEAN, StopEngine(c, ok) PROVE Types'
  BY <1>12, Zenon DEF StopEngine, Goto, guardVars, Types
<1>13. ASSUME NEW c \in Actors, NEW o \in Outcomes, StopRestore(c, o) PROVE Types'
  BY <1>13, Zenon DEF StopRestore, RestoreSession, Goto, guardVars, Types
<1>14. ASSUME NEW c \in Actors, StopLeave(c) PROVE Types'
  BY <1>14, Zenon DEF StopLeave, Goto, guardVars, Types
<1>15. ASSUME NEW c \in Actors, Stopped(c) PROVE Types'
  BY <1>15, ManagerAssumption DEF Stopped, Reply, Goto, guardVars, sessions, engines, Types,
     InHand, Stopping, Starting, Sessions, None
<1>16. ASSUME NEW c \in Actors, NEW on \in BOOLEAN, NEW name \in Sessions \cup {None},
              SetKillSwitch(c, on, name) PROVE Types'
  BY <1>16, Zenon DEF SetKillSwitch, Goto, guardVars, sessions, engines, Types
<1>17. ASSUME NEW c \in Actors, CheckSession(c) PROVE Types'
  BY <1>17, Zenon DEF CheckSession, Reply, Goto, guardVars, sessions, engines, Types
<1>18. ASSUME NEW c \in Actors, KillBegin(c) PROVE Types'
  BY <1>18, Zenon DEF KillBegin, Reply, Goto, guardVars, Types
<1>19. ASSUME NEW c \in Actors, NEW o \in Outcomes, KillEnd(c, o) PROVE Types'
  BY <1>19, Zenon DEF KillEnd, Reply, Types
<1>20. ASSUME NEW s \in Sessions, SessionFails(s) PROVE Types'
  BY <1>20, Zenon DEF SessionFails, guardVars, handlers, Types
<1>21. ASSUME NEW s \in Sessions, LateApply(s) PROVE Types'
  BY <1>21, Zenon DEF LateApply, guardVars, handlers, Types
<1>22. ASSUME NEW s \in Sessions, WatchCancelled(s) PROVE Types'
  BY <1>22, Zenon DEF WatchCancelled, guardVars, handlers, Types
<1>23. ASSUME Close PROVE Types'
  BY <1>23, Zenon DEF Close, Goto, guardVars, sessions, engines, Types
<1>24. ASSUME Exit PROVE Types'
  BY <1>24, Zenon DEF Exit, Goto, guardVars, sessions, engines, Types
<1>25. CASE UNCHANGED mgrVars
  BY <1>25, Zenon DEF mgrVars, guardVars, sessions, engines, handlers, Types
<1> QED
  BY <1>1, <1>2, <1>3, <1>4, <1>5, <1>6, <1>7, <1>8, <1>9, <1>10, <1>11, <1>12, <1>13,
     <1>14, <1>15, <1>16, <1>17, <1>18, <1>19, <1>20, <1>21, <1>22, <1>23, <1>24,
     <1>25, Zenon DEF ManagerNext, Request, Step, Exited, Actors

\* m.busy and the guard mutexes have the one holder they should have.
LEMMA LocksStep ==
    ASSUME Flags, Types, Locks, Changing, [ManagerNext]_mgrVars
    PROVE  Locks'
<1>1. ASSUME NEW c \in Actors, Connect(c) PROVE Locks'
  BY <1>1 DEF Connect, Goto, guardVars, sessions, engines, Types, Locks, Exclusive, Inside
<1>2. ASSUME NEW c \in Actors, NEW ok \in BOOLEAN, NEW on \in BOOLEAN, Build(c, ok, on)
      PROVE  Locks'
  BY <1>2 DEF Build, Reply, Goto, guardVars, Types, Locks, Exclusive, Inside
<1>3. ASSUME NEW c \in Actors, NEW ok \in BOOLEAN, StartSession(c, ok) PROVE Locks'
  BY <1>3 DEF StartSession, Goto, guardVars, Types, Locks, Exclusive, Inside
<1>4. ASSUME NEW c \in Actors, NEW o \in Outcomes, ArmSession(c, o) PROVE Locks'
  BY <1>4 DEF ArmSession, Goto, sessions, engines, Types, Locks, Exclusive, Inside
<1>5. ASSUME NEW c \in Actors, NEW ok \in BOOLEAN, RunEngine(c, ok) PROVE Locks'
  BY <1>5 DEF RunEngine, Goto, guardVars, Types, Locks, Exclusive, Inside
<1>6. ASSUME NEW c \in Actors, NEW o \in Outcomes, UndoStart(c, o) PROVE Locks'
  BY <1>6 DEF UndoStart, RestoreSession, Goto, guardVars, Types, Locks, Exclusive, Inside
<1>7. ASSUME NEW c \in Actors, StartFailed(c) PROVE Locks'
  BY <1>7 DEF StartFailed, Goto, guardVars, Types, Locks, Exclusive, Inside
<1>8. ASSUME NEW c \in Actors, Started(c) PROVE Locks'
  BY <1>8 DEF Started, Reply, guardVars, Types, Locks, Exclusive, Inside
<1>9. ASSUME NEW c \in Actors, NEW name \in Sessions \cup {None}, Disconnect(c, name)
      PROVE  Locks'
  BY <1>9 DEF Disconnect, Goto, guardVars, sessions, engines, Types, Locks, Exclusive, Inside
<1>10. ASSUME NEW c \in Actors, DisconnectBegin(c) PROVE Locks'
  BY <1>10 DEF DisconnectBegin, Reply, Goto, guardVars, sessions, engines, Types, Locks,
     Exclusive, Inside
<1>11. ASSUME NEW c \in Actors, StopMark(c) PROVE Locks'
  BY <1>11 DEF StopMark, Goto, guardVars, Types, Locks, Exclusive, Inside
<1>12. ASSUME NEW c \in Actors, NEW ok \in BOOLEAN, StopEngine(c, ok) PROVE Locks'
  BY <1>12 DEF StopEngine, Goto, guardVars, Types, Locks, Exclusive, Inside
<1>13. ASSUME NEW c \in Actors, NEW o \in Outcomes, StopRestore(c, o) PROVE Locks'
  BY <1>13 DEF StopRestore, RestoreSession, Goto, guardVars, Types, Locks, Exclusive, Inside
<1>14. ASSUME NEW c \in Actors, StopLeave(c) PROVE Locks'
  BY <1>14 DEF StopLeave, Goto, guardVars, Types, Locks, Exclusive, Inside
<1>15. ASSUME NEW c \in Actors, Stopped(c) PROVE Locks'
  BY <1>15 DEF Stopped, Reply, Goto, guardVars, sessions, engines, Types, Locks, Exclusive, Inside
<1>16. ASSUME NEW c \in Actors, NEW on \in BOOLEAN, NEW name \in Sessions \cup {None},
              SetKillSwitch(c, on, name) PROVE Locks'
  BY <1>16 DEF SetKillSwitch, Goto, guardVars, sessions, engines, Types, Locks, Exclusive, Inside
<1>17. ASSUME NEW c \in Actors, CheckSession(c) PROVE Locks'
  BY <1>17 DEF CheckSession, Reply, Goto, guardVars, sessions, engines, Types, Locks, Exclusive, Inside
<1>18. ASSUME NEW c \in Actors, KillBegin(c) PROVE Locks'
  BY <1>18, SMTT(60) DEF KillBegin, Reply, Goto, guardVars, Types, Locks, Exclusive, Inside,
     Flags, Changing, Killers
<1>19. ASSUME NEW c \in Actors, NEW o \in Outcomes, KillEnd(c, o) PROVE Locks'
  BY <1>19 DEF KillEnd, Reply, Types, Locks, Exclusive, Inside, Flags
<1>20. ASSUME NEW s \in Sessions, SessionFails(s) PROVE Locks'
  BY <1>20 DEF SessionFails, guardVars, handlers, Types, Locks, Exclusive, Inside
<1>21. ASSUME NEW s \in Sessions, LateApply(s) PROVE Locks'
  BY <1>21 DEF LateApply, guardVars, handlers, Types, Locks, Exclusive, Inside
<1>22. ASSUME NEW s \in Sessions, WatchCancelled(s) PROVE Locks'
  BY <1>22 DEF WatchCancelled, guardVars, handlers, Types, Locks, Exclusive, Inside
<1>23. ASSUME Close PROVE Locks'
  BY <1>23 DEF Close, Goto, guardVars, sessions, engines, Types, Locks, Exclusive, Inside
<1>24. ASSUME Exit PROVE Locks'
  BY <1>24 DEF Exit, Goto, guardVars, sessions, engines, Types, Locks, Exclusive, Inside
<1>25. CASE UNCHANGED mgrVars
  BY <1>25 DEF mgrVars, guardVars, sessions, engines, handlers, Types, Locks, Exclusive, Inside
<1> QED
  BY <1>1, <1>2, <1>3, <1>4, <1>5, <1>6, <1>7, <1>8, <1>9, <1>10, <1>11, <1>12, <1>13,
     <1>14, <1>15, <1>16, <1>17, <1>18, <1>19, <1>20, <1>21, <1>22, <1>23, <1>24,
     <1>25, Zenon DEF ManagerNext, Request, Step, Exited, Actors

\* What a Connect or Disconnect works on stays what m.current says.
LEMMA InHandStep ==
    ASSUME Types, Locks, InHand, [ManagerNext]_mgrVars
    PROVE  InHand'
<1>1. ASSUME NEW c \in Actors, Connect(c) PROVE InHand'
  BY <1>1, Zenon DEF Connect, Goto, guardVars, sessions, engines, Types, InHand, Stopping, Starting
<1>2. ASSUME NEW c \in Actors, NEW ok \in BOOLEAN, NEW on \in BOOLEAN, Build(c, ok, on)
      PROVE  InHand'
  BY <1>2, ManagerAssumption DEF Build, Reply, Goto, guardVars, Types, InHand, Stopping,
     Starting, Locks, Exclusive, Inside, Sessions, None
<1>3. ASSUME NEW c \in Actors, NEW ok \in BOOLEAN, StartSession(c, ok) PROVE InHand'
  BY <1>3, ManagerAssumption DEF StartSession, Goto, guardVars, Types, InHand, Stopping,
     Starting, Locks, Exclusive, Inside, Sessions, None
<1>4. ASSUME NEW c \in Actors, NEW o \in Outcomes, ArmSession(c, o) PROVE InHand'
  BY <1>4 DEF ArmSession, Goto, sessions, engines, Types, InHand, Stopping, Starting
<1>5. ASSUME NEW c \in Actors, NEW ok \in BOOLEAN, RunEngine(c, ok) PROVE InHand'
  BY <1>5 DEF RunEngine, Goto, guardVars, Types, InHand, Stopping, Starting
<1>6. ASSUME NEW c \in Actors, NEW o \in Outcomes, UndoStart(c, o) PROVE InHand'
  BY <1>6, Zenon DEF UndoStart, RestoreSession, Goto, guardVars, Types, InHand, Stopping,
     Starting
<1>7. ASSUME NEW c \in Actors, StartFailed(c) PROVE InHand'
  BY <1>7 DEF StartFailed, Goto, guardVars, Types, InHand, Stopping, Starting
<1>8. ASSUME NEW c \in Actors, Started(c) PROVE InHand'
  BY <1>8, ManagerAssumption DEF Started, Reply, guardVars, Types, InHand, Stopping,
     Starting, Locks, Exclusive, Inside, Sessions, None
<1>9. ASSUME NEW c \in Actors, NEW name \in Sessions \cup {None}, Disconnect(c, name)
      PROVE  InHand'
  BY <1>9, Zenon DEF Disconnect, Goto, guardVars, sessions, engines, Types, InHand, Stopping, Starting
<1>10. ASSUME NEW c \in Actors, DisconnectBegin(c) PROVE InHand'
  BY <1>10 DEF DisconnectBegin, Reply, Goto, guardVars, sessions, engines, Types, InHand,
     Stopping, Starting, Sessions, None
<1>11. ASSUME NEW c \in Actors, StopMark(c) PROVE InHand'
  BY <1>11, Zenon DEF StopMark, Goto, guardVars, Types, InHand, Stopping, Starting
<1>12. ASSUME NEW c \in Actors, NEW ok \in BOOLEAN, StopEngine(c, ok) PROVE InHand'
  BY <1>12 DEF StopEngine, Goto, guardVars, Types, InHand, Stopping, Starting
<1>13. ASSUME NEW c \in Actors, NEW o \in Outcomes, StopRestore(c, o) PROVE InHand'
  BY <1>13 DEF StopRestore, RestoreSession, Goto, guardVars, Types, InHand, Stopping,
     Starting
<1>14. ASSUME NEW c \in Actors, StopLeave(c) PROVE InHand'
  BY <1>14 DEF StopLeave, Goto, guardVars, Types, InHand, Stopping, Starting
<1>15. ASSUME NEW c \in Actors, Stopped(c) PROVE InHand'
  BY <1>15, ManagerAssumption DEF Stopped, Reply, Goto, guardVars, sessions, engines, Types,
     InHand, Stopping, Starting, Locks, Exclusive, Inside, Sessions, None
<1>16. ASSUME NEW c \in Actors, NEW on \in BOOLEAN, NEW name \in Sessions \cup {None},
              SetKillSwitch(c, on, name) PROVE InHand'
  BY <1>16, Zenon DEF SetKillSwitch, Goto, guardVars, sessions, engines, Types, InHand, Stopping,
     Starting
<1>17. ASSUME NEW c \in Actors, CheckSession(c) PROVE InHand'
  BY <1>17 DEF CheckSession, Reply, Goto, guardVars, sessions, engines, Types, InHand, Stopping,
     Starting
<1>18. ASSUME NEW c \in Actors, KillBegin(c) PROVE InHand'
  BY <1>18 DEF KillBegin, Reply, Goto, guardVars, Types, InHand, Stopping, Starting
<1>19. ASSUME NEW c \in Actors, NEW o \in Outcomes, KillEnd(c, o) PROVE InHand'
  BY <1>19 DEF KillEnd, Reply, Types, InHand, Stopping, Starting
<1>20. ASSUME NEW s \in Sessions, SessionFails(s) PROVE InHand'
  BY <1>20, Zenon DEF SessionFails, guardVars, handlers, Types, InHand, Stopping,
     Starting
<1>21. ASSUME NEW s \in Sessions, LateApply(s) PROVE InHand'
  BY <1>21, Zenon DEF LateApply, guardVars, handlers, Types, InHand, Stopping,
     Starting
<1>22. ASSUME NEW s \in Sessions, WatchCancelled(s) PROVE InHand'
  BY <1>22, Zenon DEF WatchCancelled, guardVars, handlers, Types, InHand, Stopping,
     Starting
<1>23. ASSUME Close PROVE InHand'
  BY <1>23, Zenon DEF Close, Goto, guardVars, sessions, engines, Types, InHand, Stopping, Starting
<1>24. ASSUME Exit PROVE InHand'
  BY <1>24, Zenon DEF Exit, Goto, guardVars, sessions, engines, Types, InHand, Stopping, Starting
<1>25. CASE UNCHANGED mgrVars
  BY <1>25, Zenon DEF mgrVars, guardVars, sessions, engines, handlers, Types, InHand, Stopping, Starting
<1> QED
  BY <1>1, <1>2, <1>3, <1>4, <1>5, <1>6, <1>7, <1>8, <1>9, <1>10, <1>11, <1>12, <1>13,
     <1>14, <1>15, <1>16, <1>17, <1>18, <1>19, <1>20, <1>21, <1>22, <1>23, <1>24,
     <1>25, Zenon DEF ManagerNext, Request, Step, Exited, Actors

\* A session that is being stopped is marked, and its mutex is free when its
\* Stop returns: a kill-switch change that begins later is refused.
LEMMA HaltingStep ==
    ASSUME Flags, Types, Locks, InHand, Halting, Changing, Resting,
           [ManagerNext]_mgrVars
    PROVE  Halting'
<1>1. ASSUME NEW c \in Actors, Connect(c) PROVE Halting'
  BY <1>1, Zenon DEF Connect, Goto, guardVars, sessions, engines, Types, Halting, Stopping
<1>2. ASSUME NEW c \in Actors, NEW ok \in BOOLEAN, NEW on \in BOOLEAN, Build(c, ok, on)
      PROVE  Halting'
  BY <1>2 DEF Build, Reply, Goto, guardVars, Types, Halting, Stopping, InHand, None
<1>3. ASSUME NEW c \in Actors, NEW ok \in BOOLEAN, StartSession(c, ok) PROVE Halting'
  BY <1>3, Zenon DEF StartSession, Goto, guardVars, Types, Halting, Stopping, Locks,
     Exclusive, Inside, None
<1>4. ASSUME NEW c \in Actors, NEW o \in Outcomes, ArmSession(c, o) PROVE Halting'
  BY <1>4, Zenon DEF ArmSession, Goto, sessions, engines, Types, Halting, Stopping
<1>5. ASSUME NEW c \in Actors, NEW ok \in BOOLEAN, RunEngine(c, ok) PROVE Halting'
  BY <1>5, Zenon DEF RunEngine, Goto, guardVars, Types, Halting, Stopping
<1>6. ASSUME NEW c \in Actors, NEW o \in Outcomes, UndoStart(c, o) PROVE Halting'
  BY <1>6, Zenon DEF UndoStart, RestoreSession, Goto, guardVars, Types, Halting,
     Stopping
<1>7. ASSUME NEW c \in Actors, StartFailed(c) PROVE Halting'
  BY <1>7, Zenon DEF StartFailed, Goto, guardVars, Types, Halting, Stopping
<1>8. ASSUME NEW c \in Actors, Started(c) PROVE Halting'
  BY <1>8, Zenon DEF Started, Reply, guardVars, Types, Halting, Stopping, Locks,
     Exclusive, Inside
<1>9. ASSUME NEW c \in Actors, NEW name \in Sessions \cup {None}, Disconnect(c, name)
      PROVE  Halting'
  BY <1>9, Zenon DEF Disconnect, Goto, guardVars, sessions, engines, Types, Halting, Stopping
<1>10. ASSUME NEW c \in Actors, DisconnectBegin(c) PROVE Halting'
  BY <1>10 DEF DisconnectBegin, Reply, Goto, guardVars, sessions, engines, Types, Halting,
     Stopping
<1>11. ASSUME NEW c \in Actors, StopMark(c) PROVE Halting'
  BY <1>11 DEF StopMark, Goto, guardVars, Types, Halting, Stopping, Flags, InHand
<1>12. ASSUME NEW c \in Actors, NEW ok \in BOOLEAN, StopEngine(c, ok) PROVE Halting'
  BY <1>12 DEF StopEngine, Goto, guardVars, Types, Halting, Stopping, InHand, Resting
<1>13. ASSUME NEW c \in Actors, NEW o \in Outcomes, StopRestore(c, o) PROVE Halting'
  BY <1>13, Zenon DEF StopRestore, RestoreSession, Goto, guardVars, Types, Halting,
     Stopping
<1>14. ASSUME NEW c \in Actors, StopLeave(c) PROVE Halting'
  BY <1>14, Zenon DEF StopLeave, Goto, guardVars, Types, Halting, Stopping
<1>15. ASSUME NEW c \in Actors, Stopped(c) PROVE Halting'
  BY <1>15 DEF Stopped, Reply, Goto, guardVars, sessions, engines, Types, Halting, Stopping,
     InHand, Starting, Locks, Exclusive, Inside
<1>16. ASSUME NEW c \in Actors, NEW on \in BOOLEAN, NEW name \in Sessions \cup {None},
              SetKillSwitch(c, on, name) PROVE Halting'
  BY <1>16, Zenon DEF SetKillSwitch, Goto, guardVars, sessions, engines, Types, Halting, Stopping
<1>17. ASSUME NEW c \in Actors, CheckSession(c) PROVE Halting'
  BY <1>17 DEF CheckSession, Reply, Goto, guardVars, sessions, engines, Types, Halting, Stopping
<1>18. ASSUME NEW c \in Actors, KillBegin(c) PROVE Halting'
  <2>1. /\ pc[c] = "kill"
        /\ UNCHANGED <<current, halted>>
        /\ \A d \in Actors \ {c} : pc'[d] = pc[d] /\ target'[d] = target[d]
        /\ pc'[c] \in {"idle", "drain", "killing"}
    BY <1>18, Zenon DEF KillBegin, Reply, Goto, Types
  <2>2. \A s \in Sessions : halted[s] => lock'[s] = lock[s]
    BY <1>18, Zenon DEF KillBegin, Refused, Flags
  <2>3. \A d \in Actors : pc[d] \in Stopping => target[d] \in Sessions
    BY Zenon DEF InHand
  <2>4. current # None => current \in Sessions
    BY ManagerAssumption DEF Types, Sessions, None
  <2> QED BY <2>1, <2>2, <2>3, <2>4 DEF Halting, Stopping
<1>19. ASSUME NEW c \in Actors, NEW o \in Outcomes, KillEnd(c, o) PROVE Halting'
  BY <1>19 DEF KillEnd, Reply, Types, Halting, Stopping, Flags
<1>20. ASSUME NEW s \in Sessions, SessionFails(s) PROVE Halting'
  BY <1>20, Zenon DEF SessionFails, guardVars, handlers, Types, Halting, Stopping
<1>21. ASSUME NEW s \in Sessions, LateApply(s) PROVE Halting'
  BY <1>21, Zenon DEF LateApply, guardVars, handlers, Types, Halting, Stopping
<1>22. ASSUME NEW s \in Sessions, WatchCancelled(s) PROVE Halting'
  BY <1>22, Zenon DEF WatchCancelled, guardVars, handlers, Types, Halting, Stopping
<1>23. ASSUME Close PROVE Halting'
  BY <1>23, Zenon DEF Close, Goto, guardVars, sessions, engines, Types, Halting, Stopping
<1>24. ASSUME Exit PROVE Halting'
  BY <1>24, Zenon DEF Exit, Goto, guardVars, sessions, engines, Types, Halting, Stopping
<1>25. CASE UNCHANGED mgrVars
  BY <1>25, Zenon DEF mgrVars, guardVars, sessions, engines, handlers, Types, Halting, Stopping
<1> QED
  BY <1>1, <1>2, <1>3, <1>4, <1>5, <1>6, <1>7, <1>8, <1>9, <1>10, <1>11, <1>12, <1>13,
     <1>14, <1>15, <1>16, <1>17, <1>18, <1>19, <1>20, <1>21, <1>22, <1>23, <1>24,
     <1>25, Zenon DEF ManagerNext, Request, Step, Exited, Actors

\* Session.fail and eng.Close end engines, they start none.
LEMMA SessionNumbers ==
    /\ \A n \in 0 .. MaxSessions : n # None => n \in Sessions
    /\ \A s \in Sessions : s # None
  BY ManagerAssumption DEF Sessions, None

LEMMA EnginesFewer ==
    ASSUME eng \in [Sessions -> BOOLEAN], NEW u, NEW left \in {FALSE, eng[u]},
           eng' = [eng EXCEPT ![u] = left]
    PROVE  \A t \in Sessions : eng'[t] => eng[t]
<1> SUFFICES ASSUME NEW t \in Sessions, eng'[t] PROVE eng[t]
  BY Zenon
<1>1. CASE t = u
  BY <1>1, Zenon
<1>2. CASE t # u
  BY <1>2, Zenon
<1> QED BY <1>1, <1>2, Zenon

\* An engine reports that it is stopped after a Stop that left nothing.
LEMMA IdleStep ==
    ASSUME Flags, Types, InHand, Idle, [ManagerNext]_mgrVars
    PROVE  Idle'
<1> USE DEF Flags
<1>1. ASSUME UNCHANGED <<eng, still, late>> PROVE Idle'
  BY <1>1, Zenon DEF Idle
<1>2. ASSUME NEW c \in Actors, NEW ok \in BOOLEAN, RunEngine(c, ok) PROVE Idle'
  <2>1. still' = [still EXCEPT ![target[c]] = FALSE] /\ UNCHANGED late
    BY <1>2, Zenon DEF RunEngine
  <2>2. \A t \in Sessions : t # target[c] => eng'[t] = eng[t]
    BY <1>2, Zenon DEF RunEngine
  <2> QED BY <2>1, <2>2, Zenon DEF Idle
<1>3. ASSUME NEW c \in Actors, NEW ok \in BOOLEAN, StopEngine(c, ok) PROVE Idle'
  <2>1. /\ still' = [still EXCEPT ![target[c]] = ok]
        /\ \A t \in Sessions : t # target[c] => eng'[t] = eng[t] /\ late'[t] = late[t]
    BY <1>3, Zenon DEF StopEngine
  <2>2. eng' = [eng EXCEPT ![target[c]] = ~ok]
    BY <1>3, Zenon DEF StopEngine
  <2>3. ASSUME NEW t \in Sessions, t = target[c] PROVE still'[t] /\ eng'[t] => late'[t]
    BY <2>1, <2>2, <2>3, Zenon
  <2> QED BY <2>1, <2>3, Zenon DEF Idle
<1>4. ASSUME NEW c \in Actors, StopLeave(c) PROVE Idle'
  <2>1. PICK left \in {FALSE, eng[target[c]]} :
             /\ eng' = [eng EXCEPT ![target[c]] = left]
             /\ still' = [still EXCEPT ![target[c]] = ~left] /\ UNCHANGED late
    BY <1>4, Zenon DEF StopLeave
  <2>2. ASSUME NEW t \in Sessions, t = target[c] PROVE ~(still'[t] /\ eng'[t])
    BY <2>1, <2>2, Zenon
  <2> QED BY <2>1, <2>2, Zenon DEF Idle
<1>5. ASSUME NEW s \in Sessions, SessionFails(s) PROVE Idle'
  <2>1. PICK left \in {FALSE, eng[s]} : eng' = [eng EXCEPT ![s] = left]
    BY <1>5, Zenon DEF SessionFails
  <2>2. \A t \in Sessions : eng'[t] => eng[t]
    BY <2>1, EnginesFewer, Zenon
  <2>3. UNCHANGED <<still, late>>
    BY <1>5, Zenon DEF SessionFails
  <2> QED BY <2>2, <2>3, Zenon DEF Idle
<1>6. ASSUME NEW s \in Sessions, LateApply(s) PROVE Idle'
  BY <1>6, SMTT(30) DEF LateApply, Idle
<1>7. ASSUME NEW s \in Sessions, WatchCancelled(s) PROVE Idle'
  BY <1>7, SMTT(30) DEF WatchCancelled, Idle
<1>8. ASSUME NEW c \in Actors, Request(c) PROVE UNCHANGED engines
  BY <1>8, Zenon DEF Request, Connect, Disconnect, SetKillSwitch, sessions
<1>9. ASSUME NEW c \in Actors, Step(c) PROVE Idle'
  <2>1. ASSUME NEW ok \in BOOLEAN, NEW on \in BOOLEAN, Build(c, ok, on) PROVE UNCHANGED engines
    BY <2>1, Zenon DEF Build
  <2>2. ASSUME NEW ok \in BOOLEAN, StartSession(c, ok) PROVE UNCHANGED engines
    BY <2>2, Zenon DEF StartSession
  <2>3. ASSUME NEW o \in Outcomes, ArmSession(c, o) \/ UndoStart(c, o) PROVE UNCHANGED engines
    BY <2>3, Zenon DEF ArmSession, UndoStart, sessions
  <2>4. ASSUME NEW o \in Outcomes, StopRestore(c, o) \/ KillEnd(c, o) PROVE UNCHANGED engines
    BY <2>4, Zenon DEF StopRestore, KillEnd
  <2>5. ASSUME StartFailed(c) \/ DisconnectBegin(c) \/ StopMark(c) PROVE UNCHANGED engines
    BY <2>5, Zenon DEF StartFailed, DisconnectBegin, StopMark, sessions
  <2>6. ASSUME Stopped(c) \/ CheckSession(c) \/ KillBegin(c) PROVE UNCHANGED engines
    BY <2>6, Zenon DEF Stopped, CheckSession, KillBegin, sessions
  <2>7. ASSUME Started(c) PROVE UNCHANGED <<eng, still, late>>
    BY <2>7, Zenon DEF Started
  <2> QED
    BY <1>1, <1>2, <1>3, <1>4, <1>9, <2>1, <2>2, <2>3, <2>4, <2>5, <2>6, <2>7, Zenon DEF Step, engines
<1>10. ASSUME Close \/ Exit \/ Exited \/ UNCHANGED mgrVars PROVE UNCHANGED engines
  BY <1>10, Zenon DEF Close, Exit, Exited, mgrVars, sessions
<1> QED
  BY <1>1, <1>5, <1>6, <1>7, <1>8, <1>9, <1>10, Zenon DEF ManagerNext, Actors, engines

\* A Stop that met no error has ended the engine and given the guard back.
LEMMA ReleasedStep ==
    ASSUME Flags, Types, Locks, InHand, Halting, Idle, Released, [ManagerNext]_mgrVars
    PROVE  Released'
<1>1. ASSUME NEW c \in Actors, Connect(c) PROVE Released'
  BY <1>1, Zenon DEF Connect, Goto, guardVars, sessions, engines, Types, Released
<1>2. ASSUME NEW c \in Actors, NEW ok \in BOOLEAN, NEW on \in BOOLEAN, Build(c, ok, on)
      PROVE  Released'
  BY <1>2 DEF Build, engines, Reply, Goto, guardVars, Types, Released
<1>3. ASSUME NEW c \in Actors, NEW ok \in BOOLEAN, StartSession(c, ok) PROVE Released'
  BY <1>3 DEF StartSession, engines, Goto, guardVars, Types, Released, Locks, Exclusive, Inside
<1>4. ASSUME NEW c \in Actors, NEW o \in Outcomes, ArmSession(c, o) PROVE Released'
  BY <1>4, Zenon DEF ArmSession, Goto, sessions, engines, Types, Released
<1>5. ASSUME NEW c \in Actors, NEW ok \in BOOLEAN, RunEngine(c, ok) PROVE Released'
  BY <1>5 DEF RunEngine, Goto, guardVars, Types, Released, Locks, Exclusive, Inside
<1>6. ASSUME NEW c \in Actors, NEW o \in Outcomes, UndoStart(c, o) PROVE Released'
  BY <1>6, Zenon DEF UndoStart, engines, RestoreSession, Goto, guardVars, Types, Released, Locks,
     Exclusive, Inside
<1>7. ASSUME NEW c \in Actors, StartFailed(c) PROVE Released'
  BY <1>7, Zenon DEF StartFailed, engines, Goto, guardVars, Types, Released
<1>8. ASSUME NEW c \in Actors, Started(c) PROVE Released'
  BY <1>8, Zenon DEF Started, Reply, guardVars, Types, Released
<1>9. ASSUME NEW c \in Actors, NEW name \in Sessions \cup {None}, Disconnect(c, name)
      PROVE  Released'
  BY <1>9, Zenon DEF Disconnect, Goto, guardVars, sessions, engines, Types, Released
<1>10. ASSUME NEW c \in Actors, DisconnectBegin(c) PROVE Released'
  BY <1>10 DEF DisconnectBegin, Reply, Goto, guardVars, sessions, engines, Types, Released
<1>11. ASSUME NEW c \in Actors, StopMark(c) PROVE Released'
  <2>1. pc[c] = "mark" /\ target[c] \in Sessions /\ UNCHANGED <<eng, late, owns, target>>
    BY <1>11, Zenon DEF StopMark, engines, InHand, Stopping
  <2>2. pc'[c] \in {"restore", "engine"} /\ (pc'[c] = "restore" => still[target[c]])
    BY <1>11, Zenon DEF StopMark, Goto, Types
  <2>3. \A d \in Actors \ {c} : pc'[d] = pc[d] /\ failing'[d] = failing[d]
    BY <1>11, Zenon DEF StopMark, Goto, Types
  <2> QED BY <2>1, <2>2, <2>3, Zenon DEF Released, Idle
<1>12. ASSUME NEW c \in Actors, NEW ok \in BOOLEAN, StopEngine(c, ok) PROVE Released'
  <2>1. pc[c] = "engine" /\ target[c] \in Sessions /\ UNCHANGED <<owns, target>>
    BY <1>12, Zenon DEF StopEngine, InHand, Stopping
  <2>2. \A d \in Actors \ {c} : pc'[d] = pc[d] /\ pc[d] \notin Inside
    BY <1>12, <2>1, Zenon DEF StopEngine, Goto, Types, Locks, Exclusive, Inside
  <2>3. /\ eng'[target[c]] = ~ok /\ failing'[c] = ~ok
        /\ pc'[c] \in {"restore", "stopped"} /\ (ok => pc'[c] = "restore")
    BY <1>12, <2>1, Zenon DEF StopEngine, Goto, Flags, Types
  <2>4. ASSUME ~failing'[c] PROVE pc'[c] = "restore" /\ ~eng'[target'[c]]
    BY <2>1, <2>3, <2>4, Zenon
  <2>5. ASSUME NEW d \in Actors, pc'[d] \in {"restore", "leave", "stopped"} PROVE d = c
    BY <2>2, <2>5, Zenon DEF Inside
  <2> QED BY <2>4, <2>5, Zenon DEF Released
<1>13. ASSUME NEW c \in Actors, NEW o \in Outcomes, StopRestore(c, o) PROVE Released'
  <2>1. /\ pc[c] = "restore" /\ pc[c] \in Inside /\ target[c] \in Sessions /\ UNCHANGED <<eng, late, target>>
        /\ RestoreSession(target[c], o)
    BY <1>13, Zenon DEF StopRestore, engines, InHand, Stopping, Inside
  <2>2. \A d \in Actors \ {c} : pc'[d] = pc[d] /\ pc[d] \notin Inside
    BY <1>13, <2>1, Zenon DEF StopRestore, Goto, Types, Locks, Exclusive
  <2>3. failing'[c] = (failing[c] \/ o # "ok")
    BY <1>13, Zenon DEF StopRestore, Types
  <2>4. o = "ok" => ~owns'[target[c]]
    BY <2>1, Zenon DEF RestoreSession, Flags
  <2>5. ASSUME NEW d \in Actors, pc'[d] \in {"restore", "leave", "stopped"} PROVE d = c
    BY <2>2, <2>5, Zenon DEF Inside
  <2> QED BY <2>1, <2>3, <2>4, <2>5, Zenon DEF Released
<1>14. ASSUME NEW c \in Actors, StopLeave(c) PROVE Released'
  <2>1. \A t \in Sessions : eng'[t] => eng[t]
    <3>1. PICK left \in {FALSE, eng[target[c]]} : eng' = [eng EXCEPT ![target[c]] = left]
      BY <1>14, Zenon DEF StopLeave
    <3> QED BY <3>1, EnginesFewer, Zenon DEF Flags
  <2> QED
    BY <1>14, <2>1, Zenon DEF StopLeave, Goto, guardVars, Types, Released, InHand,
       Stopping
<1>15. ASSUME NEW c \in Actors, Stopped(c) PROVE Released'
  BY <1>15 DEF Stopped, Reply, Goto, guardVars, sessions, engines, Types, Released
<1>16. ASSUME NEW c \in Actors, NEW on \in BOOLEAN, NEW name \in Sessions \cup {None},
              SetKillSwitch(c, on, name) PROVE Released'
  BY <1>16, Zenon DEF SetKillSwitch, Goto, guardVars, sessions, engines, Types, Released
<1>17. ASSUME NEW c \in Actors, CheckSession(c) PROVE Released'
  BY <1>17 DEF CheckSession, Reply, Goto, guardVars, sessions, engines, Types, Released
<1>18. ASSUME NEW c \in Actors, KillBegin(c) PROVE Released'
  BY <1>18 DEF KillBegin, engines, Reply, Goto, guardVars, Types, Released
<1>19. ASSUME NEW c \in Actors, NEW o \in Outcomes, KillEnd(c, o) PROVE Released'
  <2>1. /\ pc[c] = "killing" /\ UNCHANGED <<eng, late>>
        /\ \A d \in Actors \ {c} : pc'[d] = pc[d] /\ failing'[d] = failing[d] /\ target'[d] = target[d]
        /\ pc'[c] \in {"idle", "drain"}
    BY <1>19, Zenon DEF KillEnd, engines, Reply, Types
  <2>2. ASSUME NEW d \in Actors, pc'[d] \in {"leave", "stopped"}, ~owns[target[d]] PROVE ~owns'[target[d]]
    <3>1. d # c /\ pc[d] \in {"leave", "stopped"}
      BY <2>1, <2>2, Zenon
    <3>2. target[d] \in Sessions /\ ~lock[target[d]]
      BY <3>1, Zenon DEF InHand, Halting, Stopping
    <3>3. target[d] # target[c]
      BY <2>1, <3>2, Zenon DEF Locks
    <3>4. owns'[target[d]] = owns[target[d]]
      BY <1>19, <3>2, <3>3, Zenon DEF KillEnd, Flags
    <3> QED BY <2>2, <3>4, Zenon
  <2>3. \A d \in Actors : pc'[d] \in {"restore", "leave", "stopped"} => d # c
    BY <2>1, Zenon
  <2> QED BY <2>1, <2>2, <2>3, Zenon DEF Released
<1>20. ASSUME NEW s \in Sessions, SessionFails(s) PROVE Released'
  <2>1. \A t \in Sessions : eng'[t] => eng[t]
    <3>1. PICK left \in {FALSE, eng[s]} : eng' = [eng EXCEPT ![s] = left]
      BY <1>20, Zenon DEF SessionFails
    <3> QED BY <3>1, EnginesFewer, Zenon DEF Flags
  <2> QED
    BY <1>20, <2>1, Zenon DEF SessionFails, guardVars, handlers, Types, Released,
       InHand, Stopping
<1>21. ASSUME NEW s \in Sessions, LateApply(s) PROVE Released'
  <2>1. \A t \in Sessions : eng'[t] => late'[t] \/ (eng[t] /\ ~late[t])
    BY <1>21, SMTT(30) DEF LateApply, Flags
  <2>2. \A t \in Sessions : late[t] => late'[t]
    BY <1>21, SMTT(30) DEF LateApply, Flags
  <2> QED
    BY <1>21, <2>1, <2>2, Zenon DEF LateApply, guardVars, handlers, Types, Released,
       InHand, Stopping
<1>22. ASSUME NEW s \in Sessions, WatchCancelled(s) PROVE Released'
  BY <1>22, Zenon DEF WatchCancelled, guardVars, handlers, Types, Released
<1>23. ASSUME Close PROVE Released'
  BY <1>23, Zenon DEF Close, Goto, guardVars, sessions, engines, Types, Released
<1>24. ASSUME Exit PROVE Released'
  BY <1>24, Zenon DEF Exit, Goto, guardVars, sessions, engines, Types, Released
<1>25. CASE UNCHANGED mgrVars
  BY <1>25, Zenon DEF mgrVars, guardVars, sessions, engines, handlers, Types, Released
<1> QED
  BY <1>1, <1>2, <1>3, <1>4, <1>5, <1>6, <1>7, <1>8, <1>9, <1>10, <1>11, <1>12, <1>13,
     <1>14, <1>15, <1>16, <1>17, <1>18, <1>19, <1>20, <1>21, <1>22, <1>23, <1>24,
     <1>25, Zenon DEF ManagerNext, Request, Step, Exited, Actors

\* A step of the one inside, which keeps what is owned with the session in hand.
LEMMA OwnedInside ==
    ASSUME Types, Locks, NEW c \in Actors, pc[c] \in Inside,
           NEW label, pc' = [pc EXCEPT ![c] = label], label # "start",
           busy' = busy, target' = target, Owning' \subseteq {target[c]}
    PROVE  Owned'
<1>1. \A d \in Actors \ {c} : pc'[d] = pc[d] /\ pc[d] \notin Inside
  BY Zenon DEF Types, Locks, Exclusive
<1>2. pc'[c] # "start" /\ busy
  BY Zenon DEF Types, Locks
<1>3. \A d \in Actors : pc'[d] \in Inside => d = c
  BY <1>1, Zenon
<1> QED BY <1>2, <1>3, Zenon DEF Owned

\* Only the session in hand, or the current one, owns anything.
LEMMA OwnedStep ==
    ASSUME Flags, Types, Locks, InHand, Halting, Released, Owned, Changing,
           [ManagerNext]_mgrVars
    PROVE  Owned'
<1>1. ASSUME NEW c \in Actors, Connect(c) PROVE Owned'
  BY <1>1, Zenon DEF Connect, Goto, guardVars, sessions, engines, Types, Owned, Owning, Inside,
     Locks, None
<1>2. ASSUME NEW c \in Actors, NEW ok \in BOOLEAN, NEW on \in BOOLEAN, Build(c, ok, on)
      PROVE  Owned'
  BY <1>2 DEF Build, engines, Reply, Goto, guardVars, Types, Owned, Owning, Inside, Locks,
     Exclusive, InHand, None, Sessions
<1>3. ASSUME NEW c \in Actors, NEW ok \in BOOLEAN, StartSession(c, ok) PROVE Owned'
  BY <1>3 DEF StartSession, engines, Goto, guardVars, Types, Owned, Owning, Inside, Flags, Locks,
     Exclusive, InHand, Stopping, Starting
<1>4. ASSUME NEW c \in Actors, NEW o \in Outcomes, ArmSession(c, o) PROVE Owned'
  BY <1>4, Zenon DEF ArmSession, Goto, sessions, engines, Types, Owned, Owning, Inside
<1>5. ASSUME NEW c \in Actors, NEW ok \in BOOLEAN, RunEngine(c, ok) PROVE Owned'
  BY <1>5 DEF RunEngine, Goto, guardVars, Types, Owned, Owning, Inside, Flags, Locks,
     Exclusive, InHand, Stopping, Starting
<1>6. ASSUME NEW c \in Actors, NEW o \in Outcomes, UndoStart(c, o) PROVE Owned'
  BY <1>6 DEF UndoStart, engines, RestoreSession, Goto, guardVars, Types, Owned, Owning, Inside,
     Flags, Locks, Exclusive, InHand, Stopping, Starting
<1>7. ASSUME NEW c \in Actors, StartFailed(c) PROVE Owned'
  BY <1>7, Zenon DEF StartFailed, engines, Goto, guardVars, Types, Owned, Owning, Inside
<1>8. ASSUME NEW c \in Actors, Started(c) PROVE Owned'
  BY <1>8, Zenon DEF Started, Reply, guardVars, Types, Owned, Owning, Inside, Locks,
     Exclusive
<1>9. ASSUME NEW c \in Actors, NEW name \in Sessions \cup {None}, Disconnect(c, name)
      PROVE  Owned'
  BY <1>9, Zenon DEF Disconnect, Goto, guardVars, sessions, engines, Types, Owned, Owning, Inside
<1>10. ASSUME NEW c \in Actors, DisconnectBegin(c) PROVE Owned'
  BY <1>10 DEF DisconnectBegin, Reply, Goto, guardVars, sessions, engines, Types, Owned, Owning,
     Inside, Locks, Exclusive
<1>11. ASSUME NEW c \in Actors, StopMark(c) PROVE Owned'
  BY <1>11, Zenon DEF StopMark, engines, Goto, guardVars, Types, Owned, Owning, Inside
<1>12. ASSUME NEW c \in Actors, NEW ok \in BOOLEAN, StopEngine(c, ok) PROVE Owned'
  <2>1. /\ pc[c] \in Inside /\ pc[c] # "start" /\ target[c] \in Sessions
        /\ UNCHANGED <<busy, owns, target>>
    BY <1>12, Zenon DEF StopEngine, InHand, Stopping, Inside
  <2>2. PICK label \in {"stopped", "restore"} : pc' = [pc EXCEPT ![c] = label]
    BY <1>12, Zenon DEF StopEngine, Goto
  <2>3. \A t \in Sessions \ {target[c]} : eng'[t] = eng[t] /\ late'[t] = late[t]
    BY <1>12, Zenon DEF StopEngine, Flags
  <2>4. Owning \subseteq {target[c]}
    BY <2>1, Zenon DEF Owned
  <2>5. Owning' \subseteq {target[c]}
    BY <2>1, <2>3, <2>4, Zenon DEF Owning
  <2> QED BY <2>1, <2>2, <2>5, OwnedInside, Zenon
<1>13. ASSUME NEW c \in Actors, NEW o \in Outcomes, StopRestore(c, o) PROVE Owned'
  <2>1. /\ pc[c] \in Inside /\ pc[c] # "start" /\ target[c] \in Sessions
        /\ UNCHANGED <<busy, eng, late, target>>
    BY <1>13, Zenon DEF StopRestore, engines, InHand, Stopping, Inside
  <2>2. PICK label \in {"stopped", "leave"} : pc' = [pc EXCEPT ![c] = label]
    BY <1>13, Zenon DEF StopRestore, Goto
  <2>3. \A t \in Sessions \ {target[c]} : owns'[t] = owns[t]
    BY <1>13, Zenon DEF StopRestore, RestoreSession, Flags
  <2>4. Owning \subseteq {target[c]}
    BY <2>1, Zenon DEF Owned
  <2>5. Owning' \subseteq {target[c]}
    BY <2>1, <2>3, <2>4, Zenon DEF Owning
  <2> QED BY <2>1, <2>2, <2>5, OwnedInside, Zenon
<1>14. ASSUME NEW c \in Actors, StopLeave(c) PROVE Owned'
  <2>1. \A t \in Sessions : eng'[t] => eng[t]
    <3>1. PICK left \in {FALSE, eng[target[c]]} : eng' = [eng EXCEPT ![target[c]] = left]
      BY <1>14, Zenon DEF StopLeave
    <3> QED BY <3>1, EnginesFewer, Zenon DEF Flags
  <2>2. Owning' \subseteq Owning
    BY <1>14, <2>1, Zenon DEF StopLeave, Owning
  <2>3. pc[c] \in Inside /\ pc[c] # "start"
    BY <1>14, Zenon DEF StopLeave, Inside
  <2>4. pc' = [pc EXCEPT ![c] = "stopped"] /\ UNCHANGED <<busy, current, target>>
    BY <1>14, Zenon DEF StopLeave, Goto
  <2>5. pc'[c] = "stopped" /\ \A d \in Actors \ {c} : pc'[d] = pc[d]
    BY <2>4, Zenon DEF Types
  <2>6. \A d \in Actors : pc'[d] \in Inside => pc[d] \in Inside /\ (pc'[d] = "start" <=> pc[d] = "start")
    BY <2>3, <2>5, Zenon
  <2> QED
    BY <2>2, <2>4, <2>6, Zenon DEF Owned
<1>15. ASSUME NEW c \in Actors, Stopped(c) PROVE Owned'
  <2>1. /\ pc[c] = "stopped" /\ pc[c] \in Inside /\ target[c] \in Sessions /\ Owning' = Owning
        /\ \A d \in Actors \ {c} : pc'[d] = pc[d]
    BY <1>15, Zenon DEF Stopped, sessions, engines, Owning, InHand, Stopping, Inside, Reply, Goto, Types
  <2>2. Owning \subseteq {target[c]}
    BY <2>1, Zenon DEF Owned
  <2>3. ~failing[c] => Owning = {}
    <3>1. ~failing[c] => target[c] \notin Owning
      BY <2>1, Zenon DEF Released, Owning
    <3> QED BY <2>2, <3>1, Zenon
  <2>4. \A d \in Actors \ {c} : pc'[d] \notin Inside
    BY <2>1, Zenon DEF Locks, Exclusive
  <2>5. CASE op[c] = "connect" /\ ~failing[c]
    <3>1. busy' = busy /\ busy
      BY <1>15, <2>1, <2>5, Zenon DEF Stopped, Locks
    <3> QED BY <2>1, <2>3, <2>5, <3>1, Zenon DEF Owned
  <2>6. CASE ~(op[c] = "connect" /\ ~failing[c])
    <3>1. current' = (IF op[c] = "connect" THEN current ELSE IF failing[c] THEN target[c] ELSE None) /\ Reply(c)
      BY <1>15, <2>6, Zenon DEF Stopped
    <3>2. op[c] = "connect" => target[c] = current
      BY <2>1, Zenon DEF InHand, Stopping
    <3>3. Owning' \subseteq {current'}
      BY <2>1, <2>2, <2>3, <3>1, <3>2, Zenon
    <3>4. pc'[c] \notin Inside
      BY <3>1, Zenon DEF Reply, Types, Inside
    <3> QED BY <2>4, <3>3, <3>4, Zenon DEF Owned
  <2> QED BY <2>5, <2>6, Zenon
<1>16. ASSUME NEW c \in Actors, NEW on \in BOOLEAN, NEW name \in Sessions \cup {None},
              SetKillSwitch(c, on, name) PROVE Owned'
  BY <1>16, Zenon DEF SetKillSwitch, Goto, guardVars, sessions, engines, Types, Owned, Owning,
     Inside
<1>17. ASSUME NEW c \in Actors, CheckSession(c) PROVE Owned'
  BY <1>17 DEF CheckSession, Reply, Goto, guardVars, sessions, engines, Types, Owned, Owning,
     Inside
<1>18. ASSUME NEW c \in Actors, KillBegin(c) PROVE Owned'
  BY <1>18 DEF KillBegin, engines, Reply, Goto, guardVars, Types, Owned, Owning, Inside
<1>19. ASSUME NEW c \in Actors, NEW o \in Outcomes, KillEnd(c, o) PROVE Owned'
  <2>1. /\ pc[c] = "killing" /\ UNCHANGED <<busy, current, eng>>
        /\ \A d \in Actors \ {c} : pc'[d] = pc[d] /\ target'[d] = target[d]
        /\ pc'[c] \in {"idle", "drain"}
    BY <1>19, Zenon DEF KillEnd, engines, Reply, Types
  <2>2. target[c] = current /\ current \in Sessions /\ current # None /\ lock[current]
    BY <2>1, ManagerAssumption DEF Changing, Killers, Locks, Sessions, None
  <2>3. Owning' \subseteq Owning \cup {current}
    BY <1>19, <2>1, <2>2, Zenon DEF KillEnd, engines, Owning, Flags
  <2>4. ASSUME NEW d \in Actors, pc[d] \in Inside
        PROVE  pc[d] # "start" /\ target[d] = current
    BY <2>2, <2>4, Zenon DEF InHand, Halting, Inside, Stopping, Starting
  <2> QED BY <2>1, <2>2, <2>3, <2>4 DEF Owned, Inside
<1>20. ASSUME NEW s \in Sessions, SessionFails(s) PROVE Owned'
  <2>1. \A t \in Sessions : eng'[t] => eng[t]
    <3>1. PICK left \in {FALSE, eng[s]} : eng' = [eng EXCEPT ![s] = left]
      BY <1>20, Zenon DEF SessionFails
    <3> QED BY <3>1, EnginesFewer, Zenon DEF Flags
  <2>2. Owning' \subseteq Owning
    BY <1>20, <2>1, Zenon DEF SessionFails, Owning
  <2> QED
    BY <1>20, <2>2, Zenon DEF SessionFails, handlers, Owned
<1>21. ASSUME NEW s \in Sessions, LateApply(s) PROVE Owned'
  <2>1. \A t \in Sessions : eng'[t] /\ ~late'[t] => eng[t] /\ ~late[t]
    BY <1>21, SMTT(30) DEF LateApply, Flags
  <2>2. Owning' \subseteq Owning
    BY <1>21, <2>1, Zenon DEF LateApply, Owning
  <2> QED
    BY <1>21, <2>2, Zenon DEF LateApply, guardVars, handlers, Owned
<1>22. ASSUME NEW s \in Sessions, WatchCancelled(s) PROVE Owned'
  BY <1>22, Zenon DEF WatchCancelled, guardVars, handlers, Owned, Owning
<1>23. ASSUME Close PROVE Owned'
  BY <1>23, Zenon DEF Close, Goto, guardVars, sessions, engines, Types, Owned, Owning, Inside
<1>24. ASSUME Exit PROVE Owned'
  BY <1>24, Zenon DEF Exit, Goto, guardVars, sessions, engines, Types, Owned, Owning, Inside
<1>25. CASE UNCHANGED mgrVars
  BY <1>25, Zenon DEF mgrVars, guardVars, sessions, engines, handlers, Types, Owned, Owning,
     Inside
<1> QED
  BY <1>1, <1>2, <1>3, <1>4, <1>5, <1>6, <1>7, <1>8, <1>9, <1>10, <1>11, <1>12, <1>13,
     <1>14, <1>15, <1>16, <1>17, <1>18, <1>19, <1>20, <1>21, <1>22, <1>23, <1>24,
     <1>25, Zenon DEF ManagerNext, Request, Step, Exited, Actors

\* A kill-switch change works on the current session, or on one that refuses it.
LEMMA ChangingStep ==
    ASSUME Flags, Types, Locks, InHand, Halting, Changing, [ManagerNext]_mgrVars
    PROVE  Changing'
<1>1. ASSUME NEW c \in Actors, Connect(c) PROVE Changing'
  BY <1>1, Zenon DEF Connect, Goto, guardVars, sessions, engines, Types, Changing, Killers
<1>2. ASSUME NEW c \in Actors, NEW ok \in BOOLEAN, NEW on \in BOOLEAN, Build(c, ok, on)
      PROVE  Changing'
  BY <1>2, ManagerAssumption DEF Build, Reply, Goto, guardVars, Types, Changing,
     Killers, Sessions
<1>3. ASSUME NEW c \in Actors, NEW ok \in BOOLEAN, StartSession(c, ok) PROVE Changing'
  BY <1>3, SMTT(30), ZenonT(30)
  DEF StartSession, Goto, guardVars, Types, Changing, Killers, Halting, Locks, None
<1>4. ASSUME NEW c \in Actors, NEW o \in Outcomes, ArmSession(c, o) PROVE Changing'
  BY <1>4, Zenon DEF ArmSession, Goto, sessions, engines, Types, Changing, Killers
<1>5. ASSUME NEW c \in Actors, NEW ok \in BOOLEAN, RunEngine(c, ok) PROVE Changing'
  BY <1>5, Zenon DEF RunEngine, Goto, guardVars, Types, Changing, Killers
<1>6. ASSUME NEW c \in Actors, NEW o \in Outcomes, UndoStart(c, o) PROVE Changing'
  BY <1>6, Zenon DEF UndoStart, RestoreSession, Goto, guardVars, Types, Changing,
     Killers
<1>7. ASSUME NEW c \in Actors, StartFailed(c) PROVE Changing'
  BY <1>7, Zenon DEF StartFailed, Goto, guardVars, Types, Changing, Killers
<1>8. ASSUME NEW c \in Actors, Started(c) PROVE Changing'
  BY <1>8, ManagerAssumption, SMTT(30), ZenonT(30)
  DEF Started, Reply, guardVars, Types, Changing, Killers, InHand, Stopping, Starting, Sessions, None
<1>9. ASSUME NEW c \in Actors, NEW name \in Sessions \cup {None}, Disconnect(c, name)
      PROVE  Changing'
  BY <1>9, Zenon DEF Disconnect, Goto, guardVars, sessions, engines, Types, Changing, Killers
<1>10. ASSUME NEW c \in Actors, DisconnectBegin(c) PROVE Changing'
  BY <1>10 DEF DisconnectBegin, Reply, Goto, guardVars, sessions, engines, Types, Changing,
     Killers
<1>11. ASSUME NEW c \in Actors, StopMark(c) PROVE Changing'
  BY <1>11, Zenon DEF StopMark, Goto, guardVars, Types, Changing, Killers, Flags
<1>12. ASSUME NEW c \in Actors, NEW ok \in BOOLEAN, StopEngine(c, ok) PROVE Changing'
  BY <1>12, Zenon DEF StopEngine, Goto, guardVars, Types, Changing, Killers
<1>13. ASSUME NEW c \in Actors, NEW o \in Outcomes, StopRestore(c, o) PROVE Changing'
  BY <1>13, Zenon DEF StopRestore, RestoreSession, Goto, guardVars, Types, Changing,
     Killers
<1>14. ASSUME NEW c \in Actors, StopLeave(c) PROVE Changing'
  BY <1>14, Zenon DEF StopLeave, Goto, guardVars, Types, Changing, Killers
<1>15. ASSUME NEW c \in Actors, Stopped(c) PROVE Changing'
  <2>1. /\ pc[c] = "stopped" /\ UNCHANGED <<created, halted>>
        /\ \A d \in Actors \ {c} :
              pc'[d] = pc[d] /\ target'[d] = target[d] /\ named'[d] = named[d]
        /\ pc'[c] \in {"start", "idle", "drain"}
    BY <1>15, Zenon DEF Stopped, Reply, Goto, sessions, engines, Types
  <2>2. current' # current => \/ target[c] = current
                             \/ current = None
    BY <1>15, <2>1, Zenon DEF Stopped, InHand, Stopping
  <2>3. halted[target[c]] /\ ~lock[target[c]]
    BY <2>1, Zenon DEF Halting, Stopping
  <2>4. ASSUME NEW d \in Actors, pc[d] \in Killers
        PROVE  target[d] # None /\ (target[d] = target[c] => pc[d] # "killing")
    <3>1. target[d] \in Sessions
      BY <2>4, Zenon DEF Changing
    <3>2. pc[d] = "killing" => lock[target[d]]
      BY <3>1, Zenon DEF Locks
    <3> QED BY <2>3, <3>1, <3>2, SessionNumbers, Zenon
  <2> QED BY <2>1, <2>2, <2>3, <2>4 DEF Changing, Killers
<1>16. ASSUME NEW c \in Actors, NEW on \in BOOLEAN, NEW name \in Sessions \cup {None},
              SetKillSwitch(c, on, name) PROVE Changing'
  <2>1. /\ UNCHANGED <<created, current, halted>> /\ target'[c] = current /\ pc'[c] = "check"
        /\ \A d \in Actors \ {c} : pc'[d] = pc[d] /\ target'[d] = target[d] /\ named'[d] = named[d]
    BY <1>16, Zenon DEF SetKillSwitch, Goto, sessions, Types
  <2>2. current # None
    BY <1>16, Zenon DEF SetKillSwitch
  <2>3. current \in Sessions /\ current <= created
    BY <2>2, SessionNumbers, Zenon DEF Types, InHand
  <2> QED BY <2>1, <2>3, Zenon DEF Changing, Killers
<1>17. ASSUME NEW c \in Actors, CheckSession(c) PROVE Changing'
  BY <1>17 DEF CheckSession, Reply, Goto, guardVars, sessions, engines, Types, Changing, Killers
<1>18. ASSUME NEW c \in Actors, KillBegin(c) PROVE Changing'
  BY <1>18 DEF KillBegin, Reply, Goto, guardVars, Types, Changing, Killers, Refused
<1>19. ASSUME NEW c \in Actors, NEW o \in Outcomes, KillEnd(c, o) PROVE Changing'
  BY <1>19, Zenon DEF KillEnd, Reply, Types, Changing, Killers
<1>20. ASSUME NEW s \in Sessions, SessionFails(s) PROVE Changing'
  BY <1>20, Zenon DEF SessionFails, guardVars, handlers, Types, Changing, Killers
<1>21. ASSUME NEW s \in Sessions, LateApply(s) PROVE Changing'
  BY <1>21, Zenon DEF LateApply, guardVars, handlers, Types, Changing, Killers
<1>22. ASSUME NEW s \in Sessions, WatchCancelled(s) PROVE Changing'
  BY <1>22, Zenon DEF WatchCancelled, guardVars, handlers, Types, Changing, Killers
<1>23. ASSUME Close PROVE Changing'
  BY <1>23, Zenon DEF Close, Goto, guardVars, sessions, engines, Types, Changing, Killers
<1>24. ASSUME Exit PROVE Changing'
  BY <1>24, Zenon DEF Exit, Goto, guardVars, sessions, engines, Types, Changing, Killers
<1>25. CASE UNCHANGED mgrVars
  BY <1>25, Zenon DEF mgrVars, guardVars, sessions, engines, handlers, Types, Changing, Killers
<1> QED
  BY <1>1, <1>2, <1>3, <1>4, <1>5, <1>6, <1>7, <1>8, <1>9, <1>10, <1>11, <1>12, <1>13,
     <1>14, <1>15, <1>16, <1>17, <1>18, <1>19, <1>20, <1>21, <1>22, <1>23, <1>24,
     <1>25, Zenon DEF ManagerNext, Request, Step, Exited, Actors

\* No kill-switch change is under way on a disconnected session.
LEMMA RestingStep ==
    ASSUME Flags, Types, InHand, Halting, Changing, Resting, [ManagerNext]_mgrVars
    PROVE  Resting'
<1>1. ASSUME NEW c \in Actors, Connect(c) PROVE Resting'
  BY <1>1, Zenon DEF Connect, Goto, guardVars, sessions, engines, Resting
<1>2. ASSUME NEW c \in Actors, NEW ok \in BOOLEAN, NEW on \in BOOLEAN, Build(c, ok, on)
      PROVE  Resting'
  BY <1>2, Zenon DEF Build, Reply, Goto, guardVars, Resting
<1>3. ASSUME NEW c \in Actors, NEW ok \in BOOLEAN, StartSession(c, ok) PROVE Resting'
  <2>1. PICK v \in {"connecting", "failed"} : st' = [st EXCEPT ![created] = v] /\ lock' = lock
    BY <1>3, Zenon DEF StartSession
  <2>2. \A s \in Sessions : st'[s] = "disconnected" => st[s] = "disconnected"
    BY <2>1, Zenon DEF Types
  <2> QED BY <2>1, <2>2, Zenon DEF Resting
<1>4. ASSUME NEW c \in Actors, NEW o \in Outcomes, ArmSession(c, o) PROVE Resting'
  BY <1>4, Zenon DEF ArmSession, Goto, sessions, engines, Resting
<1>5. ASSUME NEW c \in Actors, NEW ok \in BOOLEAN, RunEngine(c, ok) PROVE Resting'
  BY <1>5, Zenon DEF RunEngine, Goto, guardVars, Resting
<1>6. ASSUME NEW c \in Actors, NEW o \in Outcomes, UndoStart(c, o) PROVE Resting'
  BY <1>6, Zenon DEF UndoStart, RestoreSession, Goto, guardVars, Resting
<1>7. ASSUME NEW c \in Actors, StartFailed(c) PROVE Resting'
  BY <1>7 DEF StartFailed, Goto, guardVars, Resting, Types
<1>8. ASSUME NEW c \in Actors, Started(c) PROVE Resting'
  BY <1>8 DEF Started, Reply, guardVars, Resting, Types
<1>9. ASSUME NEW c \in Actors, NEW name \in Sessions \cup {None}, Disconnect(c, name)
      PROVE  Resting'
  BY <1>9, Zenon DEF Disconnect, Goto, guardVars, sessions, engines, Resting
<1>10. ASSUME NEW c \in Actors, DisconnectBegin(c) PROVE Resting'
  BY <1>10, Zenon DEF DisconnectBegin, Reply, Goto, guardVars, sessions, engines, Resting
<1>11. ASSUME NEW c \in Actors, StopMark(c) PROVE Resting'
  BY <1>11, Zenon DEF StopMark, Goto, guardVars, Resting
<1>12. ASSUME NEW c \in Actors, NEW ok \in BOOLEAN, StopEngine(c, ok) PROVE Resting'
  BY <1>12, Zenon DEF StopEngine, Goto, guardVars, Resting
<1>13. ASSUME NEW c \in Actors, NEW o \in Outcomes, StopRestore(c, o) PROVE Resting'
  BY <1>13, Zenon DEF StopRestore, RestoreSession, Goto, guardVars, Resting
<1>14. ASSUME NEW c \in Actors, StopLeave(c) PROVE Resting'
  BY <1>14 DEF StopLeave, Goto, guardVars, Resting, Types, Halting
<1>15. ASSUME NEW c \in Actors, Stopped(c) PROVE Resting'
  BY <1>15, Zenon DEF Stopped, Reply, Goto, guardVars, sessions, engines, Resting
<1>16. ASSUME NEW c \in Actors, NEW on \in BOOLEAN, NEW name \in Sessions \cup {None},
              SetKillSwitch(c, on, name) PROVE Resting'
  BY <1>16, Zenon DEF SetKillSwitch, Goto, guardVars, sessions, engines, Resting
<1>17. ASSUME NEW c \in Actors, CheckSession(c) PROVE Resting'
  BY <1>17, Zenon DEF CheckSession, Reply, Goto, guardVars, sessions, engines, Resting
<1>18. ASSUME NEW c \in Actors, KillBegin(c) PROVE Resting'
  BY <1>18, Zenon DEF KillBegin, Reply, Goto, guardVars, Resting, Refused, Flags
<1>19. ASSUME NEW c \in Actors, NEW o \in Outcomes, KillEnd(c, o) PROVE Resting'
  BY <1>19, Zenon DEF KillEnd, Reply, Resting, Flags
<1>20. ASSUME NEW s \in Sessions, SessionFails(s) PROVE Resting'
  BY <1>20 DEF SessionFails, guardVars, handlers, Resting, Types
<1>21. ASSUME NEW s \in Sessions, LateApply(s) PROVE Resting'
  BY <1>21 DEF LateApply, guardVars, handlers, Resting, Types
<1>22. ASSUME NEW s \in Sessions, WatchCancelled(s) PROVE Resting'
  BY <1>22 DEF WatchCancelled, guardVars, handlers, Resting, Types
<1>23. ASSUME Close PROVE Resting'
  BY <1>23, Zenon DEF Close, Goto, guardVars, sessions, engines, Resting
<1>24. ASSUME Exit PROVE Resting'
  BY <1>24, Zenon DEF Exit, Goto, guardVars, sessions, engines, Resting
<1>25. CASE UNCHANGED mgrVars
  BY <1>25, Zenon DEF mgrVars, guardVars, sessions, engines, handlers, Resting
<1> QED
  BY <1>1, <1>2, <1>3, <1>4, <1>5, <1>6, <1>7, <1>8, <1>9, <1>10, <1>11, <1>12, <1>13,
     <1>14, <1>15, <1>16, <1>17, <1>18, <1>19, <1>20, <1>21, <1>22, <1>23, <1>24,
     <1>25, Zenon DEF ManagerNext, Request, Step, Exited, Actors

-----------------------------------------------------------------------------
(***************************************************************************)
(* The guard and the table agree while nft is never cut off.               *)
(***************************************************************************)

\* A step that leaves the guard and its owners alone.
LEMMA QuietArmed ==
    ASSUME Armed, UNCHANGED <<armed, table, owns>>,
           \A d \in Actors : pc'[d] = "arm" => pc[d] = "arm" /\ target'[d] = target[d]
    PROVE  Armed'
BY Zenon DEF Armed, GuardAgrees, Blocked

\* There is a network to render a ruleset for.
LEMMA TheNet == TheNetwork \in Networks
BY ManagerAssumption, Zenon DEF TheNetwork

\* Taking the guard takes it from nobody.
LEMMA OwnersGrow ==
    ASSUME Flags, NEW u \in Sessions, NEW b \in BOOLEAN, owns' = [owns EXCEPT ![u] = @ \/ b]
    PROVE  (\A s \in Sessions : owns[s] => owns'[s]) /\ (b => owns'[u])
<1>1. owns \in [Sessions -> BOOLEAN]
  BY Zenon DEF Flags
<1>2. ASSUME NEW s \in Sessions, owns[s] PROVE owns'[s]
  <2>1. CASE s = u
    BY <1>1, <1>2, <2>1, Zenon
  <2>2. CASE s # u
    BY <1>1, <1>2, <2>2, Zenon
  <2> QED BY <2>1, <2>2, Zenon
<1>3. b => owns'[u]
  BY <1>1, Zenon
<1> QED BY <1>2, <1>3, Zenon

\* The owner flag that a step writes.
LEMMA OwnerSet ==
    ASSUME Flags, NEW u \in Sessions, NEW b \in BOOLEAN, owns' = [owns EXCEPT ![u] = b]
    PROVE  b => owns'[u]
BY Zenon DEF Flags

\* A block keeps an owner.
LEMMA ArmedStep ==
    ASSUME "cut" \notin Outcomes, Flags, Types, Locks, InHand, Owned, Changing, Armed,
           [ManagerNext]_mgrVars
    PROVE  Armed'
<1>1. ASSUME NEW c \in Actors, Connect(c) PROVE Armed'
  <2>1. UNCHANGED <<armed, table, owns>>
    BY <1>1, Zenon DEF Connect, Goto, guardVars, sessions, engines
  <2>2. \A d \in Actors : pc'[d] = "arm" => pc[d] = "arm" /\ target'[d] = target[d]
    BY <1>1, Zenon DEF Connect, Goto, guardVars, sessions, engines, Types
  <2> QED BY <2>1, <2>2, QuietArmed, Zenon
<1>2. ASSUME NEW c \in Actors, NEW ok \in BOOLEAN, NEW on \in BOOLEAN, Build(c, ok, on)
      PROVE  Armed'
  <2>1. UNCHANGED <<armed, table, owns>>
    BY <1>2, Zenon DEF Build, Reply, Goto, guardVars
  <2>2. \A d \in Actors : pc'[d] = "arm" => pc[d] = "arm" /\ target'[d] = target[d]
    BY <1>2, Zenon DEF Build, Reply, Goto, guardVars, Types
  <2> QED BY <2>1, <2>2, QuietArmed, Zenon
<1>3. ASSUME NEW c \in Actors, NEW ok \in BOOLEAN, StartSession(c, ok) PROVE Armed'
  <2>1. \A s \in Sessions : ~owns[s]
    BY <1>3, Zenon DEF StartSession, Owned, Owning, Inside
  <2>2. ~armed /\ UNCHANGED <<armed, table>>
    BY <1>3, <2>1, Zenon DEF StartSession, Armed, guardVars
  <2>3. GuardAgrees' /\ ~armed'
    BY <2>2, Zenon DEF Armed, GuardAgrees, Blocked
  <2>4. ASSUME NEW d \in Actors, pc'[d] = "arm" PROVE owns'[target'[d]]
    <3>1. d = c /\ ok
      BY <1>3, <2>4, SMTT(60) DEF StartSession, Goto, Types, Locks, Exclusive, Inside
    <3>2. target'[d] = created /\ created \in Sessions
      BY <1>3, <3>1, Zenon DEF StartSession, Types, InHand
    <3>3. owns'[created] = ok
      BY <1>3, <3>2, Zenon DEF StartSession, Flags
    <3> QED BY <3>1, <3>2, <3>3, Zenon
  <2> QED BY <2>3, <2>4, Zenon DEF Armed
<1>4. ASSUME NEW c \in Actors, NEW o \in Outcomes, ArmSession(c, o) PROVE Armed'
  <2>1. target[c] \in Sessions /\ UNCHANGED <<owns, target>>
    BY <1>4, Zenon DEF ArmSession, sessions, engines, InHand, Starting
  <2>2. owns[target[c]]
    BY <1>4, Zenon DEF ArmSession, Armed
  <2>3. kill[target[c]] \in BOOLEAN
    BY <2>1, Zenon DEF Flags
  <2>4. GuardAgrees'
    BY <1>4, <2>3, ApplyAgrees, TheNet, Zenon DEF ArmSession, Armed
  <2>5. \A d \in Actors : pc'[d] = "arm" => pc[d] = "arm"
    BY <1>4, Zenon DEF ArmSession, Goto, Types
  <2> QED BY <2>1, <2>2, <2>4, <2>5, Zenon DEF Armed
<1>5. ASSUME NEW c \in Actors, NEW ok \in BOOLEAN, RunEngine(c, ok) PROVE Armed'
  <2>1. UNCHANGED <<armed, table, owns>>
    BY <1>5, Zenon DEF RunEngine, Goto, guardVars
  <2>2. \A d \in Actors : pc'[d] = "arm" => pc[d] = "arm" /\ target'[d] = target[d]
    BY <1>5, Zenon DEF RunEngine, Goto, guardVars, Types
  <2> QED BY <2>1, <2>2, QuietArmed, Zenon
<1>6. ASSUME NEW c \in Actors, NEW o \in Outcomes, UndoStart(c, o) PROVE Armed'
  <2>1. target[c] \in Sessions /\ \A d \in Actors : pc'[d] # "arm"
    BY <1>6, SMTT(60) DEF UndoStart, Goto, Types, Locks, Exclusive, Inside, InHand,
       Stopping, Starting
  <2>2. CASE owns[target[c]]
    <3>1. /\ Restore(o) /\ (o # "ok") \in BOOLEAN
          /\ owns' = [owns EXCEPT ![target[c]] = o # "ok"]
      BY <1>6, <2>2, Zenon DEF UndoStart, RestoreSession
    <3>2. GuardAgrees' /\ (o = "ok" => ~armed')
      BY <3>1, RestoreAgrees, Zenon DEF Armed
    <3>3. o # "ok" => owns'[target[c]]
      BY <2>1, <3>1, OwnerSet, Zenon
    <3> QED BY <2>1, <3>2, <3>3, Zenon DEF Armed
  <2>3. CASE ~owns[target[c]]
    <3>1. UNCHANGED <<armed, table, owns>>
      BY <1>6, <2>3, Zenon DEF UndoStart, RestoreSession, guardVars
    <3> QED BY <2>1, <3>1, QuietArmed, Zenon
  <2> QED BY <2>2, <2>3, Zenon
<1>7. ASSUME NEW c \in Actors, StartFailed(c) PROVE Armed'
  <2>1. UNCHANGED <<armed, table, owns>>
    BY <1>7, Zenon DEF StartFailed, Goto, guardVars
  <2>2. \A d \in Actors : pc'[d] = "arm" => pc[d] = "arm" /\ target'[d] = target[d]
    BY <1>7, Zenon DEF StartFailed, Goto, guardVars, Types
  <2> QED BY <2>1, <2>2, QuietArmed, Zenon
<1>8. ASSUME NEW c \in Actors, Started(c) PROVE Armed'
  <2>1. UNCHANGED <<armed, table, owns>>
    BY <1>8, Zenon DEF Started, Reply, guardVars
  <2>2. \A d \in Actors : pc'[d] = "arm" => pc[d] = "arm" /\ target'[d] = target[d]
    BY <1>8, Zenon DEF Started, Reply, guardVars, Types
  <2> QED BY <2>1, <2>2, QuietArmed, Zenon
<1>9. ASSUME NEW c \in Actors, NEW name \in Sessions \cup {None}, Disconnect(c, name)
      PROVE  Armed'
  <2>1. UNCHANGED <<armed, table, owns>>
    BY <1>9, Zenon DEF Disconnect, Goto, guardVars, sessions, engines
  <2>2. \A d \in Actors : pc'[d] = "arm" => pc[d] = "arm" /\ target'[d] = target[d]
    BY <1>9, Zenon DEF Disconnect, Goto, guardVars, sessions, engines, Types
  <2> QED BY <2>1, <2>2, QuietArmed, Zenon
<1>10. ASSUME NEW c \in Actors, DisconnectBegin(c) PROVE Armed'
  <2>1. UNCHANGED <<armed, table, owns>>
    BY <1>10, Zenon DEF DisconnectBegin, Reply, Goto, guardVars, sessions, engines
  <2>2. \A d \in Actors : pc'[d] = "arm" => pc[d] = "arm" /\ target'[d] = target[d]
    BY <1>10, Zenon DEF DisconnectBegin, Reply, Goto, guardVars, sessions, engines, Types
  <2> QED BY <2>1, <2>2, QuietArmed, Zenon
<1>11. ASSUME NEW c \in Actors, StopMark(c) PROVE Armed'
  <2>1. UNCHANGED <<armed, table, owns>>
    BY <1>11, Zenon DEF StopMark, Goto, guardVars
  <2>2. \A d \in Actors : pc'[d] = "arm" => pc[d] = "arm" /\ target'[d] = target[d]
    BY <1>11, Zenon DEF StopMark, Goto, guardVars, Types
  <2> QED BY <2>1, <2>2, QuietArmed, Zenon
<1>12. ASSUME NEW c \in Actors, NEW ok \in BOOLEAN, StopEngine(c, ok) PROVE Armed'
  <2>1. UNCHANGED <<armed, table, owns>>
    BY <1>12, Zenon DEF StopEngine, Goto, guardVars
  <2>2. \A d \in Actors : pc'[d] = "arm" => pc[d] = "arm" /\ target'[d] = target[d]
    BY <1>12, Zenon DEF StopEngine, Goto, guardVars, Types
  <2> QED BY <2>1, <2>2, QuietArmed, Zenon
<1>13. ASSUME NEW c \in Actors, NEW o \in Outcomes, StopRestore(c, o) PROVE Armed'
  <2>1. target[c] \in Sessions /\ \A d \in Actors : pc'[d] # "arm"
    <3>1. pc[c] = "restore" /\ pc[c] \in Inside /\ target[c] \in Sessions
      BY <1>13, Zenon DEF StopRestore, InHand, Stopping, Inside
    <3>2. pc'[c] # "arm" /\ \A d \in Actors \ {c} : pc'[d] = pc[d]
      BY <1>13, Zenon DEF StopRestore, Goto, Types
    <3>3. \A d \in Actors \ {c} : pc[d] # "arm"
      BY <3>1, Zenon DEF Locks, Exclusive, Inside
    <3> QED BY <3>1, <3>2, <3>3, Zenon
  <2>2. CASE owns[target[c]]
    <3>1. /\ Restore(o) /\ (o # "ok") \in BOOLEAN
          /\ owns' = [owns EXCEPT ![target[c]] = o # "ok"]
      BY <1>13, <2>2, Zenon DEF StopRestore, RestoreSession
    <3>2. GuardAgrees' /\ (o = "ok" => ~armed')
      BY <3>1, RestoreAgrees, Zenon DEF Armed
    <3>3. o # "ok" => owns'[target[c]]
      BY <2>1, <3>1, OwnerSet, Zenon
    <3> QED BY <2>1, <3>2, <3>3, Zenon DEF Armed
  <2>3. CASE ~owns[target[c]]
    <3>1. UNCHANGED <<armed, table, owns>>
      BY <1>13, <2>3, Zenon DEF StopRestore, RestoreSession, guardVars
    <3> QED BY <2>1, <3>1, QuietArmed, Zenon
  <2> QED BY <2>2, <2>3, Zenon
<1>14. ASSUME NEW c \in Actors, StopLeave(c) PROVE Armed'
  <2>1. UNCHANGED <<armed, table, owns>>
    BY <1>14, Zenon DEF StopLeave, Goto, guardVars
  <2>2. \A d \in Actors : pc'[d] = "arm" => pc[d] = "arm" /\ target'[d] = target[d]
    BY <1>14, Zenon DEF StopLeave, Goto, guardVars, Types
  <2> QED BY <2>1, <2>2, QuietArmed, Zenon
<1>15. ASSUME NEW c \in Actors, Stopped(c) PROVE Armed'
  <2>1. UNCHANGED <<armed, table, owns>>
    BY <1>15, Zenon DEF Stopped, Reply, Goto, guardVars, sessions, engines
  <2>2. \A d \in Actors : pc'[d] = "arm" => pc[d] = "arm" /\ target'[d] = target[d]
    BY <1>15 DEF Stopped, Reply, Goto, guardVars, sessions, engines, Types
  <2> QED BY <2>1, <2>2, QuietArmed, Zenon
<1>16. ASSUME NEW c \in Actors, NEW on \in BOOLEAN, NEW name \in Sessions \cup {None},
              SetKillSwitch(c, on, name) PROVE Armed'
  <2>1. UNCHANGED <<armed, table, owns>>
    BY <1>16, Zenon DEF SetKillSwitch, Goto, guardVars, sessions, engines
  <2>2. \A d \in Actors : pc'[d] = "arm" => pc[d] = "arm" /\ target'[d] = target[d]
    BY <1>16, Zenon DEF SetKillSwitch, Goto, guardVars, sessions, engines, Types
  <2> QED BY <2>1, <2>2, QuietArmed, Zenon
<1>17. ASSUME NEW c \in Actors, CheckSession(c) PROVE Armed'
  <2>1. UNCHANGED <<armed, table, owns>>
    BY <1>17, Zenon DEF CheckSession, Reply, Goto, guardVars, sessions, engines
  <2>2. \A d \in Actors : pc'[d] = "arm" => pc[d] = "arm" /\ target'[d] = target[d]
    BY <1>17, Zenon DEF CheckSession, Reply, Goto, guardVars, sessions, engines, Types
  <2> QED BY <2>1, <2>2, QuietArmed, Zenon
<1>18. ASSUME NEW c \in Actors, KillBegin(c) PROVE Armed'
  <2>1. UNCHANGED <<armed, table, owns>>
    BY <1>18, Zenon DEF KillBegin, Reply, Goto, guardVars
  <2>2. \A d \in Actors : pc'[d] = "arm" => pc[d] = "arm" /\ target'[d] = target[d]
    BY <1>18, Zenon DEF KillBegin, Reply, Goto, guardVars, Types
  <2> QED BY <2>1, <2>2, QuietArmed, Zenon
<1>19. ASSUME NEW c \in Actors, NEW o \in Outcomes, KillEnd(c, o) PROVE Armed'
  <2>1. target[c] \in Sessions /\ (op[c] = "on") \in BOOLEAN /\ (o = "ok") \in BOOLEAN
    BY <1>19, Zenon DEF KillEnd, Changing, Killers
  <2>2. GuardAgrees' /\ (o # "ok" => armed' = armed)
    BY <1>19, <2>1, ApplyAgrees, TheNet, Zenon DEF KillEnd, Armed
  <2>3. owns' = [owns EXCEPT ![target[c]] = @ \/ o = "ok"]
    BY <1>19, Zenon DEF KillEnd
  <2>4. (\A s \in Sessions : owns[s] => owns'[s]) /\ (o = "ok" => owns'[target[c]])
    BY <2>1, <2>3, OwnersGrow, Zenon
  <2>5. \A d \in Actors : pc'[d] = "arm" =>
           pc[d] = "arm" /\ target'[d] = target[d] /\ target[d] \in Sessions
    BY <1>19, Zenon DEF KillEnd, Reply, Types, InHand, Starting
  <2>6. armed' => \E s \in Sessions : owns'[s]
    BY <2>1, <2>2, <2>4, Zenon DEF Armed
  <2>7. ASSUME NEW d \in Actors, pc'[d] = "arm" PROVE owns'[target'[d]]
    BY <2>4, <2>5, <2>7, Zenon DEF Armed
  <2> QED BY <2>2, <2>6, <2>7, Zenon DEF Armed
<1>20. ASSUME NEW s \in Sessions, SessionFails(s) PROVE Armed'
  <2>1. UNCHANGED <<armed, table, owns>>
    BY <1>20, Zenon DEF SessionFails, guardVars, handlers
  <2>2. \A d \in Actors : pc'[d] = "arm" => pc[d] = "arm" /\ target'[d] = target[d]
    BY <1>20, Zenon DEF SessionFails, guardVars, handlers, Types
  <2> QED BY <2>1, <2>2, QuietArmed, Zenon
<1>21. ASSUME NEW s \in Sessions, LateApply(s) PROVE Armed'
  <2>1. UNCHANGED <<armed, table, owns>>
    BY <1>21, Zenon DEF LateApply, guardVars, handlers
  <2>2. \A d \in Actors : pc'[d] = "arm" => pc[d] = "arm" /\ target'[d] = target[d]
    BY <1>21, Zenon DEF LateApply, guardVars, handlers, Types
  <2> QED BY <2>1, <2>2, QuietArmed, Zenon
<1>22. ASSUME NEW s \in Sessions, WatchCancelled(s) PROVE Armed'
  <2>1. UNCHANGED <<armed, table, owns>>
    BY <1>22, Zenon DEF WatchCancelled, guardVars, handlers
  <2>2. \A d \in Actors : pc'[d] = "arm" => pc[d] = "arm" /\ target'[d] = target[d]
    BY <1>22, Zenon DEF WatchCancelled, guardVars, handlers, Types
  <2> QED BY <2>1, <2>2, QuietArmed, Zenon
<1>23. ASSUME Close PROVE Armed'
  <2>1. UNCHANGED <<armed, table, owns>>
    BY <1>23, Zenon DEF Close, Goto, guardVars, sessions, engines
  <2>2. \A d \in Actors : pc'[d] = "arm" => pc[d] = "arm" /\ target'[d] = target[d]
    BY <1>23, Zenon DEF Close, Goto, guardVars, sessions, engines, Types
  <2> QED BY <2>1, <2>2, QuietArmed, Zenon
<1>24. ASSUME Exit PROVE Armed'
  <2>1. UNCHANGED <<armed, table, owns>>
    BY <1>24, Zenon DEF Exit, Goto, guardVars, sessions, engines
  <2>2. \A d \in Actors : pc'[d] = "arm" => pc[d] = "arm" /\ target'[d] = target[d]
    BY <1>24, Zenon DEF Exit, Goto, guardVars, sessions, engines, Types
  <2> QED BY <2>1, <2>2, QuietArmed, Zenon
<1>25. CASE UNCHANGED mgrVars
  BY <1>25, QuietArmed, Zenon DEF mgrVars, guardVars, sessions, engines, handlers
<1> QED
  BY <1>1, <1>2, <1>3, <1>4, <1>5, <1>6, <1>7, <1>8, <1>9, <1>10, <1>11, <1>12, <1>13,
     <1>14, <1>15, <1>16, <1>17, <1>18, <1>19, <1>20, <1>21, <1>22, <1>23, <1>24,
     <1>25, Zenon DEF ManagerNext, Request, Step, Exited, Actors

-----------------------------------------------------------------------------
(***************************************************************************)
(* Together.                                                               *)
(***************************************************************************)

\* The invariant holds before the first request.
LEMMA InitMInv == ManagerInit => MInv /\ Armed
<1> SUFFICES ASSUME ManagerInit PROVE MInv /\ Armed
  BY Zenon
<1> USE ManagerAssumption DEF Sessions, None
<1>1. Flags
  BY Zenon DEF ManagerInit, Flags
<1>2. Types /\ Locks
  BY DEF ManagerInit, Types, Locks, Exclusive, Inside
<1>3. InHand /\ Halting /\ Idle /\ Released
  BY DEF ManagerInit, InHand, Halting, Idle, Released, Stopping, Starting
<1>4. Owned
  BY Zenon DEF ManagerInit, Owned, Owning, Inside
<1>5. Changing /\ Resting
  BY Zenon DEF ManagerInit, Changing, Resting, Killers
<1>6. GuardAgrees
  BY InitAgrees, Zenon DEF ManagerInit
<1>7. Armed
  BY <1>6, Zenon DEF ManagerInit, GuardInit, Armed
<1> QED BY <1>1, <1>2, <1>3, <1>4, <1>5, <1>7, Zenon DEF MInv

\* The invariant is inductive.
LEMMA StepMInv == MInv /\ [ManagerNext]_mgrVars => MInv'
BY FlagsStep, TypesStep, LocksStep, InHandStep, HaltingStep, IdleStep, ReleasedStep, OwnedStep,
   ChangingStep, RestingStep, Zenon DEF MInv

\* The invariant always holds.
LEMMA Inductive == ManagerSpec => []MInv
<1>1. ManagerInit => MInv
  BY InitMInv, Zenon
<1> QED BY <1>1, StepMInv, PTL DEF ManagerSpec

-----------------------------------------------------------------------------
(***************************************************************************)
(* The results.                                                            *)
(***************************************************************************)

\* Never do two sessions own the guard or an engine, for any number of clients
\* and sessions, whatever fails and whatever nft does: Connect builds the new
\* session while the old one runs, but starts it only after the old one's Stop
\* has returned without an error.  Engines that a renewal or a Select applied
\* after their session's Stop are not counted: Manager does not know of them.
THEOREM SingleOwner == ManagerSpec => []OneOwner
<1>1. MInv => OneOwner
  <2> SUFFICES ASSUME MInv, NEW s \in Owning, NEW t \in Owning PROVE s = t
    BY Zenon DEF OneOwner
  <2>1. CASE ~busy
    BY <2>1, Zenon DEF MInv, Owned
  <2>2. CASE busy
    <3>1. PICK c \in Actors : pc[c] \in Inside
      BY <2>2, Zenon DEF MInv, Locks
    <3> QED BY <3>1, Zenon DEF MInv, Owned
  <2> QED BY <2>1, <2>2, Zenon
<1> QED BY <1>1, Inductive, PTL

\* What a session owns is never lost: the session is m.current, or the Connect
\* or Disconnect that holds m.busy works on it.  A repeated Stop that skips the
\* engine because it reports it is stopped forgets nothing, unless an Apply took
\* the engine up again after the last Stop of it.
THEOREM OwnerIsReachable == ManagerSpec => []OwnerReachable
<1>1. MInv => OwnerReachable
  <2> SUFFICES ASSUME MInv PROVE OwnerReachable
    BY Zenon
  <2>1. CASE ~busy
    BY <2>1, Zenon DEF MInv, Owned, OwnerReachable, Reachable
  <2>2. CASE busy
    <3>1. PICK c \in Actors : pc[c] \in Inside
      BY <2>2, Zenon DEF MInv, Locks
    <3>2. Owning \subseteq {target[c]}
      BY <3>1, Zenon DEF MInv, Owned
    <3> QED BY <3>1, <3>2, Zenon DEF OwnerReachable, Reachable
  <2> QED BY <2>1, <2>2, Zenon
<1> QED BY <1>1, Inductive, PTL

\* A kill-switch change is made on the session its request names, although
\* SetKillSwitch reads m.current twice and without m.busy: a session replaced in
\* between is stopping, and refuses.
THEOREM KillSwitchHitsNamed == ManagerSpec => []KillHitsNamed
<1>1. MInv => KillHitsNamed
  BY Zenon DEF MInv, Changing, KillHitsNamed, Actors
<1> QED BY <1>1, Inductive, PTL

\* Unless a deadline kills nft after the kernel has committed, a block always
\* has a session that owns it, and whose Stop will lift it.
THEOREM BlockHasOwner ==
    ASSUME "cut" \notin Outcomes
    PROVE  ManagerSpec => []BlockOwned
<1>1. ManagerInit => MInv /\ Armed
  BY InitMInv, Zenon
<1>2. MInv /\ Armed /\ [ManagerNext]_mgrVars => (MInv /\ Armed)'
  BY StepMInv, ArmedStep, Zenon DEF MInv
<1>3. MInv /\ Armed => BlockOwned
  BY Zenon DEF Armed, GuardAgrees, BlockOwned
<1> QED BY <1>1, <1>2, <1>3, PTL DEF ManagerSpec

=============================================================================
