---------------------------- MODULE SessionProofs ----------------------------
(* What holds of AuthedConns for any connections, remote or not, and any   *)
(* session keys, and of FileTransfer, the transfers of a session, for any  *)
(* files, versions and jobs.                                               *)
EXTENDS AuthedConns, FileTransfer, FiniteSetTheorems, SequenceTheorems, TLAPS

-----------------------------------------------------------------------------
(* The inductive invariants.                                               *)

\* An entry of ALIVE_CONNS is as old as the connection's task.
AliveInv == \A c \in Conns : stage[c] \notin {"new", "gone"} => c \in alive

\* The connections that will restore what is recorded, now or when they end.
Restorer(c) == \/ c \in asked \cup (authed \cap Remotes)
               \/ stage[c] \in {"last", "wallpaper", "resolution", "clear"}

\* What was the resolution before the first change: it is what is recorded, and
\* what a connection is about to record if nothing is.
OriginalKept ==
    /\ recorded \in {"none", "own"}
    /\ recorded = "none" => mode = "own"
    /\ recorded # "none" => \E c \in Conns : Restorer(c)
    /\ \A c \in Conns :
           /\ stage[c] = "record" /\ recorded = "none" => original[c] = "own"
           /\ stage[c] = "apply" => recorded # "none"
           /\ stage[c] \in {"record", "apply"} => c \in asked
    /\ \A c, d \in Conns : stage[c] = "clear" => mode = "own" /\ stage[d] \notin {"record", "apply"}

ResolutionInv == assumed => OriginalKept

\* If the last change of AUTHED_CONNS met no other one, its connection is the only
\* one to count, it counts right, and its message is the last of the channel.
Truth(m) == /\ m.any = (authed # {})
            /\ m.remote = (authed \cap Remotes # {})

LastMessage == IF channel = <<>>
               THEN /\ wakelock = (authed # {})
                    /\ wakelock => last_display = (authed \cap Remotes # {})
               ELSE Truth(channel[Len(channel)])

CountedAlone ==
    /\ \A c, d \in Conns : Changing(c) /\ Changing(d) => c = d
    /\ \A c \in Conns : stage[c] \in {"remote", "send"} => counted[c].any = (authed # {})
    /\ \A c \in Conns : stage[c] = "send" => counted[c].remote = (authed \cap Remotes # {})
    /\ (\A c \in Conns : ~Changing(c)) => LastMessage

WakeInv == alone => CountedAlone

\* What is sent is received after what was sent before.
LEMMA Appended ==
  ASSUME NEW T, NEW s \in Seq(T), NEW x
  PROVE  Append(s, x) # <<>> /\ Append(s, x)[Len(Append(s, x))] = x
OBVIOUS

LEMMA LastOfTail ==
  ASSUME NEW T, NEW s \in Seq(T), s # <<>>
  PROVE  IF Tail(s) = <<>> THEN Head(s) = s[Len(s)] ELSE Tail(s)[Len(Tail(s))] = s[Len(s)]
<1>1. Len(s) \in Nat /\ Len(s) > 0 /\ Len(Tail(s)) = Len(s) - 1
  OBVIOUS
<1>2. \A i \in 1 .. Len(Tail(s)) : Tail(s)[i] = s[i + 1]
  OBVIOUS
<1>3. Tail(s) \in Seq(T) /\ (Tail(s) = <<>> <=> Len(Tail(s)) = 0)
  BY HeadTailProperties, EmptySeq
<1>4. CASE Tail(s) = <<>>
  BY <1>1, <1>3, <1>4
<1>5. CASE Tail(s) # <<>>
  <2>1. Len(Tail(s)) \in 1 .. Len(Tail(s))
    BY <1>1, <1>3, <1>5
  <2>2. Tail(s)[Len(Tail(s))] = s[Len(Tail(s)) + 1]
    BY <1>2, <2>1
  <2>3. QED
    BY <1>1, <1>5, <2>2
<1>6. QED
  BY <1>4, <1>5

\* Nothing is counted or sent before the first step.
LEMMA InitType == Init => TypeOK
<1> SUFFICES ASSUME Init PROVE TypeOK
  OBVIOUS
<1>1. channel \in Seq(Counts)
  BY DEF Init
<1>2. counted \in [Conns -> Counts]
  BY DEF Init, Counts
<1>3. QED
  BY <1>1, <1>2, AuthedAssumption
     DEF Init, TypeOK, Stages, Modes, Listed, Counting, Closing

\* What the types say of the stages, for a step of one connection.
StageOK ==
    /\ stage \in [Conns -> Stages]
    /\ \A c \in authed : stage[c] \in Listed \cup Counting \cup Closing
    /\ \A c \in Conns : stage[c] \in Listed => c \in authed

LEMMA StageStep ==
  ASSUME StageOK, NEW c \in Conns, NEW from, NEW to \in Stages, Goto(c, from, to),
         UNCHANGED authed,
         from \in Listed \cup Counting \cup Closing => to \in Listed \cup Counting \cup Closing,
         to \in Listed => from \in Listed
  PROVE  StageOK'
BY DEF StageOK, Goto

\* Every step keeps the types and what the stages mean.
LEMMA TypeStep ==
  ASSUME TypeOK, [Next]_vars
  PROVE  TypeOK'
<1> USE AuthedAssumption DEF Goto, sharedVars, lockVars, desktopVars, ghostVars,
           TypeOK, Stages, Modes, Counts, Listed, Counting, Closing
<1>1. ASSUME NEW c \in Conns, Start(c) PROVE TypeOK'
  BY <1>1 DEF Start
<1>2. ASSUME NEW c \in Conns, LoginTemporary(c) PROVE TypeOK'
  BY <1>2 DEF LoginTemporary
<1>3. ASSUME NEW c \in Conns, LoginRecent(c) PROVE TypeOK'
  BY <1>3 DEF LoginRecent
<1>4. ASSUME NEW c \in Conns, LoginOther(c) PROVE TypeOK'
  BY <1>4 DEF LoginOther
<1>5. ASSUME NEW c \in Conns, Push(c) PROVE TypeOK'
  BY <1>5 DEF Push, NoteChange
<1>6. ASSUME NEW c \in Conns, Setup(c) PROVE TypeOK'
  BY <1>6 DEF Setup
<1>7. ASSUME NEW c \in Conns, CountAny(c) PROVE TypeOK'
  BY <1>7 DEF CountAny
<1>8. ASSUME NEW c \in Conns, CountRemote(c) PROVE TypeOK'
  <2>1. Goto(c, "remote", "send") /\ UNCHANGED authed
    BY <1>8 DEF CountRemote
  <2>2. StageOK'
    BY <2>1, StageStep DEF StageOK
  <2>3. counted' \in [Conns -> Counts]
    <3>1. ASSUME NEW b \in BOOLEAN PROVE [counted EXCEPT ![c].remote = b] \in [Conns -> Counts]
      BY <3>1
    <3>2. (authed \cap Remotes # {}) \in BOOLEAN
      OBVIOUS
    <3>3. QED
      BY <1>8, <3>1, <3>2, Zenon DEF CountRemote
  <2>4. UNCHANGED <<sharedVars, channel, wakelock, last_display, desktopVars, ghostVars>>
    BY <1>8 DEF CountRemote
  <2>5. QED
    BY <2>2, <2>3, <2>4 DEF StageOK
<1>9. ASSUME NEW c \in Conns, Send(c) PROVE TypeOK'
  BY <1>9 DEF Send
<1>10. ASSUME NEW c \in Conns, ChangeResolution(c) PROVE TypeOK'
  BY <1>10 DEF ChangeResolution
<1>11. ASSUME NEW c \in Conns, Record(c) PROVE TypeOK'
  BY <1>11 DEF Record
<1>12. ASSUME NEW c \in Conns, Apply(c) PROVE TypeOK'
  BY <1>12 DEF Apply
<1>13. ASSUME NEW c \in Conns, CloseNoRetry(c) PROVE TypeOK'
  <2>1. StageOK /\ UNCHANGED authed
    BY <1>13 DEF CloseNoRetry, StageOK
  <2>2. CASE Goto(c, "alive", "check")
    <3>1. StageOK'
      BY ONLY <2>1, <2>2, StageStep DEF Stages, Listed, Counting, Closing
    <3>2. QED
      BY <1>13, <3>1 DEF CloseNoRetry, StageOK
  <2>3. CASE Goto(c, "on", "check")
    <3>1. StageOK'
      BY ONLY <2>1, <2>3, StageStep DEF Stages, Listed, Counting, Closing
    <3>2. QED
      BY <1>13, <3>1 DEF CloseNoRetry, StageOK
  <2>4. QED
    BY <1>13, <2>2, <2>3 DEF CloseNoRetry
<1>14. ASSUME NEW c \in Conns, Lost(c) PROVE TypeOK'
  <2>1. StageOK /\ UNCHANGED authed
    BY <1>14 DEF Lost, StageOK
  <2>2. CASE Goto(c, "alive", "unlist")
    <3>1. StageOK'
      BY ONLY <2>1, <2>2, StageStep DEF Stages, Listed, Counting, Closing
    <3>2. QED
      BY <1>14, <3>1 DEF Lost, StageOK
  <2>3. CASE Goto(c, "on", "drop")
    <3>1. StageOK'
      BY ONLY <2>1, <2>3, StageStep DEF Stages, Listed, Counting, Closing
    <3>2. QED
      BY <1>14, <3>1 DEF Lost, StageOK
  <2>4. QED
    BY <1>14, <2>2, <2>3 DEF Lost
<1>15. ASSUME NEW c \in Conns, Check(c) PROVE TypeOK'
  BY <1>15 DEF Check, IsRemote, AfterCheck
<1>16. ASSUME NEW c \in Conns, RemoveSession(c) PROVE TypeOK'
  BY <1>16 DEF RemoveSession, AfterCheck
<1>17. ASSUME NEW c \in Conns, Retain(c) PROVE TypeOK'
  BY <1>17 DEF Retain, NoteChange
<1>18. ASSUME NEW c \in Conns, LastRemote(c) PROVE TypeOK'
  BY <1>18 DEF LastRemote
<1>19. ASSUME NEW c \in Conns, RestoreWallpaper(c) PROVE TypeOK'
  BY <1>19 DEF RestoreWallpaper
<1>20. ASSUME NEW c \in Conns, RestoreResolutions(c) PROVE TypeOK'
  BY <1>20 DEF RestoreResolutions
<1>21. ASSUME NEW c \in Conns, ClearResolutions(c) PROVE TypeOK'
  BY <1>21 DEF ClearResolutions
<1>22. ASSUME NEW c \in Conns, Unlist(c) PROVE TypeOK'
  BY <1>22 DEF Unlist
<1>23. ASSUME NEW k \in Keys, Expire(k) PROVE TypeOK'
  BY <1>23 DEF Expire
<1>24. ASSUME Receive PROVE TypeOK'
  <2>1. Head(channel) \in Counts /\ Tail(channel) \in Seq(Counts)
    BY <1>24, HeadTailProperties DEF Receive
  <2>2. QED
    BY <1>24, <2>1 DEF Receive
<1>25. ASSUME UNCHANGED vars PROVE TypeOK'
  BY <1>25 DEF vars
<1>26. QED
  BY <1>1, <1>2, <1>3, <1>4, <1>5, <1>6, <1>7, <1>8, <1>9, <1>10, <1>11, <1>12, <1>13,
     <1>14, <1>15, <1>16, <1>17, <1>18, <1>19, <1>20, <1>21, <1>22, <1>23, <1>24, <1>25
  DEF Next, Login, WakeLock, Resolution, Close, Terminated

\* An entry of ALIVE_CONNS lasts as long as the connection's task.
LEMMA AliveStep ==
  ASSUME TypeOK, AliveInv, [Next]_vars
  PROVE  AliveInv'
<1> USE AuthedAssumption DEF Goto, sharedVars, lockVars, desktopVars, ghostVars,
           AliveInv, TypeOK, Listed, Counting, Closing
<1>1. ASSUME NEW c \in Conns, Start(c) PROVE AliveInv'
  BY <1>1 DEF Start
<1>2. ASSUME NEW c \in Conns, LoginTemporary(c) \/ LoginRecent(c) \/ LoginOther(c) PROVE AliveInv'
  BY <1>2 DEF LoginTemporary, LoginRecent, LoginOther
<1>3. ASSUME NEW c \in Conns, Push(c) PROVE AliveInv'
  BY <1>3 DEF Push, NoteChange
<1>4. ASSUME NEW c \in Conns, Setup(c) PROVE AliveInv'
  BY <1>4 DEF Setup
<1>5. ASSUME NEW c \in Conns, WakeLock(c) PROVE AliveInv'
  BY <1>5 DEF WakeLock, CountAny, CountRemote, Send
<1>6. ASSUME NEW c \in Conns, Resolution(c) PROVE AliveInv'
  BY <1>6 DEF Resolution, ChangeResolution, Record, Apply
<1>7. ASSUME NEW c \in Conns, CloseNoRetry(c) \/ Lost(c) PROVE AliveInv'
  BY <1>7 DEF CloseNoRetry, Lost
<1>8. ASSUME NEW c \in Conns, Check(c) \/ RemoveSession(c) PROVE AliveInv'
  BY <1>8 DEF Check, RemoveSession, AfterCheck
<1>9. ASSUME NEW c \in Conns, Retain(c) \/ LastRemote(c) PROVE AliveInv'
  BY <1>9 DEF Retain, NoteChange, LastRemote
<1>10. ASSUME NEW c \in Conns, RestoreWallpaper(c) PROVE AliveInv'
  BY <1>10 DEF RestoreWallpaper
<1>11. ASSUME NEW c \in Conns, RestoreResolutions(c) \/ ClearResolutions(c) PROVE AliveInv'
  BY <1>11 DEF RestoreResolutions, ClearResolutions
<1>12. ASSUME NEW c \in Conns, Unlist(c) PROVE AliveInv'
  BY <1>12 DEF Unlist
<1>13. ASSUME NEW k \in Keys, Expire(k) PROVE AliveInv'
  BY <1>13 DEF Expire
<1>14. ASSUME Receive PROVE AliveInv'
  BY <1>14 DEF Receive
<1>15. ASSUME UNCHANGED vars PROVE AliveInv'
  BY <1>15 DEF vars
<1>16. QED
  BY <1>1, <1>2, <1>3, <1>4, <1>5, <1>6, <1>7, <1>8, <1>9, <1>10, <1>11, <1>12, <1>13, <1>14, <1>15
  DEF Next, Login, Close, Terminated

\* Whoever drops the last remote entry goes on to restore the wallpaper.
LEMMA WallpaperStep ==
  ASSUME TypeOK, TypeOK', WallpaperRestored, [Next]_vars
  PROVE  WallpaperRestored'
<1> USE AuthedAssumption DEF Goto, sharedVars, lockVars, desktopVars, ghostVars,
           WallpaperRestored, TypeOK, Listed, Counting, Closing
<1>1. ASSUME NEW c \in Conns, Start(c) PROVE WallpaperRestored'
  BY <1>1 DEF Start
<1>2. ASSUME NEW c \in Conns, LoginTemporary(c) PROVE WallpaperRestored'
  BY <1>2 DEF LoginTemporary
<1>3. ASSUME NEW c \in Conns, LoginRecent(c) PROVE WallpaperRestored'
  BY <1>3 DEF LoginRecent
<1>4. ASSUME NEW c \in Conns, LoginOther(c) PROVE WallpaperRestored'
  BY <1>4 DEF LoginOther
<1>5. ASSUME NEW c \in Conns, Push(c) PROVE WallpaperRestored'
  BY <1>5 DEF Push, NoteChange
<1>6. ASSUME NEW c \in Conns, Setup(c) PROVE WallpaperRestored'
  BY <1>6 DEF Setup
<1>7. ASSUME NEW c \in Conns, CountAny(c) PROVE WallpaperRestored'
  BY <1>7 DEF CountAny
<1>8. ASSUME NEW c \in Conns, CountRemote(c) PROVE WallpaperRestored'
  BY <1>8 DEF CountRemote
<1>9. ASSUME NEW c \in Conns, Send(c) PROVE WallpaperRestored'
  BY <1>9 DEF Send
<1>10. ASSUME NEW c \in Conns, ChangeResolution(c) PROVE WallpaperRestored'
  BY <1>10 DEF ChangeResolution
<1>11. ASSUME NEW c \in Conns, Record(c) PROVE WallpaperRestored'
  BY <1>11 DEF Record
<1>12. ASSUME NEW c \in Conns, Apply(c) PROVE WallpaperRestored'
  BY <1>12 DEF Apply
<1>13. ASSUME NEW c \in Conns, CloseNoRetry(c) PROVE WallpaperRestored'
  BY <1>13 DEF CloseNoRetry
<1>14. ASSUME NEW c \in Conns, Lost(c) PROVE WallpaperRestored'
  BY <1>14 DEF Lost
<1>15. ASSUME NEW c \in Conns, Check(c) PROVE WallpaperRestored'
  BY <1>15 DEF Check, IsRemote, AfterCheck
<1>16. ASSUME NEW c \in Conns, RemoveSession(c) PROVE WallpaperRestored'
  BY <1>16 DEF RemoveSession, AfterCheck
<1>17. ASSUME NEW c \in Conns, Retain(c) PROVE WallpaperRestored'
  BY <1>17 DEF Retain, NoteChange
<1>18. ASSUME NEW c \in Conns, LastRemote(c) PROVE WallpaperRestored'
  BY <1>18 DEF LastRemote
<1>19. ASSUME NEW c \in Conns, RestoreWallpaper(c) PROVE WallpaperRestored'
  BY <1>19 DEF RestoreWallpaper
<1>20. ASSUME NEW c \in Conns, RestoreResolutions(c) PROVE WallpaperRestored'
  BY <1>20 DEF RestoreResolutions
<1>21. ASSUME NEW c \in Conns, ClearResolutions(c) PROVE WallpaperRestored'
  BY <1>21 DEF ClearResolutions
<1>22. ASSUME NEW c \in Conns, Unlist(c) PROVE WallpaperRestored'
  BY <1>22 DEF Unlist
<1>23. ASSUME NEW k \in Keys, Expire(k) PROVE WallpaperRestored'
  BY <1>23 DEF Expire
<1>24. ASSUME Receive PROVE WallpaperRestored'
  BY <1>24 DEF Receive
<1>25. ASSUME UNCHANGED vars PROVE WallpaperRestored'
  BY <1>25 DEF vars
<1>26. QED
  BY <1>1, <1>2, <1>3, <1>4, <1>5, <1>6, <1>7, <1>8, <1>9, <1>10, <1>11, <1>12, <1>13,
     <1>14, <1>15, <1>16, <1>17, <1>18, <1>19, <1>20, <1>21, <1>22, <1>23, <1>24, <1>25
  DEF Next, Login, WakeLock, Resolution, Close, Terminated

\* What is recorded is the resolution before the first change.
LEMMA ResolutionStep ==
  ASSUME TypeOK, TypeOK', ResolutionInv, [Next]_vars
  PROVE  ResolutionInv'
<1> USE AuthedAssumption DEF Goto, sharedVars, lockVars, desktopVars, ghostVars,
           ResolutionInv, OriginalKept, Restorer, NoRemote, Modes, TypeOK, Listed, Counting, Closing
<1>1. ASSUME NEW c \in Conns, Start(c) PROVE ResolutionInv'
  BY <1>1 DEF Start
<1>2. ASSUME NEW c \in Conns, LoginTemporary(c) PROVE ResolutionInv'
  BY <1>2 DEF LoginTemporary
<1>3. ASSUME NEW c \in Conns, LoginRecent(c) PROVE ResolutionInv'
  BY <1>3 DEF LoginRecent
<1>4. ASSUME NEW c \in Conns, LoginOther(c) PROVE ResolutionInv'
  BY <1>4 DEF LoginOther
<1>5. ASSUME NEW c \in Conns, Push(c) PROVE ResolutionInv'
  BY <1>5 DEF Push
<1>6. ASSUME NEW c \in Conns, Setup(c) PROVE ResolutionInv'
  BY <1>6 DEF Setup
<1>7. ASSUME NEW c \in Conns, CountAny(c) PROVE ResolutionInv'
  BY <1>7 DEF CountAny
<1>8. ASSUME NEW c \in Conns, CountRemote(c) PROVE ResolutionInv'
  BY <1>8 DEF CountRemote
<1>9. ASSUME NEW c \in Conns, Send(c) PROVE ResolutionInv'
  BY <1>9 DEF Send
<1>10. ASSUME NEW c \in Conns, ChangeResolution(c) PROVE ResolutionInv'
  <2> HIDE DEF OriginalKept
  <2>1. SUFFICES ASSUME assumed' PROVE OriginalKept'
    OBVIOUS
  <2>2. OriginalKept /\ \A d \in Conns : stage[d] # "clear"
    BY <1>10, <2>1 DEF ChangeResolution
  <2> USE DEF OriginalKept
  <2>3. recorded' # "none" => \E d \in Conns : Restorer(d)'
    BY <1>10, <2>2 DEF ChangeResolution
  <2>4. \A d \in Conns : /\ stage'[d] = "record" /\ recorded' = "none" => original'[d] = "own"
                         /\ stage'[d] = "apply" => recorded' # "none"
                         /\ stage'[d] \in {"record", "apply"} => d \in asked'
                         /\ stage'[d] # "clear"
    BY <1>10, <2>2 DEF ChangeResolution
  <2>5. UNCHANGED <<mode, recorded>>
    BY <1>10 DEF ChangeResolution
  <2> HIDE DEF Restorer, ResolutionInv, TypeOK
  <2>6. QED
    BY <2>2, <2>3, <2>4, <2>5
<1>11. ASSUME NEW c \in Conns, Record(c) PROVE ResolutionInv'
  BY <1>11 DEF Record
<1>12. ASSUME NEW c \in Conns, Apply(c) PROVE ResolutionInv'
  BY <1>12 DEF Apply
<1>13. ASSUME NEW c \in Conns, CloseNoRetry(c) PROVE ResolutionInv'
  BY <1>13 DEF CloseNoRetry
<1>14. ASSUME NEW c \in Conns, Lost(c) PROVE ResolutionInv'
  BY <1>14 DEF Lost
<1>15. ASSUME NEW c \in Conns, Check(c) PROVE ResolutionInv'
  BY <1>15 DEF Check, IsRemote, AfterCheck
<1>16. ASSUME NEW c \in Conns, RemoveSession(c) PROVE ResolutionInv'
  BY <1>16 DEF RemoveSession, AfterCheck
<1>17. ASSUME NEW c \in Conns, Retain(c) PROVE ResolutionInv'
  BY <1>17 DEF Retain, NoteChange
<1>18. ASSUME NEW c \in Conns, LastRemote(c) PROVE ResolutionInv'
  BY <1>18 DEF LastRemote
<1>19. ASSUME NEW c \in Conns, RestoreWallpaper(c) PROVE ResolutionInv'
  BY <1>19 DEF RestoreWallpaper
<1>20. ASSUME NEW c \in Conns, RestoreResolutions(c) PROVE ResolutionInv'
  <2> HIDE DEF OriginalKept
  <2>1. SUFFICES ASSUME assumed' PROVE OriginalKept'
    OBVIOUS
  <2>2. OriginalKept /\ \A d \in Conns : stage[d] \notin {"record", "apply"}
    BY <1>20, <2>1 DEF RestoreResolutions
  <2> USE DEF OriginalKept
  <2>3. mode' = "own" /\ \A d \in Conns : stage'[d] \notin {"record", "apply"}
    BY <1>20, <2>2 DEF RestoreResolutions
  <2>4. Restorer(c)' /\ recorded' = recorded
    BY <1>20 DEF RestoreResolutions
  <2> HIDE DEF Restorer, ResolutionInv, TypeOK
  <2>5. QED
    BY <2>2, <2>3, <2>4
<1>21. ASSUME NEW c \in Conns, ClearResolutions(c) PROVE ResolutionInv'
  BY <1>21 DEF ClearResolutions
<1>22. ASSUME NEW c \in Conns, Unlist(c) PROVE ResolutionInv'
  BY <1>22 DEF Unlist
<1>23. ASSUME NEW k \in Keys, Expire(k) PROVE ResolutionInv'
  BY <1>23 DEF Expire
<1>24. ASSUME Receive PROVE ResolutionInv'
  BY <1>24 DEF Receive
<1>25. ASSUME UNCHANGED vars PROVE ResolutionInv'
  BY <1>25 DEF vars
<1>26. QED
  BY <1>1, <1>2, <1>3, <1>4, <1>5, <1>6, <1>7, <1>8, <1>9, <1>10, <1>11, <1>12, <1>13,
     <1>14, <1>15, <1>16, <1>17, <1>18, <1>19, <1>20, <1>21, <1>22, <1>23, <1>24, <1>25
  DEF Next, Login, WakeLock, Resolution, Close, Terminated

\* The wake lock's thread ends with the right message.
LEMMA WakeStep ==
  ASSUME TypeOK, TypeOK', WakeInv, [Next]_vars
  PROVE  WakeInv'
<1> USE AuthedAssumption DEF Goto, sharedVars, lockVars, desktopVars, ghostVars,
           WakeInv, CountedAlone, LastMessage, Truth, Changing, TypeOK, Listed, Counting, Closing
<1>1. ASSUME NEW c \in Conns, Start(c) PROVE WakeInv'
  BY <1>1 DEF Start
<1>2. ASSUME NEW c \in Conns, LoginTemporary(c) PROVE WakeInv'
  BY <1>2 DEF LoginTemporary
<1>3. ASSUME NEW c \in Conns, LoginRecent(c) PROVE WakeInv'
  BY <1>3 DEF LoginRecent
<1>4. ASSUME NEW c \in Conns, LoginOther(c) PROVE WakeInv'
  BY <1>4 DEF LoginOther
<1>5. ASSUME NEW c \in Conns, Push(c) PROVE WakeInv'
  <2>1. SUFFICES ASSUME alone' PROVE CountedAlone'
    OBVIOUS
  <2>2. \A d \in Conns \ {c} : ~Changing(d)
    BY <1>5, <2>1 DEF Push, NoteChange
  <2>3. stage' = [stage EXCEPT ![c] = "any"]
    BY <1>5 DEF Push
  <2>4. QED
    BY <2>2, <2>3
<1>6. ASSUME NEW c \in Conns, Setup(c) PROVE WakeInv'
  BY <1>6 DEF Setup
<1>7. ASSUME NEW c \in Conns, CountAny(c) PROVE WakeInv'
  BY <1>7 DEF CountAny
<1>8. ASSUME NEW c \in Conns, CountRemote(c) PROVE WakeInv'
  BY <1>8 DEF CountRemote
<1>9. ASSUME NEW c \in Conns, Send(c) PROVE WakeInv'
  <2>1. SUFFICES ASSUME alone' PROVE CountedAlone'
    OBVIOUS
  <2>2. alone /\ CountedAlone
    BY <1>9, <2>1 DEF Send
  <2>3. Truth(counted[c])
    BY <1>9, <2>2 DEF Send
  <2>4. channel' # <<>> /\ channel'[Len(channel')] = counted[c]
    BY <1>9, Appended DEF Send
  <2>5. LastMessage'
    BY <1>9, <2>3, <2>4 DEF Send
  <2>6. QED
    BY <1>9, <2>2, <2>5 DEF Send
<1>10. ASSUME NEW c \in Conns, ChangeResolution(c) PROVE WakeInv'
  BY <1>10 DEF ChangeResolution
<1>11. ASSUME NEW c \in Conns, Record(c) PROVE WakeInv'
  BY <1>11 DEF Record
<1>12. ASSUME NEW c \in Conns, Apply(c) PROVE WakeInv'
  BY <1>12 DEF Apply
<1>13. ASSUME NEW c \in Conns, CloseNoRetry(c) PROVE WakeInv'
  <2>1. \A d \in Conns : Changing(d)' <=> Changing(d)
    BY <1>13 DEF CloseNoRetry
  <2>2. \A d \in Conns, s \in {"remote", "send"} : stage'[d] = s => stage[d] = s
    BY <1>13 DEF CloseNoRetry
  <2>3. QED
    BY <1>13, <2>1, <2>2 DEF CloseNoRetry
<1>14. ASSUME NEW c \in Conns, Lost(c) PROVE WakeInv'
  <2>1. \A d \in Conns : Changing(d)' <=> Changing(d)
    BY <1>14 DEF Lost
  <2>2. \A d \in Conns, s \in {"remote", "send"} : stage'[d] = s => stage[d] = s
    BY <1>14 DEF Lost
  <2>3. QED
    BY <1>14, <2>1, <2>2 DEF Lost
<1>15. ASSUME NEW c \in Conns, Check(c) PROVE WakeInv'
  BY <1>15 DEF Check, IsRemote, AfterCheck
<1>16. ASSUME NEW c \in Conns, RemoveSession(c) PROVE WakeInv'
  BY <1>16 DEF RemoveSession, AfterCheck
<1>17. ASSUME NEW c \in Conns, Retain(c) PROVE WakeInv'
  <2>1. SUFFICES ASSUME alone' PROVE CountedAlone'
    OBVIOUS
  <2>2. \A d \in Conns \ {c} : ~Changing(d)
    BY <1>17, <2>1 DEF Retain, NoteChange
  <2>3. stage' = [stage EXCEPT ![c] = "last"]
    BY <1>17 DEF Retain
  <2>4. QED
    BY <2>2, <2>3
<1>18. ASSUME NEW c \in Conns, LastRemote(c) PROVE WakeInv'
  BY <1>18 DEF LastRemote
<1>19. ASSUME NEW c \in Conns, RestoreWallpaper(c) PROVE WakeInv'
  BY <1>19 DEF RestoreWallpaper
<1>20. ASSUME NEW c \in Conns, RestoreResolutions(c) PROVE WakeInv'
  BY <1>20 DEF RestoreResolutions
<1>21. ASSUME NEW c \in Conns, ClearResolutions(c) PROVE WakeInv'
  BY <1>21 DEF ClearResolutions
<1>22. ASSUME NEW c \in Conns, Unlist(c) PROVE WakeInv'
  BY <1>22 DEF Unlist
<1>23. ASSUME NEW k \in Keys, Expire(k) PROVE WakeInv'
  BY <1>23 DEF Expire
<1>24. ASSUME Receive PROVE WakeInv'
  <2>1. SUFFICES ASSUME alone' PROVE CountedAlone'
    OBVIOUS
  <2>2. alone /\ CountedAlone
    BY <1>24, <2>1 DEF Receive
  <2>3. ASSUME \A d \in Conns : ~Changing(d) PROVE LastMessage'
    <3>1. Truth(channel[Len(channel)])
      BY <1>24, <2>2, <2>3 DEF Receive
    <3>2. CASE channel' = <<>>
      <4>1. Head(channel) = channel[Len(channel)]
        BY <1>24, <3>2, LastOfTail DEF Receive
      <4>2. QED
        BY <1>24, <3>1, <3>2, <4>1 DEF Receive
    <3>3. CASE channel' # <<>>
      <4>1. channel'[Len(channel')] = channel[Len(channel)]
        BY <1>24, <3>3, LastOfTail DEF Receive
      <4>2. QED
        BY <1>24, <3>1, <3>3, <4>1 DEF Receive
    <3>4. QED
      BY <3>2, <3>3
  <2>4. QED
    BY <1>24, <2>2, <2>3 DEF Receive
<1>25. ASSUME UNCHANGED vars PROVE WakeInv'
  BY <1>25 DEF vars
<1>26. QED
  BY <1>1, <1>2, <1>3, <1>4, <1>5, <1>6, <1>7, <1>8, <1>9, <1>10, <1>11, <1>12, <1>13,
     <1>14, <1>15, <1>16, <1>17, <1>18, <1>19, <1>20, <1>21, <1>22, <1>23, <1>24, <1>25
  DEF Next, Login, WakeLock, Resolution, Close, Terminated

-----------------------------------------------------------------------------
\* The types, and that a connection is in AUTHED_CONNS from the end of its login
\* to its drop and at no other time.
THEOREM TypeCorrect == Spec => []TypeOK
<1>1. Init => TypeOK
  BY InitType
<1>2. TypeOK /\ [Next]_vars => TypeOK'
  BY TypeStep
<1>3. QED
  BY <1>1, <1>2, PTL DEF Spec

\* What is logged in is alive: Connection::start drops the entry of ALIVE_CONNS
\* last.
THEOREM AuthedAliveTheorem == Spec => []AuthedAlive
<1>1. Init => AliveInv
  BY DEF Init, AliveInv
<1>2. TypeOK /\ AliveInv /\ [Next]_vars => AliveInv'
  BY AliveStep
<1>3. TypeOK /\ AliveInv => AuthedAlive
  BY DEF TypeOK, AliveInv, AuthedAlive, Listed, Counting, Closing
<1>4. QED
  BY <1>1, <1>2, <1>3, TypeCorrect, PTL DEF Spec

\* Drop for AuthedConnID: as long as the wallpaper is away, a remote session is
\* logged in or the drop that found none is about to restore it.
THEOREM WallpaperTheorem == Spec => []WallpaperRestored
<1>1. Init => WallpaperRestored
  BY DEF Init, WallpaperRestored
<1>2. TypeOK /\ TypeOK' /\ WallpaperRestored /\ [Next]_vars => WallpaperRestored'
  BY WallpaperStep
<1>3. QED
  BY <1>1, <1>2, TypeCorrect, PTL DEF Spec

\* set_last_changed_resolution and restore_resolutions: if nobody changes the
\* resolution while it is restored, the display has its own one again when neither
\* a remote session is left nor another connection that changed it since.
THEOREM ResolutionTheorem == Spec => []ResolutionRestored
<1>1. Init => ResolutionInv
  BY DEF Init, ResolutionInv, OriginalKept
<1>2. TypeOK /\ TypeOK' /\ ResolutionInv /\ [Next]_vars => ResolutionInv'
  BY ResolutionStep
<1>3. ResolutionInv => ResolutionRestored
  BY DEF ResolutionInv, OriginalKept, Restorer, ResolutionRestored, NoRemote, Changing, Counting
<1>4. QED
  BY <1>1, <1>2, <1>3, TypeCorrect, PTL DEF Spec

\* check_wake_lock and start_wakelock_thread: if the last change of AUTHED_CONNS
\* met no other one, the wake lock ends up following it.
THEOREM WakeLockTheorem == Spec => []WakeLockFollows
<1>1. Init => WakeInv
  BY DEF Init, WakeInv, CountedAlone, LastMessage, Changing, Counting
<1>2. TypeOK /\ TypeOK' /\ WakeInv /\ [Next]_vars => WakeInv'
  BY WakeStep
<1>3. WakeInv => WakeLockFollows
  BY DEF WakeInv, CountedAlone, LastMessage, WakeLockFollows
<1>4. QED
  BY <1>1, <1>2, <1>3, TypeCorrect, PTL DEF Spec

-----------------------------------------------------------------------------
(* Queues and lists.                                                       *)

LEMMA TailFacts ==
  ASSUME NEW S, NEW q \in Seq(S), q # <<>>
  PROVE  /\ Len(q) \in Nat \ {0} /\ Head(q) = q[1] /\ Head(q) \in S
         /\ Tail(q) \in Seq(S) /\ Len(Tail(q)) = Len(q) - 1
         /\ \A i \in 1 .. Len(q) - 1 : Tail(q)[i] = q[i + 1]
<1>1. Len(q) \in Nat \ {0}
  BY EmptySeq
<1>2. Head(q) = q[1]
  OBVIOUS
<1> QED
  BY <1>1, <1>2, HeadTailProperties

LEMMA AppendFacts ==
  ASSUME NEW S, NEW q \in Seq(S), NEW e \in S
  PROVE  /\ Append(q, e) \in Seq(S) /\ Len(q) \in Nat /\ Len(Append(q, e)) = Len(q) + 1
         /\ \A i \in 1 .. Len(q) : Append(q, e)[i] = q[i]
         /\ Append(q, e)[Len(q) + 1] = e
BY AppendProperties, LenProperties

\* No element twice.
Once(q) == \A i, k \in 1 .. Len(q) : q[i] = q[k] => i = k
In(q, e) == \E i \in 1 .. Len(q) : q[i] = e

LEMMA OnceAppend ==
  ASSUME NEW S, NEW q \in Seq(S), NEW e \in S, Once(q), ~In(q, e)
  PROVE  /\ Once(Append(q, e))
         /\ \A x : In(Append(q, e), x) <=> In(q, x) \/ x = e
<1>1. /\ Len(q) \in Nat /\ Len(Append(q, e)) = Len(q) + 1
      /\ \A i \in 1 .. Len(q) : Append(q, e)[i] = q[i]
      /\ Append(q, e)[Len(q) + 1] = e
  BY AppendFacts
<1> DEFINE p == Append(q, e)
<1> HIDE DEF p
<1>2. /\ Len(q) \in Nat /\ Len(p) = Len(q) + 1 /\ p[Len(q) + 1] = e
      /\ \A i \in 1 .. Len(q) : p[i] = q[i]
  BY <1>1 DEF p
<1>3. Once(p)
  BY <1>2 DEF Once, In
<1>4. ASSUME NEW x PROVE In(p, x) <=> In(q, x) \/ x = e
  <2>1. ASSUME In(p, x) PROVE In(q, x) \/ x = e
    BY <1>2, <2>1 DEF In
  <2>2. ASSUME In(q, x) PROVE In(p, x)
    BY <1>2, <2>2 DEF In
  <2>3. In(p, e)
    BY <1>2 DEF In
  <2> QED
    BY <2>1, <2>2, <2>3
<1> QED
  BY <1>3, <1>4 DEF p

LEMMA WithoutFacts ==
  ASSUME NEW S, NEW q \in Seq(S), NEW e, Once(q)
  PROVE  /\ Without(q, e) \in Seq(S) /\ Once(Without(q, e))
         /\ \A x : In(Without(q, e), x) <=> In(q, x) /\ x # e
<1>1. Len(q) \in Nat /\ DOMAIN q = 1 .. Len(q) /\ \A i \in 1 .. Len(q) : q[i] \in S
  BY LenProperties, ElementOfSeq
<1>2. CASE ~In(q, e)
  <2>1. Without(q, e) = q
    BY <1>1, <1>2 DEF Without, In
  <2> QED
    BY <2>1, <1>2 DEF In
<1>3. CASE In(q, e)
  <2> DEFINE n == Position(q, e)
             a == SubSeq(q, 1, n - 1)
             b == SubSeq(q, n + 1, Len(q))
             p == Without(q, e)
  <2>1. n \in 1 .. Len(q) /\ q[n] = e
    BY <1>1, <1>3 DEF Position, In
  <2>2. p = a \o b
    BY <1>1, <1>3 DEF Without, In, RemoveAt
  <2> HIDE DEF n
  <2>3. a \in Seq(S) /\ Len(a) = n - 1 /\ \A i \in 1 .. n - 1 : a[i] = q[i]
    <3>1. n - 1 \in Int /\ 1 \in Int /\ \A i \in 1 .. n - 1 : q[i] \in S
      BY <1>1, <2>1
    <3>2. /\ a \in Seq(S) /\ Len(a) = IF 1 <= n - 1 THEN (n - 1) - 1 + 1 ELSE 0
          /\ \A i \in 1 .. (n - 1) - 1 + 1 : a[i] = q[1 + i - 1]
      BY <3>1, SubSeqProperties
    <3> QED
      BY <3>2, <1>1, <2>1
  <2>4. /\ b \in Seq(S) /\ Len(b) = Len(q) - n
        /\ \A i \in 1 .. Len(q) - n : b[i] = q[n + i]
    <3>1. n + 1 \in Int /\ Len(q) \in Int /\ \A i \in n + 1 .. Len(q) : q[i] \in S
      BY <1>1, <2>1
    <3>2. /\ b \in Seq(S) /\ Len(b) = IF n + 1 <= Len(q) THEN Len(q) - (n + 1) + 1 ELSE 0
          /\ \A i \in 1 .. Len(q) - (n + 1) + 1 : b[i] = q[(n + 1) + i - 1]
      BY <3>1, SubSeqProperties
    <3> QED
      BY <3>2, <1>1, <2>1
  <2> HIDE DEF a, b, p
  <2>5. /\ p \in Seq(S) /\ Len(p) = Len(q) - 1
        /\ \A i \in 1 .. Len(q) - 1 : p[i] = IF i < n THEN q[i] ELSE q[i + 1]
    <3>1. /\ a \o b \in Seq(S) /\ Len(a \o b) = Len(a) + Len(b)
          /\ \A i \in 1 .. Len(a) + Len(b) :
                 (a \o b)[i] = IF i <= Len(a) THEN a[i] ELSE b[i - Len(a)]
      BY <2>3, <2>4, ConcatProperties
    <3>2. Len(a) + Len(b) = Len(q) - 1
      BY <2>3, <2>4, <2>1, <1>1
    <3>3. ASSUME NEW i \in 1 .. Len(q) - 1
          PROVE  (a \o b)[i] = IF i < n THEN q[i] ELSE q[i + 1]
      <4>1. CASE i < n
        <5>1. i <= Len(a) /\ i \in 1 .. n - 1
          BY <4>1, <2>3, <2>1, <1>1
        <5> QED
          BY <5>1, <3>1, <3>2, <2>3, <4>1
      <4>2. CASE i >= n
        <5>1. ~(i <= Len(a)) /\ i - Len(a) \in 1 .. Len(q) - n /\ n + (i - Len(a)) = i + 1
          BY <4>2, <2>3, <2>1, <1>1
        <5>2. (a \o b)[i] = b[i - Len(a)]
          BY <5>1, <3>1, <3>2
        <5>3. b[i - Len(a)] = q[i + 1]
          BY <5>1, <2>4
        <5>4. ~(i < n)
          BY <4>2, <2>1
        <5> QED
          BY <5>2, <5>3, <5>4
      <4>3. i < n \/ i >= n
        BY <2>1
      <4> QED
        BY <4>1, <4>2, <4>3
    <3> QED
      BY <3>1, <3>2, <3>3, <2>2
  <2>6. Once(p)
    BY <2>5, <2>1, <1>1 DEF Once
  <2>7. ASSUME NEW x PROVE In(p, x) <=> In(q, x) /\ x # e
    <3>1. ASSUME In(p, x) PROVE In(q, x) /\ x # e
      <4>1. PICK i \in 1 .. Len(p) : p[i] = x
        BY <3>1 DEF In
      <4>2. PICK k \in 1 .. Len(q) : k # n /\ q[k] = x
        BY <4>1, <2>5, <2>1, <1>1
      <4> QED
        BY <4>2, <2>1 DEF In, Once
    <3>2. ASSUME In(q, x), x # e PROVE In(p, x)
      <4>1. PICK k \in 1 .. Len(q) : q[k] = x
        BY <3>2 DEF In
      <4>2. k # n
        BY <4>1, <2>1, <3>2
      <4>3. CASE k < n
        BY <4>1, <4>3, <2>5, <2>1, <1>1 DEF In
      <4>4. CASE k > n
        <5>1. k - 1 \in 1 .. Len(p) /\ p[k - 1] = x
          BY <4>1, <4>4, <2>5, <2>1, <1>1
        <5> QED
          BY <5>1 DEF In
      <4> QED
        BY <4>2, <4>3, <4>4, <2>1, <1>1
    <3> QED
      BY <3>1, <3>2
  <2> QED
    BY <2>5, <2>6, <2>7 DEF p
<1> QED
  BY <1>2, <1>3

LEMMA OnceLength ==
  ASSUME NEW n \in Nat, NEW q \in Seq(1 .. n), Once(q)
  PROVE  Len(q) <= n
<1>1. Len(q) \in Nat /\ q \in [1 .. Len(q) -> 1 .. n]
  BY LenProperties
<1>2. /\ IsFiniteSet(1 .. Len(q)) /\ IsFiniteSet(1 .. n)
      /\ Cardinality(1 .. Len(q)) = Len(q) /\ Cardinality(1 .. n) = n
  <2>1. ASSUME NEW k \in Nat PROVE IsFiniteSet(1 .. k) /\ Cardinality(1 .. k) = k
    <3>1. IsFiniteSet(1 .. k) /\ Cardinality(1 .. k) = IF 1 > k THEN 0 ELSE k - 1 + 1
      BY FS_Interval
    <3> QED
      BY <3>1
  <2> QED
    BY <2>1, <1>1
<1>3. ASSUME n < Len(q) PROVE FALSE
  <2>1. \E x, y \in 1 .. Len(q) : x # y /\ q[x] = q[y]
    BY <1>1, <1>2, <1>3, FS_PigeonHole
  <2> QED
    BY <2>1 DEF Once
<1> QED
  BY <1>1, <1>3

-----------------------------------------------------------------------------
(* What is copied does not change; messages have the fields of their kind. *)

LEMMA TransferFacts ==
  ASSUME transfer \in Transfers
  PROVE  /\ Upload \in BOOLEAN /\ N \in Nat \ {0} /\ Size \in [FileNums -> Nat]
         /\ Markers \subseteq FileNums /\ MaxVersion \in Nat \ {0}
         /\ transfer.jobs \in 0 .. MaxJobs /\ MaxBreaks \in Nat /\ MaxJobs \in Nat
         /\ FileNums \subseteq Nat /\ \A f \in FileNums : f + 1 \in 0 .. N /\ f \in 0 .. N
         /\ NoJob \notin ReadJobs(transfer) /\ NoJob \notin WriteJobs(transfer)
<1>1. IsTransfer(transfer) /\ MaxJobs \in Nat /\ NoJob \notin ReadJobs(transfer) \cup WriteJobs(transfer)
  BY FileAssumption
<1>2. N \in Nat \ {0}
  BY <1>1 DEF IsTransfer, N
<1> QED
  BY <1>1, <1>2 DEF IsTransfer, Upload, N, Size, FileNums, Markers, MaxVersion, MaxBreaks

LEMMA TransferSame ==
  ASSUME transfer' = transfer
  PROVE  /\ Upload' = Upload /\ N' = N /\ FileNums' = FileNums /\ Size' = Size
         /\ Markers' = Markers /\ MaxVersion' = MaxVersion /\ MaxBreaks' = MaxBreaks
         /\ Contents' = Contents /\ Messages' = Messages
         /\ ReadJobs(transfer)' = ReadJobs(transfer) /\ WriteJobs(transfer)' = WriteJobs(transfer)
BY DEF Upload, N, FileNums, Size, Markers, MaxVersion, MaxBreaks, Contents, Pieces, Messages,
       ReadJobs, WriteJobs

Kinds == {"receive", "send", "dir", "cancel", "done", "error", "digest", "block", "ask", "confirm"}

LEMMA MessageFacts ==
  ASSUME NEW m \in Messages
  PROVE  /\ m.id \in Jobs /\ m.type \in Kinds
         /\ m.type \in {"receive", "send"} => m.file_num \in 0 .. N
         /\ m.type \in {"digest", "block", "ask", "confirm"} => m.file_num \in FileNums
         /\ m.type = "digest" => m.version \in 1 .. MaxVersion /\ m.is_resume \in BOOLEAN
         /\ m.type = "block" => m.data \in Contents /\ m.at \in Nat
         /\ m.type = "ask" => m.transferred \in Nat
         /\ m.type = "confirm" => m.offset \in Nat \cup {Skip}
BY DEF Messages, Kinds

LEMMA MessageMade ==
  ASSUME NEW id \in Jobs
  PROVE  /\ \A f \in 0 .. N : /\ [type |-> "receive", id |-> id, file_num |-> f] \in Messages
                              /\ [type |-> "send", id |-> id, file_num |-> f] \in Messages
         /\ \A t \in {"dir", "cancel", "done", "error"} : [type |-> t, id |-> id] \in Messages
         /\ \A f \in FileNums :
               /\ \A v \in 1 .. MaxVersion, b \in BOOLEAN :
                     [type |-> "digest", id |-> id, file_num |-> f, version |-> v,
                      is_resume |-> b] \in Messages
               /\ \A d \in Contents, a \in Nat : BlockMessage(id, f, d, a) \in Messages
               /\ \A t \in Nat : [type |-> "ask", id |-> id, file_num |-> f,
                                  transferred |-> t] \in Messages
               /\ \A o \in Nat \cup {Skip} : ConfirmMessage(id, f, o) \in Messages
BY DEF Messages, BlockMessage, ConfirmMessage

-----------------------------------------------------------------------------
(* The invariant.                                                          *)

Mentions(q, j) == \E i \in 1 .. Len(q) : q[i].id = j
OnlyCancels(q, j) == \A i \in 1 .. Len(q) : q[i].id = j => q[i].type = "cancel"
Asked(j) == \E f \in FileNums : <<j, f>> \in asking
Untouched(j) == ~Mentions(toReader, j) /\ ~Mentions(toWriter, j) /\ ~Asked(j)

\* A job not yet started, and one loaded and not yet resumed.
Fresh(j) ==
    /\ j > started => read_jobs[j] = NoJob /\ write_jobs[j] = NoJob /\ Untouched(j)
    /\ read_jobs[j] # NoJob /\ read_jobs[j].is_last_job =>
          /\ Upload /\ write_jobs[j] = NoJob /\ Untouched(j)
          /\ read_jobs[j].stream = None /\ ~read_jobs[j].error
    /\ write_jobs[j] # NoJob /\ write_jobs[j].is_last_job =>
          /\ ~Upload /\ read_jobs[j] = NoJob /\ Untouched(j)
          /\ write_jobs[j].stream = None /\ ~write_jobs[j].listed

Sends(j) ==
    \A i \in 1 .. Len(toReader) : toReader[i].id = j /\ toReader[i].type = "send" =>
        /\ read_jobs[j] = NoJob /\ ~Mentions(toWriter, j) /\ ~Asked(j)
        /\ \A k \in 1 .. Len(toReader) : toReader[k].id = j /\ k # i => toReader[k].type = "cancel"
        /\ write_jobs[j] # NoJob => write_jobs[j].stream = None

Receives(j) ==
    \A i \in 1 .. Len(toWriter) : toWriter[i].id = j /\ toWriter[i].type = "receive" =>
        /\ write_jobs[j] = NoJob /\ ~Mentions(toReader, j) /\ ~Asked(j)
        /\ \A k \in 1 .. Len(toWriter) : toWriter[k].id = j /\ k # i =>
              /\ k > i /\ toWriter[k].type \notin {"receive", "confirm"}
              /\ toWriter[k].type = "block" => toWriter[k].file_num \in Markers
        /\ read_jobs[j] # NoJob /\ read_jobs[j].stream # None =>
              \E k \in 1 .. Len(toWriter) : toWriter[k].id = j /\ toWriter[k].type = "digest"

Reader(j) ==
    read_jobs[j] # NoJob =>
        /\ read_jobs[j].stream = None => ~read_jobs[j].confirmed /\ ~read_jobs[j].waiting
        /\ read_jobs[j].stream # None =>
              /\ read_jobs[j].waiting /\ read_jobs[j].file_num \in FileNums \ Markers
              /\ \/ write_jobs[j] = NoJob
                 \/ write_jobs[j].digest = source[read_jobs[j].file_num]
                 \/ \E k \in 1 .. Len(toWriter) : toWriter[k].id = j /\ toWriter[k].type = "digest"

\* A reader that has sent the digest of f waits for what the other side says.
WaitsAt(r, f) == r # NoJob => r.file_num = f /\ r.stream # None /\ ~r.confirmed
Open(j) == /\ write_jobs[j] # NoJob /\ write_jobs[j].stream # None
           /\ write_jobs[j].file_num \notin Markers

Digests(j) ==
    \A i \in 1 .. Len(toWriter) : toWriter[i].id = j /\ toWriter[i].type = "digest" =>
        /\ toWriter[i].file_num \notin Markers
        /\ WaitsAt(read_jobs[j], toWriter[i].file_num) /\ ~Asked(j) /\ OnlyCancels(toReader, j)
        /\ read_jobs[j] # NoJob => toWriter[i].version = source[toWriter[i].file_num]
        /\ \A k \in 1 .. Len(toWriter) : toWriter[k].id = j /\ k > i => toWriter[k].type = "cancel"
        /\ \A k \in 1 .. Len(toWriter) :
              toWriter[k].id = j /\ k < i /\ toWriter[k].type \in {"block", "confirm"} =>
                  toWriter[k].file_num < toWriter[i].file_num
        /\ Open(j) => write_jobs[j].file_num < toWriter[i].file_num

Tokens(j) ==
    /\ \A i \in 1 .. Len(toReader) : toReader[i].id = j /\ toReader[i].type \in {"ask", "confirm"} =>
          /\ toReader[i].file_num \notin Markers
          /\ WaitsAt(read_jobs[j], toReader[i].file_num) /\ ~Asked(j) /\ OnlyCancels(toWriter, j)
          /\ \A k \in 1 .. Len(toReader) : toReader[k].id = j /\ k # i => toReader[k].type = "cancel"
    /\ \A f \in FileNums : <<j, f>> \in asking =>
          /\ f \notin Markers /\ WaitsAt(read_jobs[j], f) /\ OnlyCancels(toWriter, j)
          /\ \A g \in FileNums : <<j, g>> \in asking => g = f

\* The writer may go on at this offset of f.
Ready(w, content, version, offset) ==
    w # NoJob /\ offset > 0 =>
        /\ content # Absent /\ version # Absent /\ version = w.digest
        /\ offset <= Len(content)

Asks(j) ==
    \A i \in 1 .. Len(toReader) : toReader[i].id = j /\ toReader[i].type = "ask" =>
        Ready(write_jobs[j], download[toReader[i].file_num], digest[toReader[i].file_num],
              toReader[i].transferred)
Confirms(j) ==
    \A i \in 1 .. Len(toWriter) : toWriter[i].id = j /\ toWriter[i].type = "confirm" =>
        /\ toWriter[i].file_num \notin Markers
        /\ Ready(write_jobs[j], download[toWriter[i].file_num], digest[toWriter[i].file_num],
              toWriter[i].offset)
        /\ \A k \in 1 .. i - 1 : toWriter[k].id # j
        /\ read_jobs[j] # NoJob =>
              /\ toWriter[i].file_num <= read_jobs[j].file_num
              /\ toWriter[i].file_num = read_jobs[j].file_num => read_jobs[j].stream # None

\* A block holds the piece it should, of the version the writer knows.
Blocks(j) ==
    \A i \in 1 .. Len(toWriter) : toWriter[i].id = j /\ toWriter[i].type = "block" =>
        /\ read_jobs[j] # NoJob => toWriter[i].file_num <= read_jobs[j].file_num
        /\ toWriter[i].file_num \notin Markers =>
              /\ read_jobs[j] # NoJob /\ toWriter[i].file_num = read_jobs[j].file_num =>
                    read_jobs[j].confirmed
              /\ toWriter[i].data # <<>> => toWriter[i].at < Size[toWriter[i].file_num]
              /\ write_jobs[j] # NoJob =>
                    /\ write_jobs[j].digest >= 1
                    /\ \/ toWriter[i].data = <<>>
                       \/ toWriter[i].data = << <<write_jobs[j].digest, toWriter[i].at + 1>> >>

\* No more of f comes.
Passed(q, r, j, f) ==
    /\ \A i \in 1 .. Len(q) : q[i].id = j /\ q[i].type = "block" => q[i].file_num # f
    /\ r # NoJob => r.file_num > f

Opens(j) ==
    Open(j) =>
        /\ write_jobs[j].file_num < N /\ download[write_jobs[j].file_num] # Absent
        /\ write_jobs[j].stream <= Len(download[write_jobs[j].file_num])
        /\ \/ digest[write_jobs[j].file_num] = write_jobs[j].digest
           \/ Passed(toWriter, read_jobs[j], j, write_jobs[j].file_num)
        /\ read_jobs[j] # NoJob =>
              /\ write_jobs[j].file_num <= read_jobs[j].file_num
              /\ write_jobs[j].file_num = read_jobs[j].file_num => read_jobs[j].stream # None

Cancels(j) ==
    \A i \in 1 .. Len(toWriter) :
        toWriter[i].id = j /\ toWriter[i].type = "cancel" => read_jobs[j] = NoJob

JobInv(j) == /\ Fresh(j) /\ Sends(j) /\ Receives(j) /\ Reader(j) /\ Digests(j) /\ Tokens(j)
             /\ Asks(j) /\ Confirms(j) /\ Blocks(j) /\ Opens(j) /\ Cancels(j)

\* The lists of jobs.
ListedIn(q, jobs) == Once(q) /\ \A id \in Jobs : jobs[id] # NoJob <=> In(q, id)
ListInv == /\ ListedIn(queue, read_jobs) /\ ListedIn(write_queue, write_jobs)
           /\ Len(saved) <= MaxJobs

ReaderKinds == IF Upload THEN {"ask", "confirm"} ELSE {"send", "cancel", "confirm"}
WriterKinds == IF Upload
               THEN {"receive", "digest", "block", "cancel", "done", "error", "confirm"}
               ELSE {"dir", "digest", "block", "done", "error"}
KindInv == /\ \A i \in 1 .. Len(toReader) : toReader[i].type \in ReaderKinds
           /\ \A i \in 1 .. Len(toWriter) : toWriter[i].type \in WriterKinds

\* One job writes at a time, now and when what is on its way has arrived.
Writing(j) == write_jobs[j] # NoJob /\ ~write_jobs[j].is_last_job
LiveAt(j, p) ==
    /\ \/ write_jobs[j] # NoJob
       \/ \E i \in 1 .. p : toWriter[i].id = j /\ toWriter[i].type = "receive"
    /\ \A i \in 1 .. p : toWriter[i].id = j => toWriter[i].type \notin {"cancel", "done", "error"}
SingleInv ==
    /\ \A j, k \in Jobs : Writing(j) /\ Writing(k) => j = k
    /\ Upload =>
          /\ \A p \in 0 .. Len(toWriter) : \A j, k \in Jobs : LiveAt(j, p) /\ LiveAt(k, p) => j = k
          /\ \A j \in Jobs : LiveAt(j, Len(toWriter)) =>
                read_jobs[j] # NoJob /\ ~read_jobs[j].is_last_job /\ ~read_jobs[j].error

DiskInv == /\ \A f \in FileNums : digest[f] # Absent => digest[f] >= 1
           /\ Resumable

FileInv == /\ \A j \in Jobs : JobInv(j)
           /\ ListInv /\ KindInv /\ SingleInv /\ DiskInv

-----------------------------------------------------------------------------
(* What a step leaves to the other jobs.                                   *)

Same(q, p, j, d) ==
    /\ \A i \in 1 .. Len(p) : p[i].id = j => i + d \in 1 .. Len(q) /\ p[i] = q[i + d]
    /\ \A i \in 1 .. Len(q) : q[i].id = j => i - d \in 1 .. Len(p) /\ p[i - d] = q[i]

LEMMA SameFacts ==
  ASSUME NEW q, NEW p, NEW j, NEW d \in {0, 1}, Same(q, p, j, d)
  PROVE  /\ Mentions(p, j) <=> Mentions(q, j)
         /\ OnlyCancels(p, j) <=> OnlyCancels(q, j)
<1>1. ASSUME Mentions(p, j) PROVE Mentions(q, j)
  BY <1>1 DEF Same, Mentions
<1>2. ASSUME Mentions(q, j) PROVE Mentions(p, j)
  BY <1>2 DEF Same, Mentions
<1>3. ASSUME OnlyCancels(p, j) PROVE OnlyCancels(q, j)
  BY <1>3 DEF Same, OnlyCancels
<1>4. ASSUME OnlyCancels(q, j) PROVE OnlyCancels(p, j)
  BY <1>4 DEF Same, OnlyCancels
<1> QED
  BY <1>1, <1>2, <1>3, <1>4

LEMMA Frame ==
  ASSUME FileTypeOK, transfer' = transfer,
         NEW j \in Jobs, JobInv(j), NEW d \in {0, 1}, NEW e \in {0, 1},
         Same(toReader, toReader', j, d), Same(toWriter, toWriter', j, e),
         read_jobs'[j] = read_jobs[j], write_jobs'[j] = write_jobs[j],
         \A f \in FileNums : <<j, f>> \in asking' <=> <<j, f>> \in asking,
         Writing(j) => UNCHANGED <<download, digest>>,
         read_jobs[j] # NoJob /\ read_jobs[j].stream # None => source' = source,
         j > started' => j > started
  PROVE  JobInv(j)'
<1>1. /\ Upload' = Upload /\ N' = N /\ FileNums' = FileNums /\ Size' = Size /\ Markers' = Markers
  BY TransferSame
<1>3. /\ Mentions(toReader, j)' <=> Mentions(toReader, j)
      /\ OnlyCancels(toReader, j)' <=> OnlyCancels(toReader, j)
  BY SameFacts
<1>4. /\ Mentions(toWriter, j)' <=> Mentions(toWriter, j)
      /\ OnlyCancels(toWriter, j)' <=> OnlyCancels(toWriter, j)
  BY SameFacts
<1>5. (Asked(j)' <=> Asked(j)) /\ (Untouched(j)' <=> Untouched(j))
  BY <1>1, <1>3, <1>4 DEF Asked, Untouched
<1>6. Open(j)' <=> Open(j)
  BY <1>1 DEF Open
<1>7. \A f : Passed(toWriter', read_jobs'[j], j, f) <=> Passed(toWriter, read_jobs[j], j, f)
  BY DEF Passed, Same
<1>8. write_jobs[j] = NoJob \/ Writing(j) \/ (Untouched(j) /\ write_jobs[j].stream = None)
  BY DEF JobInv, Fresh, Writing
<1>a. ASSUME NEW i \in 1 .. Len(toReader'), toReader'[i].id = j
      PROVE  /\ i + d \in 1 .. Len(toReader) /\ toReader'[i] = toReader[i + d]
             /\ \A k \in 1 .. Len(toReader') : toReader'[k].id = j /\ k # i =>
                    k + d \in 1 .. Len(toReader) /\ k + d # i + d /\ toReader'[k] = toReader[k + d]
  BY <1>a DEF Same
<1>b. ASSUME NEW i \in 1 .. Len(toWriter'), toWriter'[i].id = j
      PROVE  /\ i + e \in 1 .. Len(toWriter) /\ toWriter'[i] = toWriter[i + e]
             /\ \A k \in 1 .. Len(toWriter') : toWriter'[k].id = j =>
                    /\ k + e \in 1 .. Len(toWriter) /\ toWriter'[k] = toWriter[k + e]
                    /\ (k > i <=> k + e > i + e) /\ (k # i <=> k + e # i + e)
                    /\ (k < i <=> k + e < i + e)
  BY <1>b DEF Same
<1>d. ASSUME NEW k \in 1 .. Len(toWriter), toWriter[k].id = j, toWriter[k].type = "digest"
      PROVE  \E l \in 1 .. Len(toWriter') : toWriter'[l].id = j /\ toWriter'[l].type = "digest"
  <2>1. k - e \in 1 .. Len(toWriter') /\ toWriter'[k - e] = toWriter[k]
    BY <1>d DEF Same
  <2> QED
    BY <2>1, <1>d
<1>9. Fresh(j)'
  BY <1>1, <1>5 DEF JobInv, Fresh
<1>10. Sends(j)'
  <2> SUFFICES ASSUME NEW i \in 1 .. Len(toReader'), toReader'[i].id = j, toReader'[i].type = "send"
               PROVE  /\ read_jobs'[j] = NoJob /\ ~Mentions(toWriter, j)' /\ ~Asked(j)'
                      /\ \A k \in 1 .. Len(toReader') :
                            toReader'[k].id = j /\ k # i => toReader'[k].type = "cancel"
                      /\ write_jobs'[j] # NoJob => write_jobs'[j].stream = None
    BY DEF Sends
  <2>1. /\ i + d \in 1 .. Len(toReader) /\ toReader[i + d] = toReader'[i]
        /\ \A k \in 1 .. Len(toReader') : toReader'[k].id = j /\ k # i =>
               k + d \in 1 .. Len(toReader) /\ k + d # i + d /\ toReader'[k] = toReader[k + d]
    BY <1>a
  <2>2. /\ read_jobs[j] = NoJob /\ ~Mentions(toWriter, j) /\ ~Asked(j)
        /\ \A k \in 1 .. Len(toReader) : toReader[k].id = j /\ k # i + d => toReader[k].type = "cancel"
        /\ write_jobs[j] # NoJob => write_jobs[j].stream = None
    BY <2>1 DEF JobInv, Sends
  <2>3. \A k \in 1 .. Len(toReader') :
           toReader'[k].id = j /\ k # i => toReader'[k].type = "cancel"
    BY <2>1, <2>2
  <2> QED
    BY <2>2, <2>3, <1>4, <1>5
<1>11. Receives(j)'
  <2> SUFFICES ASSUME NEW i \in 1 .. Len(toWriter'), toWriter'[i].id = j, toWriter'[i].type = "receive"
               PROVE  /\ write_jobs'[j] = NoJob /\ ~Mentions(toReader, j)' /\ ~Asked(j)'
                      /\ \A k \in 1 .. Len(toWriter') : toWriter'[k].id = j /\ k # i =>
                            /\ k > i /\ toWriter'[k].type \notin {"receive", "confirm"}
                            /\ toWriter'[k].type = "block" => toWriter'[k].file_num \in Markers
                      /\ read_jobs'[j] # NoJob /\ read_jobs'[j].stream # None =>
                            \E k \in 1 .. Len(toWriter') :
                                toWriter'[k].id = j /\ toWriter'[k].type = "digest"
    BY <1>1 DEF Receives
  <2>1. /\ write_jobs[j] = NoJob /\ ~Mentions(toReader, j) /\ ~Asked(j)
        /\ \A k \in 1 .. Len(toWriter) : toWriter[k].id = j /\ k # i + e =>
              /\ k > i + e /\ toWriter[k].type \notin {"receive", "confirm"}
              /\ toWriter[k].type = "block" => toWriter[k].file_num \in Markers
        /\ read_jobs[j] # NoJob /\ read_jobs[j].stream # None =>
              \E k \in 1 .. Len(toWriter) : toWriter[k].id = j /\ toWriter[k].type = "digest"
    BY <1>b DEF JobInv, Receives
  <2>2. \A k \in 1 .. Len(toWriter') : toWriter'[k].id = j /\ k # i =>
            /\ k > i /\ toWriter'[k].type \notin {"receive", "confirm"}
            /\ toWriter'[k].type = "block" => toWriter'[k].file_num \in Markers
    BY <2>1, <1>b
  <2> QED
    BY <2>1, <2>2, <1>d, <1>3, <1>5
<1>12. Reader(j)'
  BY <1>1, <1>d DEF JobInv, Reader
<1>13. Digests(j)'
  <2> SUFFICES ASSUME NEW i \in 1 .. Len(toWriter'), toWriter'[i].id = j, toWriter'[i].type = "digest"
               PROVE  /\ toWriter'[i].file_num \notin Markers
                      /\ WaitsAt(read_jobs'[j], toWriter'[i].file_num) /\ ~Asked(j)' /\ OnlyCancels(toReader, j)'
                      /\ read_jobs'[j] # NoJob => toWriter'[i].version = source'[toWriter'[i].file_num]
                      /\ \A k \in 1 .. Len(toWriter') :
                            toWriter'[k].id = j /\ k > i => toWriter'[k].type = "cancel"
                      /\ \A k \in 1 .. Len(toWriter') :
                            toWriter'[k].id = j /\ k < i /\ toWriter'[k].type \in {"block", "confirm"} =>
                                toWriter'[k].file_num < toWriter'[i].file_num
                      /\ Open(j)' => write_jobs'[j].file_num < toWriter'[i].file_num
    BY <1>1 DEF Digests
  <2>1. /\ toWriter[i + e].file_num \notin Markers
        /\ WaitsAt(read_jobs[j], toWriter[i + e].file_num) /\ ~Asked(j) /\ OnlyCancels(toReader, j)
        /\ read_jobs[j] # NoJob => toWriter[i + e].version = source[toWriter[i + e].file_num]
        /\ \A k \in 1 .. Len(toWriter) :
              toWriter[k].id = j /\ k > i + e => toWriter[k].type = "cancel"
        /\ \A k \in 1 .. Len(toWriter) :
              toWriter[k].id = j /\ k < i + e /\ toWriter[k].type \in {"block", "confirm"} =>
                  toWriter[k].file_num < toWriter[i + e].file_num
        /\ Open(j) => write_jobs[j].file_num < toWriter[i + e].file_num
    BY <1>b DEF JobInv, Digests
  <2>2. read_jobs[j] # NoJob => source' = source
    BY <2>1 DEF WaitsAt
  <2>3. /\ \A k \in 1 .. Len(toWriter') :
              toWriter'[k].id = j /\ k > i => toWriter'[k].type = "cancel"
        /\ \A k \in 1 .. Len(toWriter') :
              toWriter'[k].id = j /\ k < i /\ toWriter'[k].type \in {"block", "confirm"} =>
                  toWriter'[k].file_num < toWriter'[i].file_num
    <3>1. /\ toWriter'[i] = toWriter[i + e]
          /\ \A k \in 1 .. Len(toWriter') : toWriter'[k].id = j =>
                /\ k + e \in 1 .. Len(toWriter) /\ toWriter'[k] = toWriter[k + e]
                /\ (k > i <=> k + e > i + e) /\ (k < i <=> k + e < i + e)
      BY <1>b
    <3>2. ASSUME NEW k \in 1 .. Len(toWriter'), toWriter'[k].id = j
          PROVE  /\ k > i => toWriter'[k].type = "cancel"
                 /\ k < i /\ toWriter'[k].type \in {"block", "confirm"} =>
                       toWriter'[k].file_num < toWriter'[i].file_num
      BY <3>1, <3>2, <2>1
    <3> QED
      BY <3>2
  <2>4. toWriter'[i] = toWriter[i + e]
    BY <1>b
  <2> QED
    BY <2>4, <1>3, <1>5, <1>6, <2>1, <2>2, <2>3
<1>14. Tokens(j)'
  <2>1. ASSUME NEW i \in 1 .. Len(toReader'), toReader'[i].id = j, toReader'[i].type \in {"ask", "confirm"}
        PROVE  /\ toReader'[i].file_num \notin Markers
               /\ WaitsAt(read_jobs'[j], toReader'[i].file_num) /\ ~Asked(j)' /\ OnlyCancels(toWriter, j)'
               /\ \A k \in 1 .. Len(toReader') :
                     toReader'[k].id = j /\ k # i => toReader'[k].type = "cancel"
    <3>1. /\ toReader[i + d].file_num \notin Markers
          /\ WaitsAt(read_jobs[j], toReader[i + d].file_num) /\ ~Asked(j)
          /\ OnlyCancels(toWriter, j)
          /\ \A k \in 1 .. Len(toReader) :
                toReader[k].id = j /\ k # i + d => toReader[k].type = "cancel"
      BY <2>1, <1>a DEF JobInv, Tokens
    <3>2. \A k \in 1 .. Len(toReader') :
              toReader'[k].id = j /\ k # i => toReader'[k].type = "cancel"
      BY <2>1, <3>1, <1>a
    <3>3. toReader'[i] = toReader[i + d]
      BY <2>1, <1>a
    <3> QED
      BY <3>1, <3>2, <3>3, <1>4, <1>5
  <2>2. ASSUME NEW f \in FileNums, <<j, f>> \in asking'
        PROVE  /\ f \notin Markers /\ WaitsAt(read_jobs'[j], f) /\ OnlyCancels(toWriter, j)'
               /\ \A g \in FileNums : <<j, g>> \in asking' => g = f
    BY <2>2, <1>4, <1>6 DEF JobInv, Tokens
  <2> QED
    BY <2>1, <2>2, <1>1 DEF Tokens
<1>15. Asks(j)'
  <2> SUFFICES ASSUME NEW i \in 1 .. Len(toReader'), toReader'[i].id = j, toReader'[i].type = "ask"
               PROVE  Ready(write_jobs'[j], download'[toReader'[i].file_num], digest'[toReader'[i].file_num],
                            toReader'[i].transferred)
    BY DEF Asks
  <2>1. Ready(write_jobs[j], download[toReader[i + d].file_num], digest[toReader[i + d].file_num],
                 toReader[i + d].transferred) /\ Mentions(toReader, j)
    BY <1>a DEF JobInv, Asks, Mentions
  <2> QED
    BY <2>1, <1>a, <1>8 DEF Ready, Untouched
<1>16. Confirms(j)'
  <2> SUFFICES ASSUME NEW i \in 1 .. Len(toWriter'), toWriter'[i].id = j, toWriter'[i].type = "confirm"
               PROVE  /\ toWriter'[i].file_num \notin Markers
                      /\ Ready(write_jobs'[j], download'[toWriter'[i].file_num], digest'[toWriter'[i].file_num],
                            toWriter'[i].offset)
                      /\ \A k \in 1 .. i - 1 : toWriter'[k].id # j
                      /\ read_jobs'[j] # NoJob =>
                            /\ toWriter'[i].file_num <= read_jobs'[j].file_num
                            /\ toWriter'[i].file_num = read_jobs'[j].file_num
                                  => read_jobs'[j].stream # None
    BY <1>1 DEF Confirms
  <2>1. /\ toWriter[i + e].file_num \notin Markers
        /\ Ready(write_jobs[j], download[toWriter[i + e].file_num], digest[toWriter[i + e].file_num],
                 toWriter[i + e].offset) /\ Mentions(toWriter, j)
        /\ \A k \in 1 .. i + e - 1 : toWriter[k].id # j
        /\ read_jobs[j] # NoJob =>
              /\ toWriter[i + e].file_num <= read_jobs[j].file_num
              /\ toWriter[i + e].file_num = read_jobs[j].file_num => read_jobs[j].stream # None
    <3>1. /\ i + e \in 1 .. Len(toWriter)
          /\ toWriter[i + e].id = j /\ toWriter[i + e].type = "confirm"
      BY <1>b
    <3>2. Mentions(toWriter, j)
      BY <3>1 DEF Mentions
    <3>3. Confirms(j)
      BY DEF JobInv
    <3> QED
      BY <3>1, <3>2, <3>3 DEF Confirms
  <2>2. \A k \in 1 .. i - 1 : toWriter'[k].id # j
    BY <2>1, <1>b
  <2>3. Ready(write_jobs'[j], download'[toWriter'[i].file_num], digest'[toWriter'[i].file_num],
                            toWriter'[i].offset)
    BY <2>1, <1>b, <1>8 DEF Ready, Untouched
  <2> QED
    BY <2>1, <2>2, <2>3, <1>b
<1>17. Blocks(j)'
  BY <1>1, <1>b DEF JobInv, Blocks
<1>18. Opens(j)'
  BY <1>1, <1>6, <1>7, <1>8 DEF JobInv, Opens, Open
<1>19. Cancels(j)'
  BY <1>b DEF JobInv, Cancels
<1> QED
  BY <1>9, <1>10, <1>11, <1>12, <1>13, <1>14, <1>15, <1>16, <1>17, <1>18, <1>19 DEF JobInv

\* A queue stays, loses a message of j at its head, or gets one at its end.
Moved(q, p, j) ==
    \/ p = q
    \/ q # <<>> /\ p = Tail(q) /\ Head(q).id = j
    \/ \E m \in Messages : p = Append(q, m) /\ m.id = j

LEMMA MovedFacts ==
  ASSUME NEW q \in Seq(Messages), NEW p, NEW j, Moved(q, p, j)
  PROVE  /\ p \in Seq(Messages) /\ Len(p) \in Nat
         /\ \A k : k # j => \E d \in {0, 1} : Same(q, p, k, d)
<1>1. Len(q) \in Nat
  BY LenProperties
<1>2. CASE p = q
  <2>1. \A k : Same(q, p, k, 0)
    BY <1>1, <1>2 DEF Same
  <2> QED
    BY <2>1, <1>1, <1>2
<1>3. CASE q # <<>> /\ p = Tail(q) /\ Head(q).id = j
  <2>1. /\ Len(q) \in Nat \ {0} /\ Head(q) = q[1] /\ p \in Seq(Messages) /\ Len(p) = Len(q) - 1
        /\ \A i \in 1 .. Len(q) - 1 : p[i] = q[i + 1]
    BY <1>3, TailFacts
  <2>2. ASSUME NEW k, k # j PROVE Same(q, p, k, 1)
    <3>1. ASSUME NEW i \in 1 .. Len(p) PROVE i + 1 \in 1 .. Len(q) /\ p[i] = q[i + 1]
      BY <2>1
    <3>2. ASSUME NEW i \in 1 .. Len(q), q[i].id = k
          PROVE  i - 1 \in 1 .. Len(p) /\ p[i - 1] = q[i]
      <4>1. i # 1
        BY <3>2, <2>1, <2>2, <1>3
      <4>2. i - 1 \in 1 .. Len(q) - 1 /\ (i - 1) + 1 = i
        BY <4>1, <2>1
      <4> QED
        BY <4>2, <2>1
    <3> QED
      BY <3>1, <3>2 DEF Same
  <2> QED
    BY <2>1, <2>2
<1>4. CASE \E m \in Messages : p = Append(q, m) /\ m.id = j
  <2>1. PICK m \in Messages : p = Append(q, m) /\ m.id = j
    BY <1>4
  <2>2. /\ p \in Seq(Messages) /\ Len(p) = Len(q) + 1 /\ p[Len(q) + 1] = m
        /\ \A i \in 1 .. Len(q) : p[i] = q[i]
    BY <2>1, AppendFacts
  <2>3. ASSUME NEW k, k # j PROVE Same(q, p, k, 0)
    <3>1. ASSUME NEW i \in 1 .. Len(p), p[i].id = k PROVE i + 0 \in 1 .. Len(q) /\ p[i] = q[i + 0]
      <4>1. i # Len(q) + 1
        BY <3>1, <2>1, <2>2, <2>3
      <4> QED
        BY <4>1, <2>2, <1>1
    <3>2. ASSUME NEW i \in 1 .. Len(q) PROVE i - 0 \in 1 .. Len(p) /\ p[i - 0] = q[i]
      BY <2>2, <1>1
    <3> QED
      BY <3>1, <3>2 DEF Same
  <2> QED
    BY <2>2, <2>3, <1>1
<1> QED
  BY <1>2, <1>3, <1>4 DEF Moved

LEMMA Others ==
  ASSUME FileTypeOK, \A j \in Jobs : JobInv(j), NEW id \in Jobs, transfer' = transfer,
         Moved(toReader, toReader', id), Moved(toWriter, toWriter', id),
         \A j \in Jobs : j # id => read_jobs'[j] = read_jobs[j] /\ write_jobs'[j] = write_jobs[j],
         \A j \in Jobs : \A f \in FileNums : j # id => (<<j, f>> \in asking' <=> <<j, f>> \in asking),
         \A j \in Jobs : j # id /\ Writing(j) => UNCHANGED <<download, digest>>,
         source' = source, \A j \in Jobs : j # id /\ j > started' => j > started
  PROVE  \A j \in Jobs : j # id => JobInv(j)'
<1> SUFFICES ASSUME NEW j \in Jobs, j # id PROVE JobInv(j)'
  OBVIOUS
<1>1. toReader \in Seq(Messages) /\ toWriter \in Seq(Messages)
  BY DEF FileTypeOK
<1>2. PICK d \in {0, 1} : Same(toReader, toReader', j, d)
  BY <1>1, MovedFacts
<1>3. PICK e \in {0, 1} : Same(toWriter, toWriter', j, e)
  BY <1>1, MovedFacts
<1>4. Len(toReader') \in Nat /\ Len(toWriter') \in Nat
  BY <1>1, MovedFacts
<1>5. /\ read_jobs'[j] = read_jobs[j] /\ write_jobs'[j] = write_jobs[j]
      /\ \A f \in FileNums : <<j, f>> \in asking' <=> <<j, f>> \in asking
      /\ Writing(j) => UNCHANGED <<download, digest>>
      /\ j > started' => j > started
  OBVIOUS
<1>6. JobInv(j)
  OBVIOUS
<1> QED
  BY <1>2, <1>3, <1>4, <1>5, <1>6, Frame

-----------------------------------------------------------------------------
(* What a step leaves of the other parts.                                  *)

LEMMA KindMoved ==
  ASSUME FileTypeOK, KindInv, transfer' = transfer, NEW j,
         Moved(toReader, toReader', j), Moved(toWriter, toWriter', j),
         \A m \in Messages : toReader' = Append(toReader, m) => m.type \in ReaderKinds,
         \A m \in Messages : toWriter' = Append(toWriter, m) => m.type \in WriterKinds
  PROVE  KindInv'
<1>1. ReaderKinds' = ReaderKinds /\ WriterKinds' = WriterKinds
  BY TransferSame DEF ReaderKinds, WriterKinds
<1>2. ASSUME NEW q \in Seq(Messages), NEW p, NEW kinds, Moved(q, p, j),
             \A m \in Messages : p = Append(q, m) => m.type \in kinds,
             \A i \in 1 .. Len(q) : q[i].type \in kinds
      PROVE  \A i \in 1 .. Len(p) : p[i].type \in kinds
  <2>1. CASE p = q
    BY <1>2, <2>1
  <2>2. CASE q # <<>> /\ p = Tail(q)
    <3>1. Len(q) \in Nat /\ Len(p) = Len(q) - 1 /\ \A i \in 1 .. Len(q) - 1 : p[i] = q[i + 1]
      BY <2>2, TailFacts
    <3> QED
      BY <3>1, <1>2
  <2>3. CASE \E m \in Messages : p = Append(q, m)
    <3>1. PICK m \in Messages : p = Append(q, m)
      BY <2>3
    <3>2. /\ Len(q) \in Nat /\ Len(p) = Len(q) + 1 /\ p[Len(q) + 1] = m
          /\ \A i \in 1 .. Len(q) : p[i] = q[i]
      BY <3>1, AppendFacts
    <3>3. m.type \in kinds
      BY <3>1, <1>2
    <3> QED
      BY <3>2, <3>3, <1>2
  <2> QED
    BY <2>1, <2>2, <2>3, <1>2 DEF Moved
<1>3. toReader \in Seq(Messages) /\ toWriter \in Seq(Messages)
  BY DEF FileTypeOK
<1>4. \A i \in 1 .. Len(toReader') : toReader'[i].type \in ReaderKinds
  BY <1>2, <1>3 DEF KindInv
<1>5. \A i \in 1 .. Len(toWriter') : toWriter'[i].type \in WriterKinds
  BY <1>2, <1>3 DEF KindInv
<1> QED
  BY <1>1, <1>4, <1>5 DEF KindInv

-----------------------------------------------------------------------------
(* One job writes.                                                         *)

OthersSame(id) ==
    \A j \in Jobs : j # id => read_jobs'[j] = read_jobs[j] /\ write_jobs'[j] = write_jobs[j]
Able(r) == r # NoJob /\ ~r.is_last_job /\ ~r.error
ClosingTypes == {"cancel", "done", "error"}

\* toWriter stays.
LEMMA SingleStay ==
  ASSUME FileTypeOK, SingleInv, transfer' = transfer, NEW id \in Jobs, OthersSame(id),
         toWriter' = toWriter, write_jobs'[id] # NoJob => write_jobs[id] # NoJob,
         Writing(id)' => Writing(id),
         Upload /\ Able(read_jobs[id]) => Able(read_jobs'[id]) 
  PROVE  SingleInv'
<1>1. Upload' = Upload
  BY TransferSame
<1>2. \A j \in Jobs : Writing(j)' => Writing(j)
  BY DEF OthersSame, Writing
<1>3. \A j \in Jobs : \A p \in 0 .. Len(toWriter) : LiveAt(j, p)' => LiveAt(j, p)
  BY DEF OthersSame, LiveAt
<1>4. Len(toWriter) \in Nat
  BY LenProperties DEF FileTypeOK
<1>5. ASSUME Upload, NEW j \in Jobs, NEW p, p = Len(toWriter'), LiveAt(j, p)'
      PROVE  read_jobs'[j] # NoJob /\ ~read_jobs'[j].is_last_job /\ ~read_jobs'[j].error
  <2>1. Able(read_jobs[j])
    BY <1>3, <1>4, <1>5 DEF SingleInv, Able
  <2> QED
    BY <2>1, <1>5 DEF Able, OthersSame
<1>6. \A p \in 0 .. Len(toWriter') : \A j, k \in Jobs : Upload /\ LiveAt(j, p)' /\ LiveAt(k, p)' => j = k
  BY <1>3 DEF SingleInv
<1> QED
  BY <1>1, <1>2, <1>5, <1>6 DEF SingleInv

\* The reader sends.
LEMMA SingleEmit ==
  ASSUME FileTypeOK, SingleInv, transfer' = transfer, NEW id \in Jobs, OthersSame(id),
         NEW m \in Messages, toWriter' = Append(toWriter, m), m.id = id, m.type # "receive",
         write_jobs' = write_jobs,
         Upload /\ Able(read_jobs[id]) => Able(read_jobs'[id]) \/ m.type \in ClosingTypes
  PROVE  SingleInv'
<1>1. Upload' = Upload
  BY TransferSame
<1>2. \A j \in Jobs : Writing(j)' => Writing(j)
  BY DEF Writing
<1>3. /\ Len(toWriter) \in Nat /\ Len(toWriter') = Len(toWriter) + 1
      /\ \A i \in 1 .. Len(toWriter) : toWriter'[i] = toWriter[i]
      /\ toWriter'[Len(toWriter) + 1] = m
  BY AppendFacts DEF FileTypeOK
<1>4. ASSUME NEW j \in Jobs, NEW p \in 0 .. Len(toWriter), LiveAt(j, p)' PROVE LiveAt(j, p)
  <2>1. \A i \in 1 .. p : toWriter'[i] = toWriter[i]
    BY <1>3
  <2> QED
    BY <2>1, <1>4 DEF LiveAt
<1>5. ASSUME NEW j \in Jobs, NEW p, p = Len(toWriter) + 1, LiveAt(j, p)'
      PROVE  LiveAt(j, Len(toWriter)) /\ (m.id = j => m.type \notin ClosingTypes)
  <2>1. \A i \in 1 .. Len(toWriter) + 1 : i \in 1 .. Len(toWriter) \/ i = Len(toWriter) + 1
    BY <1>3
  <2>2. \A i \in 1 .. Len(toWriter) : i \in 1 .. Len(toWriter) + 1
    BY <1>3
  <2>3. Len(toWriter) + 1 \in 1 .. Len(toWriter) + 1
    BY <1>3
  <2> QED
    BY <2>1, <2>2, <2>3, <1>3, <1>5 DEF LiveAt, ClosingTypes
<1>6. ASSUME Upload, NEW j \in Jobs, NEW p, p = Len(toWriter'), LiveAt(j, p)'
      PROVE  read_jobs'[j] # NoJob /\ ~read_jobs'[j].is_last_job /\ ~read_jobs'[j].error
  <2>1. LiveAt(j, Len(toWriter)) /\ (m.id = j => m.type \notin ClosingTypes)
    BY <1>3, <1>5, <1>6
  <2>2. Able(read_jobs[j])
    BY <2>1, <1>6 DEF SingleInv, Able
  <2> QED
    BY <2>1, <2>2, <1>6 DEF Able, OthersSame
<1>7. ASSUME Upload, NEW p \in 0 .. Len(toWriter'), NEW j \in Jobs, NEW k \in Jobs,
             LiveAt(j, p)', LiveAt(k, p)'
      PROVE  j = k
  <2>1. CASE p \in 0 .. Len(toWriter)
    BY <2>1, <1>4, <1>7 DEF SingleInv
  <2>2. CASE p = Len(toWriter) + 1
    <3>1. LiveAt(j, Len(toWriter)) /\ LiveAt(k, Len(toWriter)) /\ Len(toWriter) \in 0 .. Len(toWriter)
      BY <2>2, <1>5, <1>7, <1>3
    <3> QED
      BY <3>1, <1>7 DEF SingleInv
  <2> QED
    BY <2>1, <2>2, <1>3
<1> QED
  BY <1>1, <1>2, <1>6, <1>7 DEF SingleInv

\* The writer takes.
LEMMA SingleTake ==
  ASSUME FileTypeOK, SingleInv, transfer' = transfer, NEW id \in Jobs, OthersSame(id), Receives(id),
         toWriter # <<>>, toWriter' = Tail(toWriter), Head(toWriter).id = id,
         Head(toWriter).type \in ClosingTypes => write_jobs'[id] = NoJob,
         write_jobs'[id] # NoJob => write_jobs[id] # NoJob \/ Head(toWriter).type = "receive",
         Writing(id)' => Writing(id) \/ Upload,
         read_jobs' = read_jobs
  PROVE  SingleInv'
<1>1. Upload' = Upload
  BY TransferSame
<1>2. /\ Len(toWriter) \in Nat \ {0} /\ Len(toWriter') = Len(toWriter) - 1 /\ Head(toWriter) = toWriter[1]
      /\ \A i \in 1 .. Len(toWriter) - 1 : toWriter'[i] = toWriter[i + 1]
  BY TailFacts DEF FileTypeOK
<1>3. ASSUME NEW j \in Jobs, NEW p \in 0 .. Len(toWriter) - 1, LiveAt(j, p)' PROVE LiveAt(j, p + 1)
  <2>1. \A i \in 1 .. p : i + 1 \in 1 .. p + 1 /\ toWriter'[i] = toWriter[i + 1]
    BY <1>2
  <2>2. \A i \in 1 .. p + 1 : i = 1 \/ (i - 1 \in 1 .. p /\ toWriter[i] = toWriter'[i - 1])
    BY <1>2
  <2>3. 1 \in 1 .. p + 1 /\ p \in Nat
    BY <1>2
  <2>4. \/ write_jobs[j] # NoJob
        \/ \E i \in 1 .. p + 1 : toWriter[i].id = j /\ toWriter[i].type = "receive"
    <3>1. CASE \E i \in 1 .. p : toWriter'[i].id = j /\ toWriter'[i].type = "receive"
      BY <3>1, <2>1
    <3>2. CASE write_jobs'[j] # NoJob
      BY <3>2, <2>3, <1>2 DEF OthersSame
    <3> QED
      BY <3>1, <3>2, <1>3 DEF LiveAt
  <2>5. ~(j = id /\ toWriter[1].type \in ClosingTypes)
    <3>1. ASSUME j = id, toWriter[1].type \in ClosingTypes PROVE FALSE
      <4>1. PICK i \in 1 .. p : toWriter'[i].id = j /\ toWriter'[i].type = "receive"
        BY <3>1, <1>2, <1>3 DEF LiveAt
      <4>2. /\ i + 1 \in 1 .. Len(toWriter) /\ toWriter[i + 1].id = id
            /\ toWriter[i + 1].type = "receive" /\ 1 \in 1 .. Len(toWriter) /\ 1 # i + 1 /\ ~(1 > i + 1)
        BY <4>1, <2>1, <1>2, <3>1
      <4> QED
        BY <4>2, <1>2 DEF Receives
    <3> QED
      BY <3>1
  <2>6. ASSUME NEW i \in 1 .. p + 1, toWriter[i].id = j PROVE toWriter[i].type \notin {"cancel", "done", "error"}
    <3>1. CASE i = 1
      BY <3>1, <2>5, <2>6, <1>2 DEF ClosingTypes
    <3>2. CASE i - 1 \in 1 .. p /\ toWriter[i] = toWriter'[i - 1]
      BY <3>2, <2>6, <1>3 DEF LiveAt
    <3> QED
      BY <3>1, <3>2, <2>2
  <2> QED
    BY <2>4, <2>6 DEF LiveAt
<1>4. ASSUME Upload, NEW p \in 0 .. Len(toWriter'), NEW j \in Jobs, NEW k \in Jobs,
             LiveAt(j, p)', LiveAt(k, p)'
      PROVE  j = k
  <2>1. p + 1 \in 0 .. Len(toWriter) /\ p \in 0 .. Len(toWriter) - 1
    BY <1>2
  <2>2. LiveAt(j, p + 1) /\ LiveAt(k, p + 1)
    BY <2>1, <1>3, <1>4
  <2> QED
    BY <2>1, <2>2, <1>4 DEF SingleInv
<1>5. ASSUME Upload, NEW j \in Jobs, NEW p, p = Len(toWriter'), LiveAt(j, p)'
      PROVE  read_jobs'[j] # NoJob /\ ~read_jobs'[j].is_last_job /\ ~read_jobs'[j].error
  <2>1. p \in 0 .. Len(toWriter) - 1 /\ p + 1 = Len(toWriter)
    BY <1>2, <1>5
  <2>2. LiveAt(j, p + 1)
    BY <2>1, <1>3, <1>5
  <2> QED
    BY <2>1, <2>2, <1>5 DEF SingleInv
<1>6. ASSUME NEW j \in Jobs, NEW k \in Jobs, Writing(j)', Writing(k)' PROVE j = k
  <2>1. CASE Upload
    <3>1. LiveAt(j, 0)' /\ LiveAt(k, 0)'
      BY <1>6 DEF Writing, LiveAt
    <3>2. 0 \in 0 .. Len(toWriter')
      BY <1>2
    <3> QED
      BY <3>1, <3>2, <1>4, <2>1
  <2>2. CASE ~Upload
    BY <2>2, <1>6 DEF SingleInv, Writing, OthersSame
  <2> QED
    BY <2>1, <2>2
<1> QED
  BY <1>1, <1>4, <1>5, <1>6 DEF SingleInv

-----------------------------------------------------------------------------
(* The reader of a job sends.                                              *)

\* Nobody owes the reader of j an answer.
Quiet(j) ==
    /\ ~Asked(j) /\ OnlyCancels(toReader, j)
    /\ \A i \in 1 .. Len(toWriter) : toWriter[i].id = j => toWriter[i].type \notin {"digest", "cancel"}

LEMMA QuietFacts ==
  ASSUME NEW j \in Jobs, JobInv(j), KindInv, read_jobs[j] # NoJob,
         read_jobs[j].stream = None \/ read_jobs[j].confirmed
  PROVE  /\ Quiet(j)
         /\ write_jobs[j] # NoJob => ~write_jobs[j].is_last_job
         /\ ~(j > started)
<1>1. ~Asked(j)
  BY DEF Asked, JobInv, Tokens, WaitsAt
<1>2. OnlyCancels(toReader, j)
  <2> SUFFICES ASSUME NEW i \in 1 .. Len(toReader), toReader[i].id = j PROVE toReader[i].type = "cancel"
    BY DEF OnlyCancels
  <2>1. toReader[i].type # "send"
    BY DEF JobInv, Sends
  <2>2. toReader[i].type \notin {"ask", "confirm"}
    BY DEF JobInv, Tokens, WaitsAt
  <2>3. toReader[i].type \in ReaderKinds
    BY DEF KindInv
  <2> QED
    BY <2>1, <2>2, <2>3 DEF ReaderKinds
<1>3. ASSUME NEW i \in 1 .. Len(toWriter), toWriter[i].id = j
      PROVE  toWriter[i].type \notin {"digest", "cancel"}
  <2>1. toWriter[i].type # "digest"
    BY <1>3 DEF JobInv, Digests, WaitsAt
  <2>2. toWriter[i].type # "cancel"
    BY <1>3 DEF JobInv, Cancels
  <2> QED
    BY <2>1, <2>2
<1>4. (write_jobs[j] # NoJob => ~write_jobs[j].is_last_job) /\ ~(j > started)
  BY DEF JobInv, Fresh
<1> QED
  BY <1>1, <1>2, <1>3, <1>4 DEF Quiet

\* The reader of id sends m and stays a job.
LEMMA EmitJob ==
  ASSUME FileTypeOK, KindInv, transfer' = transfer, NEW id \in Jobs, JobInv(id),
         NEW m \in Messages, m.id = id, toWriter' = Append(toWriter, m),
         m.type \in {"digest", "block", "error"}, toReader' = toReader,
         UNCHANGED <<source, write_jobs, download, digest, asking, started>>,
         read_jobs[id] # NoJob, read_jobs[id].stream = None \/ read_jobs[id].confirmed,
         ~read_jobs[id].is_last_job,
         read_jobs'[id] # NoJob, ~read_jobs'[id].is_last_job,
         read_jobs[id].file_num \in FileNums,
         m.type \in {"digest", "block"} => m.file_num = read_jobs[id].file_num,
         \/ /\ read_jobs'[id].stream = None /\ read_jobs'[id].file_num = read_jobs[id].file_num + 1
            /\ ~read_jobs'[id].confirmed /\ ~read_jobs'[id].waiting
            /\ m.type # "digest"
         \/ /\ read_jobs'[id].stream # None /\ read_jobs'[id].waiting
            /\ read_jobs'[id].file_num = read_jobs[id].file_num
            /\ \/ /\ m.type = "digest" /\ ~read_jobs'[id].confirmed
                  /\ read_jobs[id].stream = None /\ m.version = source[m.file_num]
               \/ m.type = "block" /\ read_jobs'[id].confirmed /\ read_jobs[id].confirmed,
         m.type = "digest" => m.file_num \notin Markers,
         m.type = "block" =>
            \/ m.file_num \in Markers
            \/ /\ read_jobs[id].stream # None
               /\ \/ m.data = <<>>
                  \/ m.data = << <<source[m.file_num], m.at + 1>> >> /\ m.at < Size[m.file_num]
  PROVE  JobInv(id)'
<1> DEFINE r == read_jobs[id]
           w == write_jobs[id]
           s == read_jobs'[id]
           n == Len(toWriter) + 1
<1>0. /\ Upload' = Upload /\ N' = N /\ FileNums' = FileNums /\ Size' = Size /\ Markers' = Markers
  BY TransferSame
<1>1. /\ Len(toWriter) \in Nat /\ Len(toWriter') = n
      /\ \A i \in 1 .. Len(toWriter) : toWriter'[i] = toWriter[i]
      /\ toWriter'[n] = m
  BY AppendFacts DEF FileTypeOK
<1>2. /\ Quiet(id)
      /\ w # NoJob => ~w.is_last_job
      /\ ~(id > started)
  BY QuietFacts
<1>3. /\ r.file_num \in FileNums /\ r.file_num \in Nat /\ s.file_num \in {r.file_num, r.file_num + 1}
      /\ N \in Nat
  BY TransferFacts DEF FileTypeOK
<1>4. /\ r.stream # None => /\ r.waiting /\ r.file_num \in FileNums \ Markers
                            /\ w = NoJob \/ w.digest = source[r.file_num]
      /\ r.stream = None => ~r.confirmed /\ ~r.waiting
  BY <1>2 DEF JobInv, Reader, Quiet
<1>5. Fresh(id)'
  BY <1>2 DEF Fresh
<1>6. Sends(id)'
  BY <1>2 DEF Sends, Quiet, OnlyCancels
<1>7. Receives(id)'
  <2> SUFFICES ASSUME NEW i \in 1 .. n, toWriter'[i].id = id, toWriter'[i].type = "receive"
               PROVE  /\ w = NoJob /\ ~Mentions(toReader, id) /\ ~Asked(id)
                      /\ \A k \in 1 .. n : toWriter'[k].id = id /\ k # i =>
                            /\ k > i /\ toWriter'[k].type \notin {"receive", "confirm"}
                            /\ toWriter'[k].type = "block" => toWriter'[k].file_num \in Markers
                      /\ s.stream # None => \E k \in 1 .. n : toWriter'[k].id = id /\ toWriter'[k].type = "digest"
    BY <1>0, <1>1 DEF Receives, Mentions, Asked
  <2>1. i \in 1 .. Len(toWriter) /\ toWriter[i].id = id /\ toWriter[i].type = "receive"
    BY <1>1
  <2>2. /\ w = NoJob /\ ~Mentions(toReader, id) /\ ~Asked(id)
        /\ \A k \in 1 .. Len(toWriter) : toWriter[k].id = id /\ k # i =>
              /\ k > i /\ toWriter[k].type \notin {"receive", "confirm"}
              /\ toWriter[k].type = "block" => toWriter[k].file_num \in Markers
        /\ r.stream # None => \E k \in 1 .. Len(toWriter) : toWriter[k].id = id /\ toWriter[k].type = "digest"
    BY <2>1 DEF JobInv, Receives
  <2>3. r.stream = None
    BY <2>2, <1>2 DEF Quiet
  <2>4. \A k \in 1 .. n : toWriter'[k].id = id /\ k # i =>
            /\ k > i /\ toWriter'[k].type \notin {"receive", "confirm"}
            /\ toWriter'[k].type = "block" => toWriter'[k].file_num \in Markers
    <3> SUFFICES ASSUME NEW k \in 1 .. n, toWriter'[k].id = id, k # i
                 PROVE  /\ k > i /\ toWriter'[k].type \notin {"receive", "confirm"}
                        /\ toWriter'[k].type = "block" => toWriter'[k].file_num \in Markers
      OBVIOUS
    <3>1. CASE k = n
      BY <3>1, <2>1, <2>3, <1>1
    <3>2. CASE k \in 1 .. Len(toWriter)
      BY <3>2, <2>2, <1>1
    <3> QED
      BY <3>1, <3>2, <1>1
  <2>5. s.stream # None => toWriter'[n].id = id /\ toWriter'[n].type = "digest" /\ n \in 1 .. n
    BY <1>1, <1>4, <2>3
  <2> QED
    BY <2>2, <2>4, <2>5
<1>8. Reader(id)'
  <2>1. m.type = "digest" => toWriter'[n].id = id /\ toWriter'[n].type = "digest" /\ n \in 1 .. Len(toWriter')
    BY <1>1
  <2> QED
    BY <2>1, <1>0, <1>3, <1>4 DEF Reader
<1>9. Digests(id)'
  <2> SUFFICES ASSUME NEW i \in 1 .. n, toWriter'[i].id = id, toWriter'[i].type = "digest"
               PROVE  /\ toWriter'[i].file_num \notin Markers
                      /\ WaitsAt(s, toWriter'[i].file_num) /\ ~Asked(id) /\ OnlyCancels(toReader, id)
                      /\ toWriter'[i].version = source[toWriter'[i].file_num]
                      /\ \A k \in 1 .. n : toWriter'[k].id = id /\ k > i => toWriter'[k].type = "cancel"
                      /\ \A k \in 1 .. n :
                            toWriter'[k].id = id /\ k < i /\ toWriter'[k].type \in {"block", "confirm"} =>
                                toWriter'[k].file_num < toWriter'[i].file_num
                      /\ Open(id) => w.file_num < toWriter'[i].file_num
    BY <1>0, <1>1 DEF Digests, Asked, Open
  <2>1. i = n /\ m.type = "digest"
    BY <1>1, <1>2 DEF Quiet
  <2>2. m.file_num = r.file_num /\ r.stream = None /\ ~r.confirmed /\ m.file_num \notin Markers
    BY <2>1, <1>4
  <2>3. ASSUME NEW k \in 1 .. n, toWriter'[k].id = id, k < i, toWriter'[k].type \in {"block", "confirm"}
        PROVE  toWriter'[k].file_num < m.file_num
    <3>1. k \in 1 .. Len(toWriter) /\ toWriter'[k] = toWriter[k]
      BY <2>1, <2>3, <1>1
    <3>2. toWriter[k].file_num <= r.file_num /\ toWriter[k].file_num # r.file_num
      BY <3>1, <2>2, <2>3 DEF JobInv, Blocks, Confirms
    <3>3. toWriter[k].file_num \in Int
      <4>1. toWriter[k] \in Messages
        BY <3>1, ElementOfSeq DEF FileTypeOK
      <4>2. toWriter[k].file_num \in FileNums
        BY <4>1, <3>1, <2>3, MessageFacts
      <4> QED
        BY <4>2 DEF FileNums
    <3> QED
      BY <3>1, <3>2, <3>3, <2>2, <1>3
  <2>4. Open(id) => w.file_num < m.file_num
    <3>1. ASSUME Open(id) PROVE w.file_num <= r.file_num /\ w.file_num # r.file_num /\ w.file_num \in Int
      BY <3>1, <2>2 DEF JobInv, Opens, Open, FileTypeOK, WriteJobs
    <3> QED
      BY <3>1, <2>2, <1>3
  <2> QED
    BY <2>1, <2>2, <2>3, <2>4, <1>1, <1>2 DEF Quiet, WaitsAt
<1>10. Tokens(id)'
  BY <1>0, <1>2 DEF Tokens, Quiet, OnlyCancels, Asked
<1>11. Asks(id)'
  BY <1>2 DEF Asks, Quiet, OnlyCancels
<1>12. Confirms(id)'
  <2> SUFFICES ASSUME NEW i \in 1 .. Len(toWriter), toWriter[i].id = id, toWriter[i].type = "confirm"
               PROVE  /\ toWriter[i].file_num \notin Markers
                      /\ Ready(w, download[toWriter[i].file_num], digest[toWriter[i].file_num],
                               toWriter[i].offset)
                      /\ \A k \in 1 .. i - 1 : toWriter'[k].id # id
                      /\ toWriter[i].file_num <= s.file_num
                      /\ toWriter[i].file_num = s.file_num => s.stream # None
    BY <1>0, <1>1 DEF Confirms
  <2>1. /\ toWriter[i].file_num \notin Markers
        /\ Ready(w, download[toWriter[i].file_num], digest[toWriter[i].file_num], toWriter[i].offset)
        /\ \A k \in 1 .. i - 1 : toWriter[k].id # id
        /\ toWriter[i].file_num <= r.file_num
        /\ toWriter[i].file_num = r.file_num => r.stream # None
    BY DEF JobInv, Confirms
  <2>2. \A k \in 1 .. i - 1 : toWriter'[k] = toWriter[k]
    BY <1>1
  <2>3. toWriter[i].file_num \in Int
    <3>1. toWriter[i] \in Messages
      BY ElementOfSeq DEF FileTypeOK
    <3>2. toWriter[i].file_num \in FileNums
      BY <3>1, MessageFacts
    <3> QED
      BY <3>2 DEF FileNums
  <2> QED
    BY <2>1, <2>2, <2>3, <1>3
<1>13. Blocks(id)'
  <2> SUFFICES ASSUME NEW i \in 1 .. n, toWriter'[i].id = id, toWriter'[i].type = "block"
               PROVE  /\ toWriter'[i].file_num <= s.file_num
                      /\ toWriter'[i].file_num \notin Markers =>
                            /\ toWriter'[i].file_num = s.file_num => s.confirmed
                            /\ toWriter'[i].data # <<>> => toWriter'[i].at < Size[toWriter'[i].file_num]
                            /\ w # NoJob =>
                                  /\ w.digest >= 1
                                  /\ \/ toWriter'[i].data = <<>>
                                     \/ toWriter'[i].data = << <<w.digest, toWriter'[i].at + 1>> >>
    BY <1>0, <1>1 DEF Blocks
  <2>1. CASE i = n
    <3>1. m.file_num = r.file_num /\ source[r.file_num] \in Int /\ source[r.file_num] >= 1
      BY <2>1, <1>1, <1>3 DEF FileTypeOK
    <3>2. r.file_num # r.file_num + 1
      BY <1>3
    <3> QED
      BY <3>1, <3>2, <2>1, <1>1, <1>3, <1>4
  <2>2. CASE i \in 1 .. Len(toWriter)
    <3>1. toWriter'[i] = toWriter[i]
      BY <2>2, <1>1
    <3>2. toWriter[i].file_num \in Int
      <4>1. toWriter[i] \in Messages
        BY <2>2, ElementOfSeq DEF FileTypeOK
      <4>2. toWriter[i].file_num \in FileNums
        BY <4>1, <3>1, MessageFacts
      <4> QED
        BY <4>2 DEF FileNums
    <3>3. toWriter[i].file_num <= s.file_num /\ (toWriter[i].file_num = s.file_num => s.file_num = r.file_num)
      BY <2>2, <3>1, <3>2, <1>3 DEF JobInv, Blocks
    <3>4. toWriter[i].file_num \notin Markers =>
                            /\ toWriter[i].file_num = r.file_num => r.confirmed
                            /\ toWriter[i].data # <<>> => toWriter[i].at < Size[toWriter[i].file_num]
                            /\ w # NoJob =>
                                  /\ w.digest >= 1
                                  /\ \/ toWriter[i].data = <<>>
                                     \/ toWriter[i].data = << <<w.digest, toWriter[i].at + 1>> >>
      BY <2>2, <3>1 DEF JobInv, Blocks
    <3>5. s.file_num = r.file_num /\ r.confirmed => s.confirmed
      BY <1>3, <1>4
    <3> QED
      BY <3>1, <3>3, <3>4, <3>5
  <2> QED
    BY <2>1, <2>2, <1>1
<1>14. Opens(id)'
  <2> SUFFICES ASSUME Open(id)
               PROVE  /\ w.file_num < N /\ download[w.file_num] # Absent
                      /\ w.stream <= Len(download[w.file_num])
                      /\ \/ digest[w.file_num] = w.digest
                         \/ Passed(toWriter', s, id, w.file_num)
                      /\ w.file_num <= s.file_num
                      /\ w.file_num = s.file_num => s.stream # None
    BY <1>0 DEF Opens, Open
  <2>1. /\ w.file_num < N /\ download[w.file_num] # Absent
        /\ w.stream <= Len(download[w.file_num])
        /\ digest[w.file_num] = w.digest \/ Passed(toWriter, r, id, w.file_num)
        /\ w.file_num <= r.file_num
        /\ w.file_num = r.file_num => r.stream # None
    BY DEF JobInv, Opens
  <2>2. w.file_num \in Int
    BY DEF FileTypeOK, WriteJobs, Open
  <2>3. ASSUME Passed(toWriter, r, id, w.file_num) PROVE Passed(toWriter', s, id, w.file_num)
    <3>1. r.file_num > w.file_num
      BY <2>3 DEF Passed
    <3>2. s.file_num > w.file_num
      BY <3>1, <1>3, <2>2
    <3>3. ASSUME NEW i \in 1 .. n, toWriter'[i].id = id, toWriter'[i].type = "block"
          PROVE  toWriter'[i].file_num # w.file_num
      <4>1. CASE i = n
        BY <4>1, <3>1, <3>3, <1>1, <1>3, <2>2
      <4>2. CASE i \in 1 .. Len(toWriter)
        BY <4>2, <3>3, <2>3, <1>1 DEF Passed
      <4> QED
        BY <4>1, <4>2, <1>1
    <3> QED
      BY <3>2, <3>3, <1>1 DEF Passed
  <2>4. w.file_num <= s.file_num /\ (w.file_num = s.file_num => s.file_num = r.file_num)
    BY <2>1, <2>2, <1>3
  <2> QED
    BY <2>1, <2>3, <2>4, <1>3
<1>15. Cancels(id)'
  BY <1>1, <1>2 DEF Cancels, Quiet
<1> QED
  BY <1>5, <1>6, <1>7, <1>8, <1>9, <1>10, <1>11, <1>12, <1>13, <1>14, <1>15 DEF JobInv

-----------------------------------------------------------------------------
(* A job ends at one side.                                                 *)

\* A queue stays or loses its head.
Taken(q, p) == p = q \/ (q # <<>> /\ p = Tail(q))

LEMMA TakenFacts ==
  ASSUME NEW q \in Seq(Messages), NEW p, Taken(q, p)
  PROVE  /\ Len(q) \in Nat /\ Len(p) \in Nat /\ p \in Seq(Messages)
         /\ \E d \in {0, 1} : \A i \in 1 .. Len(p) : i + d \in 1 .. Len(q) /\ p[i] = q[i + d]
         /\ \A j : /\ Mentions(p, j) => Mentions(q, j)
                   /\ OnlyCancels(q, j) => OnlyCancels(p, j)
<1>1. Len(q) \in Nat
  BY LenProperties
<1>2. CASE p = q
  <2>1. \A i \in 1 .. Len(p) : i + 0 \in 1 .. Len(q) /\ p[i] = q[i + 0]
    BY <1>1, <1>2
  <2> QED
    BY <2>1, <1>1, <1>2
<1>3. CASE q # <<>> /\ p = Tail(q)
  <2>1. /\ Len(q) \in Nat \ {0} /\ p \in Seq(Messages) /\ Len(p) = Len(q) - 1
        /\ \A i \in 1 .. Len(q) - 1 : p[i] = q[i + 1]
    BY <1>3, TailFacts
  <2>2. \A i \in 1 .. Len(p) : i + 1 \in 1 .. Len(q) /\ p[i] = q[i + 1]
    BY <2>1
  <2>3. \A j : Mentions(p, j) => Mentions(q, j)
    BY <2>2 DEF Mentions
  <2>4. \A j : OnlyCancels(q, j) => OnlyCancels(p, j)
    BY <2>2 DEF OnlyCancels
  <2> QED
    BY <2>1, <2>2, <2>3, <2>4
<1> QED
  BY <1>2, <1>3 DEF Taken

\* The reader of id is no job now; it may send m last.
LEMMA ReaderEnds ==
  ASSUME FileTypeOK, KindInv, transfer' = transfer, NEW id \in Jobs, JobInv(id),
         Taken(toReader, toReader'),
         \/ toWriter' = toWriter
         \/ /\ \E m \in Messages :
                 /\ m.id = id /\ toWriter' = Append(toWriter, m)
                 /\ \/ m.type = "cancel" /\ Upload
                    \/ /\ m.type \in {"done", "error"} /\ ~Asked(id) /\ OnlyCancels(toReader', id)
                       /\ \A i \in 1 .. Len(toWriter) : toWriter[i].id = id => toWriter[i].type # "digest"
            /\ read_jobs[id] # NoJob \/ Mentions(toReader, id),
         UNCHANGED <<write_jobs, download, digest, started>>,
         asking' \subseteq asking, read_jobs'[id] = NoJob
  PROVE  JobInv(id)'
<1>0. /\ Upload' = Upload /\ N' = N /\ FileNums' = FileNums /\ Size' = Size /\ Markers' = Markers
  BY TransferSame
<1> DEFINE w == write_jobs[id]
<1>1. PICK d \in {0, 1} : \A i \in 1 .. Len(toReader') : i + d \in 1 .. Len(toReader) /\ toReader'[i] = toReader[i + d]
  BY TakenFacts DEF FileTypeOK
<1>2. /\ Mentions(toReader', id) => Mentions(toReader, id)
      /\ OnlyCancels(toReader, id) => OnlyCancels(toReader', id)
      /\ Len(toReader') \in Nat /\ Len(toReader) \in Nat
  BY TakenFacts DEF FileTypeOK
<1>3. Asked(id)' => Asked(id)
  BY <1>0 DEF Asked
<1>4. PICK n \in Nat : /\ n = Len(toWriter) /\ n <= Len(toWriter')
                       /\ \A i \in 1 .. n : toWriter'[i] = toWriter[i]
                       /\ \/ Len(toWriter') = n
                          \/ /\ Len(toWriter') = n + 1
                             /\ read_jobs[id] # NoJob \/ Mentions(toReader, id)
                             /\ toWriter'[n + 1].id = id
                             /\ \/ toWriter'[n + 1].type = "cancel" /\ Upload
                                \/ /\ toWriter'[n + 1].type \in {"done", "error"} /\ ~Asked(id)
                                   /\ OnlyCancels(toReader', id)
                                   /\ \A i \in 1 .. n : toWriter[i].id = id => toWriter[i].type # "digest"
  <2>1. toWriter \in Seq(Messages) /\ Len(toWriter) \in Nat
    BY LenProperties DEF FileTypeOK
  <2>2. CASE toWriter' = toWriter
    BY <2>1, <2>2
  <2>3. CASE toWriter' # toWriter
    <3>1. PICK m \in Messages :
                 /\ m.id = id /\ toWriter' = Append(toWriter, m)
                 /\ read_jobs[id] # NoJob \/ Mentions(toReader, id)
                 /\ \/ m.type = "cancel" /\ Upload
                    \/ /\ m.type \in {"done", "error"} /\ ~Asked(id) /\ OnlyCancels(toReader', id)
                       /\ \A i \in 1 .. Len(toWriter) : toWriter[i].id = id => toWriter[i].type # "digest"
      BY <2>3
    <3>2. /\ Len(toWriter') = Len(toWriter) + 1
          /\ \A i \in 1 .. Len(toWriter) : toWriter'[i] = toWriter[i]
          /\ toWriter'[Len(toWriter) + 1] = m
      BY <3>1, <2>1, AppendFacts
    <3> QED
      BY <3>1, <3>2, <2>1
  <2> QED
    BY <2>2, <2>3
<1>5. \A i \in 1 .. Len(toWriter') : i \in 1 .. n \/ (i = n + 1 /\ Len(toWriter') = n + 1)
  BY <1>4
<1>6. ASSUME NEW i \in 1 .. Len(toWriter'), toWriter'[i].id = id, toWriter'[i].type \notin {"cancel", "done", "error"}
      PROVE  i \in 1 .. n /\ i \in 1 .. Len(toWriter) /\ toWriter'[i] = toWriter[i]
  BY <1>4, <1>5, <1>6
<1>7. Fresh(id)'
  <2>1. Len(toWriter') = n => (Mentions(toWriter, id)' => Mentions(toWriter, id))
    BY <1>4 DEF Mentions
  <2>2. Len(toWriter') = n => (Untouched(id) => Untouched(id)')
    BY <2>1, <1>2, <1>3 DEF Untouched
  <2>3. Len(toWriter') # n => ~(id > started) /\ (w # NoJob => ~w.is_last_job)
    BY <1>4 DEF JobInv, Fresh, Untouched
  <2> QED
    BY <2>2, <2>3, <1>0 DEF JobInv, Fresh
<1>8. Sends(id)'
  <2> SUFFICES ASSUME NEW i \in 1 .. Len(toReader'), toReader'[i].id = id, toReader'[i].type = "send"
               PROVE  /\ read_jobs'[id] = NoJob /\ ~Mentions(toWriter', id) /\ ~Asked(id)'
                      /\ \A k \in 1 .. Len(toReader') : toReader'[k].id = id /\ k # i => toReader'[k].type = "cancel"
                      /\ write_jobs'[id] # NoJob => write_jobs'[id].stream = None
    BY DEF Sends
  <2>1. /\ ~Mentions(toWriter, id) /\ ~Asked(id)
        /\ \A k \in 1 .. Len(toReader) : toReader[k].id = id /\ k # i + d => toReader[k].type = "cancel"
        /\ write_jobs[id] # NoJob => write_jobs[id].stream = None
        /\ ~Upload
    BY <1>1 DEF JobInv, Sends, KindInv, ReaderKinds
  <2>2. ASSUME NEW k \in 1 .. Len(toReader'), toReader'[k].id = id, k # i PROVE toReader'[k].type = "cancel"
    <3>1. k + d \in 1 .. Len(toReader) /\ toReader'[k] = toReader[k + d] /\ k + d # i + d
      BY <1>1, <2>2
    <3> QED
      BY <3>1, <2>1, <2>2
  <2>3. ~OnlyCancels(toReader', id)
    BY DEF OnlyCancels
  <2>4. Len(toWriter') = n
    BY <1>4, <2>1, <2>3
  <2>5. ~Mentions(toWriter', id)
    BY <2>1, <2>4, <1>4 DEF Mentions
  <2> QED
    BY <2>1, <2>2, <2>5, <1>3
<1>9. Receives(id)'
  <2> SUFFICES ASSUME NEW i \in 1 .. Len(toWriter'), toWriter'[i].id = id, toWriter'[i].type = "receive"
               PROVE  /\ w = NoJob /\ ~Mentions(toReader', id) /\ ~Asked(id)'
                      /\ \A k \in 1 .. Len(toWriter') : toWriter'[k].id = id /\ k # i =>
                            /\ k > i /\ toWriter'[k].type \notin {"receive", "confirm"}
                            /\ toWriter'[k].type = "block" => toWriter'[k].file_num \in Markers
    BY <1>0 DEF Receives
  <2>1. i \in 1 .. Len(toWriter) /\ toWriter[i].id = id /\ toWriter[i].type = "receive"
    BY <1>6
  <2>2. /\ w = NoJob /\ ~Mentions(toReader, id) /\ ~Asked(id)
        /\ \A k \in 1 .. Len(toWriter) : toWriter[k].id = id /\ k # i =>
              /\ k > i /\ toWriter[k].type \notin {"receive", "confirm"}
              /\ toWriter[k].type = "block" => toWriter[k].file_num \in Markers
    BY <2>1 DEF JobInv, Receives
  <2>3. \A k \in 1 .. Len(toWriter') : toWriter'[k].id = id /\ k # i =>
            /\ k > i /\ toWriter'[k].type \notin {"receive", "confirm"}
            /\ toWriter'[k].type = "block" => toWriter'[k].file_num \in Markers
    <3> SUFFICES ASSUME NEW k \in 1 .. Len(toWriter'), toWriter'[k].id = id, k # i
                 PROVE  /\ k > i /\ toWriter'[k].type \notin {"receive", "confirm"}
                        /\ toWriter'[k].type = "block" => toWriter'[k].file_num \in Markers
      OBVIOUS
    <3>1. CASE k = n + 1 /\ Len(toWriter') = n + 1
      BY <3>1, <2>1, <1>4
    <3>2. CASE k \in 1 .. n
      BY <3>2, <2>2, <1>4
    <3> QED
      BY <3>1, <3>2, <1>5
  <2> QED
    BY <2>2, <2>3, <1>2, <1>3
<1>10. Reader(id)'
  BY DEF Reader
<1>11. Digests(id)'
  <2> SUFFICES ASSUME NEW i \in 1 .. Len(toWriter'), toWriter'[i].id = id, toWriter'[i].type = "digest"
               PROVE  /\ toWriter'[i].file_num \notin Markers
                      /\ ~Asked(id)' /\ OnlyCancels(toReader', id)
                      /\ \A k \in 1 .. Len(toWriter') : toWriter'[k].id = id /\ k > i => toWriter'[k].type = "cancel"
                      /\ \A k \in 1 .. Len(toWriter') :
                            toWriter'[k].id = id /\ k < i /\ toWriter'[k].type \in {"block", "confirm"} =>
                                toWriter'[k].file_num < toWriter'[i].file_num
                      /\ Open(id) => w.file_num < toWriter'[i].file_num
    BY <1>0 DEF Digests, Open, WaitsAt
  <2>1. i \in 1 .. n /\ i \in 1 .. Len(toWriter) /\ toWriter'[i] = toWriter[i]
    BY <1>6
  <2>2. /\ toWriter[i].file_num \notin Markers
        /\ ~Asked(id) /\ OnlyCancels(toReader, id)
        /\ \A k \in 1 .. Len(toWriter) : toWriter[k].id = id /\ k > i => toWriter[k].type = "cancel"
        /\ \A k \in 1 .. Len(toWriter) :
              toWriter[k].id = id /\ k < i /\ toWriter[k].type \in {"block", "confirm"} =>
                  toWriter[k].file_num < toWriter[i].file_num
        /\ Open(id) => w.file_num < toWriter[i].file_num
    BY <2>1 DEF JobInv, Digests
  <2>3. ASSUME NEW k \in 1 .. Len(toWriter'), toWriter'[k].id = id, k > i PROVE toWriter'[k].type = "cancel"
    <3>1. CASE k = n + 1 /\ Len(toWriter') = n + 1
      BY <3>1, <2>1, <1>4
    <3>2. CASE k \in 1 .. n
      BY <3>2, <2>2, <2>3, <1>4
    <3> QED
      BY <3>1, <3>2, <1>5
  <2>4. ASSUME NEW k \in 1 .. Len(toWriter'), toWriter'[k].id = id, k < i, toWriter'[k].type \in {"block", "confirm"}
        PROVE  toWriter'[k].file_num < toWriter[i].file_num
    <3>1. k \in 1 .. Len(toWriter) /\ toWriter'[k] = toWriter[k]
      BY <2>4, <1>6
    <3> QED
      BY <3>1, <2>2, <2>4
  <2> QED
    BY <2>1, <2>2, <2>3, <2>4, <1>2, <1>3
<1>12. Tokens(id)'
  <2>1. OnlyCancels(toWriter, id) /\ (Asked(id) \/ ~OnlyCancels(toReader', id)) => OnlyCancels(toWriter', id)
    <3> SUFFICES ASSUME OnlyCancels(toWriter, id), Asked(id) \/ ~OnlyCancels(toReader', id),
                        NEW k \in 1 .. Len(toWriter'), toWriter'[k].id = id
                 PROVE  toWriter'[k].type = "cancel"
      BY DEF OnlyCancels
    <3>1. CASE k = n + 1 /\ Len(toWriter') = n + 1
      BY <3>1, <1>4
    <3>2. CASE k \in 1 .. n
      BY <3>2, <1>4 DEF OnlyCancels
    <3> QED
      BY <3>1, <3>2, <1>5
  <2>2. ASSUME NEW i \in 1 .. Len(toReader'), toReader'[i].id = id, toReader'[i].type \in {"ask", "confirm"}
        PROVE  /\ toReader'[i].file_num \notin Markers /\ ~Asked(id)' /\ OnlyCancels(toWriter', id)
               /\ \A k \in 1 .. Len(toReader') : toReader'[k].id = id /\ k # i => toReader'[k].type = "cancel"
    <3>1. /\ toReader[i + d].file_num \notin Markers /\ ~Asked(id) /\ OnlyCancels(toWriter, id)
          /\ \A k \in 1 .. Len(toReader) : toReader[k].id = id /\ k # i + d => toReader[k].type = "cancel"
      BY <2>2, <1>1 DEF JobInv, Tokens
    <3>2. \A k \in 1 .. Len(toReader') : toReader'[k].id = id /\ k # i => toReader'[k].type = "cancel"
      BY <3>1, <1>1
    <3>3. ~OnlyCancels(toReader', id)
      BY <2>2 DEF OnlyCancels
    <3>4. toReader'[i] = toReader[i + d]
      BY <1>1
    <3> QED
      BY <3>1, <3>2, <3>3, <3>4, <2>1, <1>3
  <2>3. ASSUME NEW f \in FileNums, <<id, f>> \in asking'
        PROVE  /\ f \notin Markers /\ OnlyCancels(toWriter', id)
               /\ \A g \in FileNums : <<id, g>> \in asking' => g = f
    <3>1. <<id, f>> \in asking /\ Asked(id)
      BY <2>3 DEF Asked
    <3> QED
      BY <3>1, <2>1 DEF JobInv, Tokens
  <2> QED
    BY <2>2, <2>3, <1>0 DEF Tokens, WaitsAt
<1>13. Asks(id)'
  BY <1>1 DEF JobInv, Asks
<1>14. Confirms(id)'
  <2> SUFFICES ASSUME NEW i \in 1 .. Len(toWriter'), toWriter'[i].id = id, toWriter'[i].type = "confirm"
               PROVE  /\ toWriter'[i].file_num \notin Markers
                      /\ Ready(w, download[toWriter'[i].file_num], digest[toWriter'[i].file_num],
                               toWriter'[i].offset)
                      /\ \A k \in 1 .. i - 1 : toWriter'[k].id # id
    BY <1>0 DEF Confirms
  <2>1. i \in 1 .. Len(toWriter) /\ i \in 1 .. n /\ toWriter[i] = toWriter'[i]
    BY <1>6
  <2>2. \A k \in 1 .. i - 1 : k \in 1 .. n
    BY <2>1
  <2> QED
    BY <2>1, <2>2, <1>4 DEF JobInv, Confirms
<1>15. Blocks(id)'
  <2>1. ASSUME NEW i \in 1 .. Len(toWriter'), toWriter'[i].id = id, toWriter'[i].type = "block"
        PROVE  i \in 1 .. Len(toWriter) /\ toWriter[i] = toWriter'[i]
    BY <1>6, <2>1
  <2> QED
    BY <2>1, <1>0 DEF JobInv, Blocks
<1>16. Opens(id)'
  <2>1. ASSUME NEW i \in 1 .. Len(toWriter'), toWriter'[i].id = id, toWriter'[i].type = "block"
        PROVE  i \in 1 .. Len(toWriter) /\ toWriter[i] = toWriter'[i]
    BY <1>6, <2>1
  <2>2. \A f : Passed(toWriter, read_jobs[id], id, f) => Passed(toWriter', read_jobs'[id], id, f)
    BY <2>1 DEF Passed
  <2> QED
    BY <2>2, <1>0 DEF JobInv, Opens, Open
<1>17. Cancels(id)'
  BY DEF Cancels
<1> QED
  BY <1>7, <1>8, <1>9, <1>10, <1>11, <1>12, <1>13, <1>14, <1>15, <1>16, <1>17 DEF JobInv

\* The writer of id is no job now; it may tell so.
LEMMA WriterEnds ==
  ASSUME FileTypeOK, KindInv, transfer' = transfer, NEW id \in Jobs, JobInv(id),
         \/ /\ toWriter # <<>> /\ Head(toWriter).id = id
            /\ toWriter' = Tail(toWriter) /\ toReader' = toReader
         \/ /\ ~Upload /\ write_jobs[id] # NoJob /\ toWriter' = toWriter
            /\ \E m \in Messages : m.id = id /\ m.type = "cancel" /\ toReader' = Append(toReader, m),
         UNCHANGED <<source, read_jobs, started>>,
         asking' \subseteq asking, write_jobs'[id] = NoJob
  PROVE  JobInv(id)'
<1>0. /\ Upload' = Upload /\ N' = N /\ FileNums' = FileNums /\ Size' = Size /\ Markers' = Markers
  BY TransferSame
<1> DEFINE r == read_jobs[id]
<1>q. Taken(toWriter, toWriter')
  BY DEF Taken
<1>1. PICK d \in {0, 1} : \A i \in 1 .. Len(toWriter') : i + d \in 1 .. Len(toWriter) /\ toWriter'[i] = toWriter[i + d]
  BY <1>q, TakenFacts DEF FileTypeOK
<1>2. /\ Mentions(toWriter', id) => Mentions(toWriter, id)
      /\ OnlyCancels(toWriter, id) => OnlyCancels(toWriter', id)
      /\ Len(toWriter') \in Nat /\ Len(toWriter) \in Nat
  BY <1>q, TakenFacts DEF FileTypeOK
<1>3. Asked(id)' => Asked(id)
  BY <1>0 DEF Asked
<1>4. PICK n \in Nat : /\ n = Len(toReader) /\ n <= Len(toReader')
                       /\ \A i \in 1 .. n : toReader'[i] = toReader[i]
                       /\ \/ Len(toReader') = n /\ toReader' = toReader
                          \/ /\ Len(toReader') = n + 1
                             /\ write_jobs[id] # NoJob /\ ~Upload
                             /\ toReader'[n + 1].id = id /\ toReader'[n + 1].type = "cancel"
  <2>1. toReader \in Seq(Messages) /\ Len(toReader) \in Nat
    BY LenProperties DEF FileTypeOK
  <2>2. CASE toReader' = toReader
    <3>1. /\ Len(toReader') = Len(toReader)
          /\ \A i \in 1 .. Len(toReader) : toReader'[i] = toReader[i]
      BY <2>2
    <3> WITNESS Len(toReader) \in Nat
    <3> QED
      BY <3>1, <2>1, <2>2
  <2>3. CASE toReader' # toReader
    <3>1. PICK m \in Messages : /\ m.id = id /\ m.type = "cancel" /\ toReader' = Append(toReader, m)
                                /\ write_jobs[id] # NoJob /\ ~Upload
      BY <2>3
    <3>2. /\ Len(toReader') = Len(toReader) + 1
          /\ \A i \in 1 .. Len(toReader) : toReader'[i] = toReader[i]
          /\ toReader'[Len(toReader) + 1] = m
      BY <3>1, <2>1, AppendFacts
    <3> QED
      BY <3>1, <3>2, <2>1
  <2> QED
    BY <2>2, <2>3
<1>5. \A i \in 1 .. Len(toReader') : i \in 1 .. n \/ (i = n + 1 /\ Len(toReader') = n + 1)
  BY <1>4
<1>6. ASSUME NEW i \in 1 .. Len(toReader'), toReader'[i].id = id, toReader'[i].type # "cancel"
      PROVE  i \in 1 .. Len(toReader) /\ toReader'[i] = toReader[i]
  BY <1>4, <1>5, <1>6
<1>7. Fresh(id)'
  <2>1. Len(toReader') = n => (Untouched(id) => Untouched(id)')
    BY <1>2, <1>3, <1>4 DEF Untouched
  <2>2. Len(toReader') # n => ~(id > started) /\ ~(r # NoJob /\ r.is_last_job)
    BY <1>4 DEF JobInv, Fresh
  <2> QED
    BY <2>1, <2>2, <1>0 DEF JobInv, Fresh
<1>8. Sends(id)'
  <2> SUFFICES ASSUME NEW i \in 1 .. Len(toReader'), toReader'[i].id = id, toReader'[i].type = "send"
               PROVE  /\ r = NoJob /\ ~Mentions(toWriter', id) /\ ~Asked(id)'
                      /\ \A k \in 1 .. Len(toReader') : toReader'[k].id = id /\ k # i => toReader'[k].type = "cancel"
    BY DEF Sends
  <2>1. i \in 1 .. Len(toReader) /\ toReader'[i] = toReader[i]
    BY <1>6
  <2>2. /\ r = NoJob /\ ~Mentions(toWriter, id) /\ ~Asked(id)
        /\ \A k \in 1 .. Len(toReader) : toReader[k].id = id /\ k # i => toReader[k].type = "cancel"
    BY <2>1 DEF JobInv, Sends
  <2>3. \A k \in 1 .. Len(toReader') : toReader'[k].id = id /\ k # i => toReader'[k].type = "cancel"
    BY <2>2, <1>6
  <2> QED
    BY <2>2, <2>3, <1>2, <1>3
<1>9. Receives(id)'
  <2> SUFFICES ASSUME NEW i \in 1 .. Len(toWriter'), toWriter'[i].id = id, toWriter'[i].type = "receive"
               PROVE  FALSE
    BY DEF Receives
  <2>1. CASE toReader' = toReader /\ toWriter # <<>> /\ Head(toWriter).id = id /\ toWriter' = Tail(toWriter)
    <3>1. /\ Len(toWriter') = Len(toWriter) - 1 /\ Len(toWriter) >= 1 /\ Head(toWriter) = toWriter[1]
          /\ \A k \in 1 .. Len(toWriter) - 1 : toWriter'[k] = toWriter[k + 1]
      BY <2>1, TailFacts DEF FileTypeOK
    <3>2. /\ 1 \in 1 .. Len(toWriter) /\ i + 1 \in 1 .. Len(toWriter) /\ toWriter[1].id = id
          /\ toWriter[i + 1].id = id /\ toWriter[i + 1].type = "receive" /\ 1 # i + 1 /\ ~(1 > i + 1)
      BY <3>1, <2>1, <1>2
    <3> QED
      BY <3>2 DEF JobInv, Receives
  <2>2. CASE ~Upload
    <3>1. toWriter[i + d].type = "receive" /\ i + d \in 1 .. Len(toWriter)
      BY <1>1
    <3> QED
      BY <3>1, <2>2 DEF KindInv, WriterKinds
  <2> QED
    BY <2>1, <2>2
<1>10. Reader(id)'
  BY <1>0 DEF JobInv, Reader
<1>11. Digests(id)'
  <2> SUFFICES ASSUME NEW i \in 1 .. Len(toWriter'), toWriter'[i].id = id, toWriter'[i].type = "digest"
               PROVE  /\ toWriter'[i].file_num \notin Markers /\ WaitsAt(r, toWriter'[i].file_num)
                      /\ ~Asked(id)' /\ OnlyCancels(toReader', id)
                      /\ r # NoJob => toWriter'[i].version = source[toWriter'[i].file_num]
                      /\ \A k \in 1 .. Len(toWriter') : toWriter'[k].id = id /\ k > i => toWriter'[k].type = "cancel"
                      /\ \A k \in 1 .. Len(toWriter') :
                            toWriter'[k].id = id /\ k < i /\ toWriter'[k].type \in {"block", "confirm"} =>
                                toWriter'[k].file_num < toWriter'[i].file_num
    BY <1>0 DEF Digests, Open
  <2>1. i + d \in 1 .. Len(toWriter) /\ toWriter'[i] = toWriter[i + d]
    BY <1>1
  <2>2. /\ toWriter[i + d].file_num \notin Markers /\ WaitsAt(r, toWriter[i + d].file_num)
        /\ ~Asked(id) /\ OnlyCancels(toReader, id)
        /\ r # NoJob => toWriter[i + d].version = source[toWriter[i + d].file_num]
        /\ \A k \in 1 .. Len(toWriter) : toWriter[k].id = id /\ k > i + d => toWriter[k].type = "cancel"
        /\ \A k \in 1 .. Len(toWriter) :
              toWriter[k].id = id /\ k < i + d /\ toWriter[k].type \in {"block", "confirm"} =>
                  toWriter[k].file_num < toWriter[i + d].file_num
    BY <2>1 DEF JobInv, Digests
  <2>3. ASSUME NEW k \in 1 .. Len(toWriter'), toWriter'[k].id = id
        PROVE  /\ k > i => toWriter'[k].type = "cancel"
               /\ k < i /\ toWriter'[k].type \in {"block", "confirm"} =>
                      toWriter'[k].file_num < toWriter'[i].file_num
    <3>1. k + d \in 1 .. Len(toWriter) /\ toWriter'[k] = toWriter[k + d]
      BY <1>1
    <3>2. (k > i => k + d > i + d) /\ (k < i => k + d < i + d)
      OBVIOUS
    <3> QED
      BY <3>1, <3>2, <2>1, <2>2, <2>3
  <2>4. OnlyCancels(toReader', id)
    BY <2>2, <1>6 DEF OnlyCancels
  <2> QED
    BY <2>1, <2>2, <2>3, <2>4, <1>3
<1>12. Tokens(id)'
  <2>1. ASSUME NEW i \in 1 .. Len(toReader'), toReader'[i].id = id, toReader'[i].type \in {"ask", "confirm"}
        PROVE  /\ toReader'[i].file_num \notin Markers /\ WaitsAt(r, toReader'[i].file_num)
               /\ ~Asked(id)' /\ OnlyCancels(toWriter', id)
               /\ \A k \in 1 .. Len(toReader') : toReader'[k].id = id /\ k # i => toReader'[k].type = "cancel"
    <3>1. i \in 1 .. Len(toReader) /\ toReader'[i] = toReader[i]
      BY <2>1, <1>6
    <3>2. /\ toReader[i].file_num \notin Markers /\ WaitsAt(r, toReader[i].file_num)
          /\ ~Asked(id) /\ OnlyCancels(toWriter, id)
          /\ \A k \in 1 .. Len(toReader) : toReader[k].id = id /\ k # i => toReader[k].type = "cancel"
      BY <3>1, <2>1 DEF JobInv, Tokens
    <3>3. \A k \in 1 .. Len(toReader') : toReader'[k].id = id /\ k # i => toReader'[k].type = "cancel"
      BY <3>2, <1>6
    <3> QED
      BY <3>1, <3>2, <3>3, <1>2, <1>3
  <2>2. ASSUME NEW f \in FileNums, <<id, f>> \in asking'
        PROVE  /\ f \notin Markers /\ WaitsAt(r, f) /\ OnlyCancels(toWriter', id)
               /\ \A g \in FileNums : <<id, g>> \in asking' => g = f
    BY <2>2, <1>2 DEF JobInv, Tokens
  <2> QED
    BY <2>1, <2>2, <1>0 DEF Tokens
<1>13. Asks(id)'
  BY DEF Asks, Ready
<1>14. Confirms(id)'
  <2> SUFFICES ASSUME NEW i \in 1 .. Len(toWriter'), toWriter'[i].id = id, toWriter'[i].type = "confirm"
               PROVE  /\ toWriter'[i].file_num \notin Markers
                      /\ \A k \in 1 .. i - 1 : toWriter'[k].id # id
                      /\ r # NoJob => /\ toWriter'[i].file_num <= r.file_num
                                      /\ toWriter'[i].file_num = r.file_num => r.stream # None
    BY <1>0 DEF Confirms, Ready
  <2>1. /\ i + d \in 1 .. Len(toWriter) /\ toWriter[i + d] = toWriter'[i]
        /\ \A k \in 1 .. i - 1 : k \in 1 .. Len(toWriter') /\ k + d \in 1 .. i + d - 1 
    BY <1>1
  <2>2. /\ toWriter'[i].file_num \notin Markers
        /\ \A k \in 1 .. i + d - 1 : toWriter[k].id # id
        /\ r # NoJob => /\ toWriter'[i].file_num <= r.file_num
                        /\ toWriter'[i].file_num = r.file_num => r.stream # None
    BY <2>1 DEF JobInv, Confirms
  <2> QED
    BY <2>1, <2>2, <1>1
<1>15. Blocks(id)'
  <2> SUFFICES ASSUME NEW i \in 1 .. Len(toWriter'), toWriter'[i].id = id, toWriter'[i].type = "block"
               PROVE  /\ r # NoJob => toWriter'[i].file_num <= r.file_num
                      /\ toWriter'[i].file_num \notin Markers =>
                            /\ r # NoJob /\ toWriter'[i].file_num = r.file_num => r.confirmed
                            /\ toWriter'[i].data # <<>> => toWriter'[i].at < Size[toWriter'[i].file_num]
    BY <1>0 DEF Blocks
  <2>1. i + d \in 1 .. Len(toWriter) /\ toWriter[i + d] = toWriter'[i]
    BY <1>1
  <2>2. Blocks(id)
    BY DEF JobInv
  <2> QED
    BY <2>1, <2>2 DEF Blocks
<1>16. Opens(id)'
  BY DEF Opens, Open
<1>17. Cancels(id)'
  BY <1>1 DEF JobInv, Cancels
<1> QED
  BY <1>7, <1>8, <1>9, <1>10, <1>11, <1>12, <1>13, <1>14, <1>15, <1>16, <1>17 DEF JobInv

-----------------------------------------------------------------------------
(* What a reader asked is answered.                                        *)

\* What one side waits for about f is in the other's hands.
LEMMA TokenFacts ==
  ASSUME FileTypeOK, KindInv, NEW id \in Jobs, JobInv(id), NEW f \in FileNums,
         \/ <<id, f>> \in asking
         \/ \E i \in 1 .. Len(toReader) :
               /\ toReader[i].id = id /\ toReader[i].type \in {"ask", "confirm"}
               /\ toReader[i].file_num = f
  PROVE  /\ f \notin Markers /\ OnlyCancels(toWriter, id) /\ ~(id > started)
         /\ read_jobs[id] # NoJob =>
               /\ read_jobs[id].file_num = f /\ read_jobs[id].stream # None
               /\ ~read_jobs[id].confirmed /\ read_jobs[id].waiting
               /\ ~read_jobs[id].is_last_job /\ ~Mentions(toWriter, id)
         /\ write_jobs[id] # NoJob => ~write_jobs[id].is_last_job
         /\ \A i \in 1 .. Len(toWriter) : toWriter[i].id = id => toWriter[i].type = "cancel"
<1>1. CASE <<id, f>> \in asking
  <2>1. Asked(id)
    BY <1>1 DEF Asked
  <2>2. f \notin Markers /\ WaitsAt(read_jobs[id], f) /\ OnlyCancels(toWriter, id)
    BY <1>1 DEF JobInv, Tokens
  <2>3. ~Untouched(id)
    BY <2>1 DEF Untouched
  <2> QED
    BY <2>2, <2>3 DEF JobInv, Fresh, Cancels, WaitsAt, Reader, OnlyCancels, Mentions
<1>2. CASE \E i \in 1 .. Len(toReader) :
               /\ toReader[i].id = id /\ toReader[i].type \in {"ask", "confirm"}
               /\ toReader[i].file_num = f
  <2>1. PICK i \in 1 .. Len(toReader) : /\ toReader[i].id = id /\ toReader[i].type \in {"ask", "confirm"}
                                        /\ toReader[i].file_num = f
    BY <1>2
  <2>2. f \notin Markers /\ WaitsAt(read_jobs[id], f) /\ OnlyCancels(toWriter, id)
    BY <2>1 DEF JobInv, Tokens
  <2>3. ~Untouched(id)
    BY <2>1 DEF Untouched, Mentions
  <2> QED
    BY <2>2, <2>3 DEF JobInv, Fresh, Cancels, WaitsAt, Reader, OnlyCancels, Mentions
<1> QED
  BY <1>1, <1>2

\* The token is the only one.
LEMMA TokenAlone ==
  ASSUME FileTypeOK, KindInv, NEW id \in Jobs, JobInv(id), NEW f \in FileNums
  PROVE  /\ <<id, f>> \in asking =>
               /\ OnlyCancels(toReader, id)
               /\ \A g \in FileNums : <<id, g>> \in asking => g = f
         /\ \A i \in 1 .. Len(toReader) :
               toReader[i].id = id /\ toReader[i].type \in {"ask", "confirm"} =>
                   /\ ~Asked(id)
                   /\ \A k \in 1 .. Len(toReader) : toReader[k].id = id /\ k # i => toReader[k].type = "cancel"
<1>1. ASSUME <<id, f>> \in asking PROVE OnlyCancels(toReader, id)
  <2> SUFFICES ASSUME NEW i \in 1 .. Len(toReader), toReader[i].id = id PROVE toReader[i].type = "cancel"
    BY DEF OnlyCancels
  <2>1. Asked(id)
    BY <1>1 DEF Asked
  <2>2. toReader[i].type \notin {"send", "ask", "confirm"}
    BY <2>1 DEF JobInv, Sends, Tokens
  <2>3. toReader[i].type \in ReaderKinds
    BY DEF KindInv
  <2> QED
    BY <2>2, <2>3 DEF ReaderKinds
<1> QED
  BY <1>1 DEF JobInv, Tokens

\* The token about f, for the reader.
AnswerComes(id, f) ==
    \/ /\ toReader # <<>> /\ toReader' = Tail(toReader) /\ Head(toReader).id = id
       /\ Head(toReader).type \in {"ask", "confirm"} /\ Head(toReader).file_num = f
       /\ asking' = asking
    \/ <<id, f>> \in asking /\ asking' = asking \ {<<id, f>>} /\ toReader' = toReader

LEMMA AnswerFacts ==
  ASSUME FileTypeOK, KindInv, transfer' = transfer, NEW id \in Jobs, JobInv(id), NEW f \in FileNums,
         AnswerComes(id, f)
  PROVE  /\ f \notin Markers /\ ~(id > started)
         /\ read_jobs[id] # NoJob =>
               /\ read_jobs[id].file_num = f /\ read_jobs[id].stream # None
               /\ ~read_jobs[id].confirmed /\ read_jobs[id].waiting
               /\ ~read_jobs[id].is_last_job /\ ~Mentions(toWriter, id)
         /\ write_jobs[id] # NoJob => ~write_jobs[id].is_last_job
         /\ \A i \in 1 .. Len(toWriter) : toWriter[i].id = id => toWriter[i].type = "cancel"
         /\ OnlyCancels(toReader', id) /\ ~Asked(id)'
<1>0. FileNums' = FileNums
  BY TransferSame
<1>1. CASE /\ toReader # <<>> /\ toReader' = Tail(toReader) /\ Head(toReader).id = id
           /\ Head(toReader).type \in {"ask", "confirm"} /\ Head(toReader).file_num = f
           /\ asking' = asking
  <2>1. /\ 1 \in 1 .. Len(toReader) /\ Len(toReader') = Len(toReader) - 1 /\ Len(toReader) \in Nat
        /\ toReader[1] = Head(toReader)
        /\ \A i \in 1 .. Len(toReader) - 1 : toReader'[i] = toReader[i + 1]
    BY <1>1, TailFacts DEF FileTypeOK
  <2>2. /\ ~Asked(id)
        /\ \A k \in 1 .. Len(toReader) : toReader[k].id = id /\ k # 1 => toReader[k].type = "cancel"
    BY <1>1, <2>1, TokenAlone
  <2>3. OnlyCancels(toReader', id)
    <3> SUFFICES ASSUME NEW i \in 1 .. Len(toReader'), toReader'[i].id = id PROVE toReader'[i].type = "cancel"
      BY DEF OnlyCancels
    <3>1. i + 1 \in 1 .. Len(toReader) /\ i + 1 # 1 /\ toReader'[i] = toReader[i + 1]
      BY <2>1
    <3> QED
      BY <3>1, <2>2
  <2>4. ~Asked(id)'
    BY <2>2, <1>0, <1>1 DEF Asked
  <2>5. \E i \in 1 .. Len(toReader) : /\ toReader[i].id = id /\ toReader[i].type \in {"ask", "confirm"}
                                      /\ toReader[i].file_num = f
    BY <2>1, <1>1
  <2> QED
    BY <2>3, <2>4, <2>5, TokenFacts
<1>2. CASE <<id, f>> \in asking /\ asking' = asking \ {<<id, f>>} /\ toReader' = toReader
  <2>1. OnlyCancels(toReader, id) /\ \A g \in FileNums : <<id, g>> \in asking => g = f
    BY <1>2, TokenAlone
  <2>2. ~Asked(id)'
    BY <2>1, <1>0, <1>2 DEF Asked
  <2> QED
    BY <1>2, <2>1, <2>2, TokenFacts
<1> QED
  BY <1>1, <1>2 DEF AnswerComes

\* The reader goes on, with f or the next file, and may tell the writer.
LEMMA ReaderAnswered ==
  ASSUME FileTypeOK, KindInv, transfer' = transfer, NEW id \in Jobs, JobInv(id), NEW f \in FileNums,
         AnswerComes(id, f), read_jobs[id] # NoJob, read_jobs'[id] # NoJob,
         read_jobs'[id].is_last_job = read_jobs[id].is_last_job,
         \/ /\ read_jobs'[id].file_num = f /\ read_jobs'[id].stream # None
            /\ read_jobs'[id].confirmed /\ read_jobs'[id].waiting = read_jobs[id].waiting
         \/ /\ read_jobs'[id].file_num = f + 1 /\ read_jobs'[id].stream = None
            /\ ~read_jobs'[id].confirmed /\ ~read_jobs'[id].waiting,
         \/ toWriter' = toWriter
         \/ \E m \in Messages :
               /\ toWriter' = Append(toWriter, m) /\ m.id = id /\ m.type = "confirm" /\ m.file_num = f
               /\ Ready(write_jobs[id], download[f], digest[f], m.offset),
         UNCHANGED <<source, write_jobs, download, digest, started>>
  PROVE  JobInv(id)'
<1> DEFINE r == read_jobs[id]
           w == write_jobs[id]
           s == read_jobs'[id]
<1>0. /\ Upload' = Upload /\ N' = N /\ FileNums' = FileNums /\ Size' = Size /\ Markers' = Markers
  BY TransferSame
<1>1. /\ f \notin Markers /\ ~(id > started)
      /\ r.file_num = f /\ r.stream # None /\ ~r.confirmed /\ r.waiting /\ ~r.is_last_job
      /\ ~Mentions(toWriter, id)
      /\ w # NoJob => ~w.is_last_job
      /\ OnlyCancels(toReader', id) /\ ~Asked(id)'
  BY AnswerFacts
<1>2. f \in Nat /\ f + 1 \in Nat /\ f < f + 1 /\ f # f + 1
  <2>1. f \in Nat
    BY TransferFacts DEF FileTypeOK
  <2> QED
    BY <2>1
<1>3. PICK n \in Nat : /\ n = Len(toWriter)
                       /\ \A i \in 1 .. n : toWriter'[i] = toWriter[i]
                       /\ \/ Len(toWriter') = n
                          \/ /\ Len(toWriter') = n + 1
                             /\ toWriter'[n + 1].type = "confirm" /\ toWriter'[n + 1].file_num = f
                             /\ Ready(write_jobs[id], download[f], digest[f], toWriter'[n + 1].offset)
  <2>1. toWriter \in Seq(Messages) /\ Len(toWriter) \in Nat
    BY LenProperties DEF FileTypeOK
  <2>2. CASE toWriter' = toWriter
    BY <2>1, <2>2
  <2>3. CASE toWriter' # toWriter
    <3>1. PICK m \in Messages :
                 /\ toWriter' = Append(toWriter, m) /\ m.type = "confirm" /\ m.file_num = f
                 /\ Ready(write_jobs[id], download[f], digest[f], m.offset)
      BY <2>3
    <3>2. /\ Len(toWriter') = Len(toWriter) + 1
          /\ \A i \in 1 .. Len(toWriter) : toWriter'[i] = toWriter[i]
          /\ toWriter'[Len(toWriter) + 1] = m
      BY <3>1, <2>1, AppendFacts
    <3> QED
      BY <3>1, <3>2, <2>1
  <2> QED
    BY <2>2, <2>3
<1>4. ASSUME NEW i \in 1 .. Len(toWriter'), toWriter'[i].id = id
      PROVE  /\ i = n + 1 /\ toWriter'[i].type = "confirm" /\ toWriter'[i].file_num = f
             /\ Ready(write_jobs[id], download[f], digest[f], toWriter'[i].offset)
             /\ \A k \in 1 .. i - 1 : k \in 1 .. n /\ toWriter'[k] = toWriter[k]
  <2>1. \A k \in 1 .. n : toWriter'[k].id # id
    BY <1>1, <1>3 DEF Mentions
  <2> QED
    BY <2>1, <1>3, <1>4
<1>5. w # NoJob => w.digest = source[f]
  BY <1>1 DEF JobInv, Reader, Mentions
<1>6. Fresh(id)'
  BY <1>1 DEF Fresh
<1>7. Sends(id)'
  BY <1>1 DEF Sends, OnlyCancels
<1>8. Receives(id)'
  BY <1>4 DEF Receives
<1>9. Reader(id)'
  BY <1>0, <1>1, <1>5 DEF Reader
<1>10. Digests(id)'
  BY <1>4 DEF Digests
<1>11. Tokens(id)'
  BY <1>0, <1>1 DEF Tokens, OnlyCancels, Asked
<1>12. Asks(id)'
  BY <1>1 DEF Asks, OnlyCancels
<1>13. Confirms(id)'
  <2> SUFFICES ASSUME NEW i \in 1 .. Len(toWriter'), toWriter'[i].id = id
               PROVE  /\ toWriter'[i].file_num \notin Markers
                      /\ Ready(w, download[toWriter'[i].file_num], digest[toWriter'[i].file_num],
                               toWriter'[i].offset)
                      /\ \A k \in 1 .. i - 1 : toWriter'[k].id # id
                      /\ toWriter'[i].file_num <= s.file_num
                      /\ toWriter'[i].file_num = s.file_num => s.stream # None
    BY <1>0 DEF Confirms
  <2>1. \A k \in 1 .. i - 1 : toWriter'[k].id # id
    BY <1>4, <1>1, <1>3 DEF Mentions
  <2>2. toWriter'[i].file_num = f /\ Ready(w, download[f], digest[f], toWriter'[i].offset)
    BY <1>4
  <2>3. s.file_num = f + 1 \/ (s.file_num = f /\ s.stream # None)
    OBVIOUS
  <2> HIDE DEF s, w
  <2> QED
    BY <2>1, <2>2, <2>3, <1>1, <1>2
<1>14. Blocks(id)'
  BY <1>4 DEF Blocks
<1>15. Opens(id)'
  <2> SUFFICES ASSUME Open(id)
               PROVE  /\ w.file_num < N /\ download[w.file_num] # Absent
                      /\ w.stream <= Len(download[w.file_num])
                      /\ \/ digest[w.file_num] = w.digest
                         \/ Passed(toWriter', s, id, w.file_num)
                      /\ w.file_num <= s.file_num
                      /\ w.file_num = s.file_num => s.stream # None
    BY <1>0 DEF Opens, Open
  <2>1. /\ w.file_num < N /\ download[w.file_num] # Absent
        /\ w.stream <= Len(download[w.file_num])
        /\ digest[w.file_num] = w.digest \/ Passed(toWriter, r, id, w.file_num)
        /\ w.file_num <= f
    BY <1>1 DEF JobInv, Opens
  <2>2. w.file_num \in Int
    BY DEF FileTypeOK, WriteJobs, Open
  <2>3. ASSUME Passed(toWriter, r, id, w.file_num) PROVE Passed(toWriter', s, id, w.file_num)
    <3>1. f > w.file_num
      BY <2>3, <1>1 DEF Passed
    <3>2. s.file_num > w.file_num
      BY <3>1, <1>2, <2>2
    <3> QED
      BY <3>2, <1>4 DEF Passed
  <2>4. w.file_num <= s.file_num /\ (w.file_num = s.file_num => s.file_num = f)
    BY <2>1, <2>2, <1>2
  <2> QED
    BY <2>1, <2>3, <2>4, <1>2
<1>16. Cancels(id)'
  BY <1>4 DEF Cancels
<1> QED
  BY <1>6, <1>7, <1>8, <1>9, <1>10, <1>11, <1>12, <1>13, <1>14, <1>15, <1>16 DEF JobInv

\* The user is asked.
LEMMA ReaderAsks ==
  ASSUME FileTypeOK, KindInv, transfer' = transfer, NEW id \in Jobs, JobInv(id), NEW f \in FileNums,
         toReader # <<>>, toReader' = Tail(toReader), Head(toReader).id = id,
         Head(toReader).type \in {"ask", "confirm"}, Head(toReader).file_num = f,
         asking' = asking \cup {<<id, f>>},
         UNCHANGED <<source, read_jobs, write_jobs, download, digest, started, toWriter>>
  PROVE  JobInv(id)'
<1> DEFINE r == read_jobs[id]
           w == write_jobs[id]
<1>0. /\ Upload' = Upload /\ N' = N /\ FileNums' = FileNums /\ Size' = Size /\ Markers' = Markers
  BY TransferSame
<1>1. /\ 1 \in 1 .. Len(toReader) /\ Len(toReader') = Len(toReader) - 1 /\ Len(toReader) \in Nat
      /\ toReader[1] = Head(toReader)
      /\ \A i \in 1 .. Len(toReader) - 1 : toReader'[i] = toReader[i + 1]
  BY TailFacts DEF FileTypeOK
<1>2. /\ ~Asked(id)
      /\ \A k \in 1 .. Len(toReader) : toReader[k].id = id /\ k # 1 => toReader[k].type = "cancel"
  BY <1>1, TokenAlone
<1>3. OnlyCancels(toReader', id)
  <2> SUFFICES ASSUME NEW i \in 1 .. Len(toReader'), toReader'[i].id = id PROVE toReader'[i].type = "cancel"
    BY DEF OnlyCancels
  <2>1. i + 1 \in 1 .. Len(toReader) /\ i + 1 # 1 /\ toReader'[i] = toReader[i + 1]
    BY <1>1
  <2> QED
    BY <2>1, <1>2
<1>4. \E i \in 1 .. Len(toReader) : /\ toReader[i].id = id /\ toReader[i].type \in {"ask", "confirm"}
                                    /\ toReader[i].file_num = f
  BY <1>1
<1>5. /\ f \notin Markers /\ OnlyCancels(toWriter, id) /\ ~(id > started)
      /\ r # NoJob =>
            /\ r.file_num = f /\ r.stream # None /\ ~r.confirmed /\ r.waiting
            /\ ~r.is_last_job /\ ~Mentions(toWriter, id)
      /\ w # NoJob => ~w.is_last_job
      /\ \A i \in 1 .. Len(toWriter) : toWriter[i].id = id => toWriter[i].type = "cancel"
  BY <1>4, TokenFacts
<1>6. Fresh(id)'
  BY <1>5 DEF Fresh
<1>7. Sends(id)'
  BY <1>3 DEF Sends, OnlyCancels
<1>8. Receives(id)'
  BY <1>5 DEF Receives
<1>9. Reader(id)'
  BY <1>0 DEF JobInv, Reader
<1>10. Digests(id)'
  BY <1>5 DEF Digests
<1>11. Tokens(id)'
  <2>1. \A g \in FileNums : <<id, g>> \in asking' => g = f
    BY <1>2 DEF Asked
  <2> QED
    BY <2>1, <1>0, <1>3, <1>5 DEF Tokens, OnlyCancels, WaitsAt
<1>12. Asks(id)'
  BY <1>3 DEF Asks, OnlyCancels
<1>13. Confirms(id)'
  BY <1>5 DEF Confirms
<1>14. Blocks(id)'
  BY <1>5 DEF Blocks
<1>15. Opens(id)'
  BY <1>0 DEF JobInv, Opens, Open, Passed
<1>16. Cancels(id)'
  BY DEF JobInv, Cancels
<1> QED
  BY <1>6, <1>7, <1>8, <1>9, <1>10, <1>11, <1>12, <1>13, <1>14, <1>15, <1>16 DEF JobInv

-----------------------------------------------------------------------------
(* The writer of a job takes what the reader sent.                         *)

LEMMA TakeFacts ==
  ASSUME FileTypeOK, toWriter # <<>>, toWriter' = Tail(toWriter)
  PROVE  /\ 1 \in 1 .. Len(toWriter) /\ toWriter[1] = Head(toWriter) /\ Head(toWriter) \in Messages
         /\ Len(toWriter') \in Nat /\ Len(toWriter) \in Nat
         /\ \A i \in 1 .. Len(toWriter') :
               i + 1 \in 1 .. Len(toWriter) /\ toWriter'[i] = toWriter[i + 1] /\ i + 1 # 1 /\ i + 1 > 1
<1>1. /\ Len(toWriter) \in Nat \ {0} /\ Head(toWriter) = toWriter[1] /\ Head(toWriter) \in Messages
      /\ Len(toWriter') = Len(toWriter) - 1
      /\ \A i \in 1 .. Len(toWriter) - 1 : toWriter'[i] = toWriter[i + 1]
  BY TailFacts DEF FileTypeOK
<1> QED
  BY <1>1

\* The digest of f: the writer knows the version, and asks or decides.
LEMMA WriterTold ==
  ASSUME FileTypeOK, KindInv, transfer' = transfer, NEW id \in Jobs, JobInv(id),
         toWriter # <<>>, toWriter' = Tail(toWriter), Head(toWriter).id = id,
         Head(toWriter).type = "digest", NEW f \in FileNums, Head(toWriter).file_num = f,
         write_jobs[id] # NoJob, write_jobs'[id] # NoJob, write_jobs'[id] \in WriteJobs(transfer),
         write_jobs'[id].is_last_job = write_jobs[id].is_last_job,
         write_jobs'[id].digest = Head(toWriter).version,
         \/ /\ write_jobs'[id].file_num = write_jobs[id].file_num
            /\ write_jobs'[id].stream = write_jobs[id].stream
         \/ write_jobs'[id].stream = None
         \/ /\ write_jobs'[id].file_num = f /\ download[f] # Absent
            /\ write_jobs'[id].stream <= Len(download[f]) /\ digest[f] = Head(toWriter).version,
         \/ toReader' = toReader /\ asking' = asking \cup {<<id, f>>}
         \/ /\ asking' = asking
            /\ \E m \in Messages :
                  /\ toReader' = Append(toReader, m) /\ m.id = id /\ m.type \in {"ask", "confirm"}
                  /\ m.file_num = f
                  /\ m.type = "ask" =>
                        Ready(write_jobs'[id], download[f], digest[f], m.transferred),
         UNCHANGED <<source, read_jobs, download, digest, started>>
  PROVE  JobInv(id)'
<1> DEFINE r == read_jobs[id]
           w == write_jobs[id]
           v == write_jobs'[id]
<1>0. /\ Upload' = Upload /\ N' = N /\ FileNums' = FileNums /\ Size' = Size /\ Markers' = Markers
  BY TransferSame
<1>1. /\ 1 \in 1 .. Len(toWriter) /\ toWriter[1] = Head(toWriter)
      /\ \A i \in 1 .. Len(toWriter') :
            i + 1 \in 1 .. Len(toWriter) /\ toWriter'[i] = toWriter[i + 1] /\ i + 1 # 1 /\ i + 1 > 1
  BY TakeFacts
<1>2. /\ f \notin Markers /\ WaitsAt(r, f) /\ ~Asked(id) /\ OnlyCancels(toReader, id)
      /\ r # NoJob => Head(toWriter).version = source[f]
      /\ \A k \in 1 .. Len(toWriter) : toWriter[k].id = id /\ k > 1 => toWriter[k].type = "cancel"
      /\ Open(id) => w.file_num < f
  BY <1>1 DEF JobInv, Digests
<1>3. OnlyCancels(toWriter', id) /\ \A i \in 1 .. Len(toWriter') : toWriter'[i].id = id => toWriter'[i].type = "cancel"
  BY <1>1, <1>2 DEF OnlyCancels
<1>4. Mentions(toWriter, id)
  BY <1>1 DEF Mentions
<1>5. /\ ~(id > started) /\ ~w.is_last_job
      /\ r # NoJob => ~r.is_last_job
  BY <1>4 DEF JobInv, Fresh, Untouched
<1>6. Len(toReader) \in Nat
  BY LenProperties DEF FileTypeOK
<1>7. \/ toReader' = toReader /\ asking' = asking \cup {<<id, f>>}
      \/ /\ asking' = asking
         /\ Len(toReader') = Len(toReader) + 1
         /\ \A i \in 1 .. Len(toReader) : toReader'[i] = toReader[i]
         /\ toReader'[Len(toReader) + 1].id = id
         /\ toReader'[Len(toReader) + 1].type \in {"ask", "confirm"}
         /\ toReader'[Len(toReader) + 1].file_num = f
         /\ toReader'[Len(toReader) + 1].type = "ask" =>
               Ready(v, download[f], digest[f], toReader'[Len(toReader) + 1].transferred)
  <2>1. CASE toReader' = toReader /\ asking' = asking \cup {<<id, f>>}
    BY <2>1
  <2>2. CASE asking' = asking /\ \E m \in Messages :
                  /\ toReader' = Append(toReader, m) /\ m.id = id /\ m.type \in {"ask", "confirm"}
                  /\ m.file_num = f
                  /\ m.type = "ask" =>
                        Ready(write_jobs'[id], download[f], digest[f], m.transferred)
    <3>1. PICK m \in Messages :
                  /\ toReader' = Append(toReader, m) /\ m.id = id /\ m.type \in {"ask", "confirm"}
                  /\ m.file_num = f
                  /\ m.type = "ask" =>
                        Ready(write_jobs'[id], download[f], digest[f], m.transferred)
      BY <2>2
    <3>2. toReader \in Seq(Messages)
      BY DEF FileTypeOK
    <3>3. /\ Len(toReader') = Len(toReader) + 1
          /\ \A i \in 1 .. Len(toReader) : toReader'[i] = toReader[i]
          /\ toReader'[Len(toReader) + 1] = m
      BY <3>1, <3>2, AppendFacts
    <3> QED
      BY <3>1, <3>3, <2>2
  <2> QED
    BY <2>1, <2>2
<1>8. Fresh(id)'
  BY <1>5 DEF Fresh
<1>9. Sends(id)'
  <2> SUFFICES ASSUME NEW i \in 1 .. Len(toReader'), toReader'[i].id = id, toReader'[i].type = "send"
               PROVE  FALSE
    BY DEF Sends
  <2>1. i \in 1 .. Len(toReader) /\ toReader'[i] = toReader[i]
    BY <1>6, <1>7
  <2> QED
    BY <2>1, <1>2 DEF OnlyCancels
<1>10. Receives(id)'
  BY <1>3 DEF Receives
<1>11. Reader(id)'
  BY <1>0, <1>2 DEF JobInv, Reader, WaitsAt
<1>12. Digests(id)'
  BY <1>3 DEF Digests
<1>13. Tokens(id)'
  <2>1. ASSUME NEW i \in 1 .. Len(toReader'), toReader'[i].id = id, toReader'[i].type \in {"ask", "confirm"}
        PROVE  /\ toReader'[i].file_num = f /\ ~Asked(id)'
               /\ \A k \in 1 .. Len(toReader') : toReader'[k].id = id /\ k # i => toReader'[k].type = "cancel"
    <3>1. i = Len(toReader) + 1 /\ asking' = asking /\ Len(toReader') = Len(toReader) + 1
          /\ toReader'[Len(toReader) + 1].file_num = f
          /\ \A k \in 1 .. Len(toReader) : toReader'[k] = toReader[k]
      BY <2>1, <1>2, <1>6, <1>7 DEF OnlyCancels
    <3>2. ASSUME NEW k \in 1 .. Len(toReader'), toReader'[k].id = id, k # i PROVE toReader'[k].type = "cancel"
      BY <3>1, <3>2, <1>2, <1>6 DEF OnlyCancels
    <3> QED
      BY <3>1, <3>2, <1>0, <1>2 DEF Asked
  <2>2. \A g \in FileNums : <<id, g>> \in asking' => g = f
    BY <1>2, <1>7 DEF Asked
  <2> QED
    BY <2>1, <2>2, <1>0, <1>2, <1>3 DEF Tokens
<1>14. Asks(id)'
  <2> SUFFICES ASSUME NEW i \in 1 .. Len(toReader'), toReader'[i].id = id, toReader'[i].type = "ask"
               PROVE  Ready(v, download[toReader'[i].file_num], digest[toReader'[i].file_num],
                            toReader'[i].transferred)
    BY DEF Asks
  <2>1. i = Len(toReader) + 1
    BY <1>2, <1>6, <1>7 DEF OnlyCancels
  <2>2. toReader'[i].file_num = f /\ Ready(v, download[f], digest[f], toReader'[i].transferred)
    BY <2>1, <1>2, <1>6, <1>7 DEF OnlyCancels
  <2> QED
    BY <2>2
<1>15. Confirms(id)'
  BY <1>3 DEF Confirms
<1>16. Blocks(id)'
  BY <1>3 DEF Blocks
<1>17. Opens(id)'
  <2> SUFFICES ASSUME v.stream # None, v.file_num \notin Markers
               PROVE  /\ v.file_num < N /\ download[v.file_num] # Absent
                      /\ v.stream <= Len(download[v.file_num])
                      /\ \/ digest[v.file_num] = v.digest
                         \/ Passed(toWriter', r, id, v.file_num)
                      /\ r # NoJob => /\ v.file_num <= r.file_num
                                      /\ v.file_num = r.file_num => r.stream # None
    BY <1>0 DEF Opens, Open
  <2>0. f \in Nat /\ f < N
    BY TransferFacts DEF FileTypeOK, FileNums
  <2>1. CASE v.file_num = w.file_num /\ v.stream = w.stream
    <3>1. /\ w.file_num < N /\ download[w.file_num] # Absent
          /\ w.stream <= Len(download[w.file_num]) /\ w.file_num < f
      BY <2>1, <1>2 DEF JobInv, Opens, Open
    <3>2. Passed(toWriter', r, id, w.file_num)
      BY <3>1, <1>2, <1>3 DEF Passed, WaitsAt
    <3>3. r # NoJob => w.file_num < r.file_num /\ w.file_num <= r.file_num /\ w.file_num # r.file_num
      <4>1. w.file_num \in Int
        BY DEF FileTypeOK, WriteJobs
      <4> QED
        BY <4>1, <3>1, <2>0, <1>2 DEF WaitsAt
    <3> QED
      BY <2>1, <3>1, <3>2, <3>3
  <2>2. CASE /\ v.file_num = f /\ download[f] # Absent
             /\ v.stream <= Len(download[f]) /\ digest[f] = Head(toWriter).version
    <3>1. r # NoJob => f <= r.file_num /\ r.stream # None
      BY <2>0, <1>2 DEF WaitsAt
    <3> QED
      BY <3>1, <2>0, <2>2
  <2> QED
    BY <2>1, <2>2
<1>18. Cancels(id)'
  BY <1>1 DEF JobInv, Cancels
<1> QED
  BY <1>8, <1>9, <1>10, <1>11, <1>12, <1>13, <1>14, <1>15, <1>16, <1>17, <1>18 DEF JobInv

\* The user of a download answers.
LEMMA WriterAnswered ==
  ASSUME FileTypeOK, KindInv, transfer' = transfer, NEW id \in Jobs, JobInv(id), ~Upload,
         NEW f \in FileNums, <<id, f>> \in asking, asking' = asking \ {<<id, f>>},
         write_jobs[id] # NoJob, write_jobs'[id] # NoJob,
         write_jobs'[id].is_last_job = write_jobs[id].is_last_job,
         write_jobs'[id].digest = write_jobs[id].digest,
         \/ /\ write_jobs'[id].file_num = write_jobs[id].file_num
            /\ write_jobs'[id].stream = write_jobs[id].stream
         \/ write_jobs'[id].stream = None,
         NEW m \in Messages, toReader' = Append(toReader, m), m.id = id, m.type = "confirm",
         m.file_num = f,
         UNCHANGED <<source, read_jobs, download, digest, started, toWriter>>
  PROVE  JobInv(id)'
<1> DEFINE r == read_jobs[id]
           w == write_jobs[id]
           v == write_jobs'[id]
<1>0. /\ Upload' = Upload /\ N' = N /\ FileNums' = FileNums /\ Size' = Size /\ Markers' = Markers
  BY TransferSame
<1>1. /\ f \notin Markers /\ ~(id > started)
      /\ r # NoJob =>
            /\ r.file_num = f /\ r.stream # None /\ ~r.confirmed /\ ~r.is_last_job
      /\ ~w.is_last_job
      /\ \A i \in 1 .. Len(toWriter) : toWriter[i].id = id => toWriter[i].type = "cancel"
  BY TokenFacts
<1>2. \A i \in 1 .. Len(toWriter) : toWriter[i].id # id
  BY <1>1 DEF KindInv, WriterKinds
<1>3. OnlyCancels(toReader, id) /\ \A g \in FileNums : <<id, g>> \in asking => g = f
  BY TokenAlone
<1>4. ~Asked(id)'
  BY <1>0, <1>3 DEF Asked
<1>5. /\ Len(toReader') = Len(toReader) + 1 /\ Len(toReader) \in Nat
      /\ \A i \in 1 .. Len(toReader) : toReader'[i] = toReader[i]
      /\ toReader'[Len(toReader) + 1] = m
  BY AppendFacts DEF FileTypeOK
<1>6. ASSUME NEW i \in 1 .. Len(toReader'), toReader'[i].id = id
      PROVE  toReader'[i].type = "cancel" \/ (i = Len(toReader) + 1 /\ toReader'[i] = m)
  BY <1>3, <1>5, <1>6 DEF OnlyCancels
<1>7. WaitsAt(r, f)
  BY DEF JobInv, Tokens
<1>8. Fresh(id)'
  BY <1>1 DEF Fresh
<1>9. Sends(id)'
  BY <1>6 DEF Sends
<1>10. Receives(id)'
  BY <1>2 DEF Receives
<1>11. Reader(id)'
  BY <1>0, <1>2 DEF JobInv, Reader
<1>12. Digests(id)'
  BY <1>2 DEF Digests
<1>13. Tokens(id)'
  <2>1. ASSUME NEW i \in 1 .. Len(toReader'), toReader'[i].id = id, toReader'[i].type \in {"ask", "confirm"}
        PROVE  /\ toReader'[i].file_num = f
               /\ \A k \in 1 .. Len(toReader') : toReader'[k].id = id /\ k # i => toReader'[k].type = "cancel"
    BY <2>1, <1>6
  <2>2. OnlyCancels(toWriter, id)
    BY <1>2 DEF OnlyCancels
  <2> QED
    BY <2>1, <2>2, <1>0, <1>1, <1>4, <1>7 DEF Tokens, Asked
<1>14. Asks(id)'
  BY <1>6 DEF Asks
<1>15. Confirms(id)'
  BY <1>2 DEF Confirms
<1>16. Blocks(id)'
  BY <1>2 DEF Blocks
<1>17. Opens(id)'
  BY <1>0 DEF JobInv, Opens, Open, Passed
<1>18. Cancels(id)'
  BY DEF JobInv, Cancels
<1> QED
  BY <1>8, <1>9, <1>10, <1>11, <1>12, <1>13, <1>14, <1>15, <1>16, <1>17, <1>18 DEF JobInv

\* No token is left while a confirm or a block is on its way.
LEMMA NoTokens ==
  ASSUME FileTypeOK, KindInv, NEW id \in Jobs, JobInv(id),
         NEW i \in 1 .. Len(toWriter), toWriter[i].id = id, toWriter[i].type # "cancel"
  PROVE  /\ ~Asked(id)
         /\ \A k \in 1 .. Len(toReader) : toReader[k].id = id => toReader[k].type \notin {"send", "ask", "confirm"}
         /\ ~(id > started)
         /\ write_jobs[id] # NoJob => ~write_jobs[id].is_last_job
         /\ read_jobs[id] # NoJob => ~read_jobs[id].is_last_job
<1>1. Mentions(toWriter, id) /\ ~OnlyCancels(toWriter, id) /\ ~Untouched(id)
  BY DEF Mentions, OnlyCancels, Untouched
<1>2. ~Asked(id)
  BY <1>1 DEF JobInv, Tokens, Asked
<1>3. \A k \in 1 .. Len(toReader) : toReader[k].id = id => toReader[k].type \notin {"send", "ask", "confirm"}
  BY <1>1 DEF JobInv, Tokens, Sends
<1>4. /\ ~(id > started)
      /\ write_jobs[id] # NoJob => ~write_jobs[id].is_last_job
      /\ read_jobs[id] # NoJob => ~read_jobs[id].is_last_job
  BY <1>1 DEF JobInv, Fresh
<1> QED
  BY <1>2, <1>3, <1>4

\* The answer about f, or a block of f: the writer goes on in f.
LEMMA WriterGoesOn ==
  ASSUME FileTypeOK, KindInv, transfer' = transfer, NEW id \in Jobs, JobInv(id),
         toWriter # <<>>, toWriter' = Tail(toWriter), Head(toWriter).id = id,
         Head(toWriter).type \in {"confirm", "block"}, NEW f \in FileNums, Head(toWriter).file_num = f,
         write_jobs[id] # NoJob, write_jobs'[id] # NoJob,
         write_jobs'[id].is_last_job = write_jobs[id].is_last_job,
         write_jobs'[id].digest = write_jobs[id].digest,
         \/ /\ Head(toWriter).type = "confirm"
            /\ write_jobs'[id].file_num = write_jobs[id].file_num
            /\ write_jobs'[id].stream = write_jobs[id].stream
            /\ UNCHANGED <<download, digest>>
         \/ write_jobs'[id].stream = None
         \/ write_jobs'[id].file_num = f /\ f \in Markers
         \/ /\ write_jobs'[id].file_num = f /\ download'[f] # Absent
            /\ write_jobs'[id].stream <= Len(download'[f])
            /\ digest'[f] = write_jobs[id].digest,
         UNCHANGED <<source, read_jobs, asking, started, toReader>>
  PROVE  JobInv(id)'
<1> DEFINE r == read_jobs[id]
           w == write_jobs[id]
           v == write_jobs'[id]
<1>0. /\ Upload' = Upload /\ N' = N /\ FileNums' = FileNums /\ Size' = Size /\ Markers' = Markers
  BY TransferSame
<1>1. /\ 1 \in 1 .. Len(toWriter) /\ toWriter[1] = Head(toWriter) /\ Len(toWriter') \in Nat
      /\ \A i \in 1 .. Len(toWriter') :
            i + 1 \in 1 .. Len(toWriter) /\ toWriter'[i] = toWriter[i + 1] /\ i + 1 # 1 /\ i + 1 > 1
  BY TakeFacts
<1>2. /\ ~Asked(id)
      /\ \A k \in 1 .. Len(toReader) : toReader[k].id = id => toReader[k].type \notin {"send", "ask", "confirm"}
      /\ ~(id > started) /\ ~w.is_last_job
      /\ r # NoJob => ~r.is_last_job
  <2>1. toWriter[1].id = id /\ toWriter[1].type # "cancel"
    BY <1>1
  <2> QED
    BY <2>1, <1>1, NoTokens
<1>3. ~Asked(id)'
  BY <1>0, <1>2 DEF Asked
<1>4. /\ r # NoJob => /\ f <= r.file_num
                      /\ f \notin Markers /\ f = r.file_num => r.stream # None
  <2>1. CASE Head(toWriter).type = "confirm"
    BY <2>1, <1>1 DEF JobInv, Confirms
  <2>2. CASE Head(toWriter).type = "block"
    BY <2>2, <1>1 DEF JobInv, Blocks, Reader
  <2> QED
    BY <2>1, <2>2
<1>5. \A i \in 1 .. Len(toWriter') : toWriter'[i].id = id => toWriter'[i].type # "confirm"
  <2> SUFFICES ASSUME NEW i \in 1 .. Len(toWriter'), toWriter'[i].id = id, toWriter'[i].type = "confirm"
               PROVE  FALSE
    OBVIOUS
  <2>1. i + 1 \in 1 .. Len(toWriter) /\ toWriter'[i] = toWriter[i + 1] /\ 1 \in 1 .. i + 1 - 1
    BY <1>1
  <2>2. \A k \in 1 .. i + 1 - 1 : toWriter[k].id # id
    BY <2>1 DEF JobInv, Confirms
  <2> QED
    BY <2>1, <2>2, <1>1
<1>6. Fresh(id)'
  BY <1>2 DEF Fresh
<1>7. Sends(id)'
  BY <1>2 DEF Sends
<1>8. Receives(id)'
  BY <1>1 DEF JobInv, Receives
<1>9. Reader(id)'
  <2>1. ASSUME NEW k \in 1 .. Len(toWriter), toWriter[k].id = id, toWriter[k].type = "digest"
        PROVE  \E l \in 1 .. Len(toWriter') : toWriter'[l].id = id /\ toWriter'[l].type = "digest"
    <3>1. k # 1
      BY <2>1, <1>1
    <3>2. k - 1 \in 1 .. Len(toWriter') /\ toWriter'[k - 1] = toWriter[k]
      <4>1. Len(toWriter) = Len(toWriter') + 1
        BY TailFacts DEF FileTypeOK
      <4>2. k - 1 \in 1 .. Len(toWriter') /\ (k - 1) + 1 = k
        BY <3>1, <4>1, <1>1
      <4> QED
        BY <4>2, <1>1
    <3> QED
      BY <3>2, <2>1
  <2> QED
    BY <2>1, <1>0 DEF JobInv, Reader
<1>10. Digests(id)'
  <2> SUFFICES ASSUME NEW i \in 1 .. Len(toWriter'), toWriter'[i].id = id, toWriter'[i].type = "digest"
               PROVE  /\ toWriter'[i].file_num \notin Markers
                      /\ WaitsAt(r, toWriter'[i].file_num) /\ OnlyCancels(toReader, id)
                      /\ r # NoJob => toWriter'[i].version = source[toWriter'[i].file_num]
                      /\ \A k \in 1 .. Len(toWriter') :
                            toWriter'[k].id = id /\ k > i => toWriter'[k].type = "cancel"
                      /\ \A k \in 1 .. Len(toWriter') :
                            toWriter'[k].id = id /\ k < i /\ toWriter'[k].type \in {"block", "confirm"} =>
                                toWriter'[k].file_num < toWriter'[i].file_num
                      /\ v.stream # None /\ v.file_num \notin Markers => v.file_num < toWriter'[i].file_num
    BY <1>0, <1>3 DEF Digests, Open
  <2>1. i + 1 \in 1 .. Len(toWriter) /\ toWriter'[i] = toWriter[i + 1] /\ 1 < i + 1
    BY <1>1
  <2>2. /\ toWriter[i + 1].file_num \notin Markers
        /\ WaitsAt(r, toWriter[i + 1].file_num) /\ OnlyCancels(toReader, id)
        /\ r # NoJob => toWriter[i + 1].version = source[toWriter[i + 1].file_num]
        /\ \A k \in 1 .. Len(toWriter) :
              toWriter[k].id = id /\ k > i + 1 => toWriter[k].type = "cancel"
        /\ \A k \in 1 .. Len(toWriter) :
              toWriter[k].id = id /\ k < i + 1 /\ toWriter[k].type \in {"block", "confirm"} =>
                  toWriter[k].file_num < toWriter[i + 1].file_num
        /\ Open(id) => w.file_num < toWriter[i + 1].file_num
    BY <2>1 DEF JobInv, Digests
  <2>3. f < toWriter[i + 1].file_num
    BY <2>1, <2>2, <1>1
  <2>4. ASSUME NEW k \in 1 .. Len(toWriter'), toWriter'[k].id = id
        PROVE  /\ k > i => toWriter'[k].type = "cancel"
               /\ k < i /\ toWriter'[k].type \in {"block", "confirm"} =>
                      toWriter'[k].file_num < toWriter'[i].file_num
    <3>1. k + 1 \in 1 .. Len(toWriter) /\ toWriter'[k] = toWriter[k + 1]
      BY <1>1
    <3>2. (k > i => k + 1 > i + 1) /\ (k < i => k + 1 < i + 1)
      OBVIOUS
    <3> QED
      BY <3>1, <3>2, <2>1, <2>2, <2>4
  <2>5. v.stream # None /\ v.file_num \notin Markers => v.file_num < toWriter[i + 1].file_num
    BY <2>2, <2>3 DEF Open
  <2> QED
    BY <2>1, <2>2, <2>4, <2>5
<1>11. Tokens(id)'
  BY <1>2, <1>3 DEF Tokens, Asked
<1>12. Asks(id)'
  BY <1>2 DEF Asks
<1>13. Confirms(id)'
  BY <1>5 DEF Confirms
<1>14. Blocks(id)'
  BY <1>1, <1>0 DEF JobInv, Blocks
<1>15. Opens(id)'
  <2> SUFFICES ASSUME v.stream # None, v.file_num \notin Markers
               PROVE  /\ v.file_num < N /\ download'[v.file_num] # Absent
                      /\ v.stream <= Len(download'[v.file_num])
                      /\ \/ digest'[v.file_num] = v.digest
                         \/ Passed(toWriter', r, id, v.file_num)
                      /\ r # NoJob => /\ v.file_num <= r.file_num
                                      /\ v.file_num = r.file_num => r.stream # None
    BY <1>0 DEF Opens, Open
  <2>0. f \in Nat /\ f < N
    BY TransferFacts DEF FileTypeOK, FileNums
  <2>1. CASE /\ v.file_num = w.file_num /\ v.stream = w.stream
             /\ UNCHANGED <<download, digest>>
    <3>1. \A g : Passed(toWriter, r, id, g) => Passed(toWriter', r, id, g)
      BY <1>1 DEF Passed
    <3> QED
      BY <3>1, <2>1 DEF JobInv, Opens, Open
  <2>2. CASE /\ v.file_num = f /\ download'[f] # Absent
             /\ v.stream <= Len(download'[f]) /\ digest'[f] = w.digest
    BY <2>0, <2>2, <1>4
  <2> QED
    BY <2>1, <2>2
<1>16. Cancels(id)'
  BY <1>1 DEF JobInv, Cancels
<1> QED
  BY <1>6, <1>7, <1>8, <1>9, <1>10, <1>11, <1>12, <1>13, <1>14, <1>15, <1>16 DEF JobInv

-----------------------------------------------------------------------------
(* A job starts.                                                           *)

\* The list of files.
LEMMA WriterLists ==
  ASSUME FileTypeOK, KindInv, transfer' = transfer, NEW id \in Jobs, JobInv(id),
         toWriter # <<>>, toWriter' = Tail(toWriter), Head(toWriter).id = id,
         Head(toWriter).type = "dir",
         write_jobs[id] # NoJob, write_jobs'[id] # NoJob,
         write_jobs'[id].is_last_job = write_jobs[id].is_last_job,
         write_jobs'[id].digest = write_jobs[id].digest,
         write_jobs'[id].file_num = write_jobs[id].file_num,
         write_jobs'[id].stream = write_jobs[id].stream,
         UNCHANGED <<source, read_jobs, download, digest, asking, started, toReader>>
  PROVE  JobInv(id)'
<1> DEFINE r == read_jobs[id]
           w == write_jobs[id]
           v == write_jobs'[id]
<1>0. /\ Upload' = Upload /\ N' = N /\ FileNums' = FileNums /\ Size' = Size /\ Markers' = Markers
  BY TransferSame
<1>1. /\ 1 \in 1 .. Len(toWriter) /\ toWriter[1] = Head(toWriter) /\ Len(toWriter') \in Nat
      /\ \A i \in 1 .. Len(toWriter') :
            i + 1 \in 1 .. Len(toWriter) /\ toWriter'[i] = toWriter[i + 1] /\ i + 1 # 1 /\ i + 1 > 1
  BY TakeFacts
<1>2. /\ ~Asked(id)
      /\ \A k \in 1 .. Len(toReader) : toReader[k].id = id => toReader[k].type \notin {"send", "ask", "confirm"}
      /\ ~(id > started) /\ ~w.is_last_job
      /\ r # NoJob => ~r.is_last_job
  <2>1. toWriter[1].id = id /\ toWriter[1].type # "cancel"
    BY <1>1
  <2> QED
    BY <2>1, <1>1, NoTokens
<1>3. ~Asked(id)'
  BY <1>0, <1>2 DEF Asked
<1>4. ASSUME NEW k \in 1 .. Len(toWriter), toWriter[k].id = id, toWriter[k].type = "digest"
      PROVE  \E l \in 1 .. Len(toWriter') : toWriter'[l].id = id /\ toWriter'[l].type = "digest"
  <2>1. k # 1
    BY <1>4, <1>1
  <2>2. Len(toWriter) = Len(toWriter') + 1
    BY TailFacts DEF FileTypeOK
  <2>3. k - 1 \in 1 .. Len(toWriter') /\ (k - 1) + 1 = k
    BY <2>1, <2>2, <1>1
  <2>4. toWriter'[k - 1] = toWriter[k]
    BY <2>3, <1>1
  <2> QED
    BY <2>3, <2>4, <1>4
<1>5. Fresh(id)'
  BY <1>2 DEF Fresh
<1>6. Sends(id)'
  BY <1>2 DEF Sends
<1>7. Receives(id)'
  BY <1>1 DEF JobInv, Receives
<1>8. Reader(id)'
  BY <1>4, <1>0 DEF JobInv, Reader
<1>9. Digests(id)'
  <2> SUFFICES ASSUME NEW i \in 1 .. Len(toWriter'), toWriter'[i].id = id, toWriter'[i].type = "digest"
               PROVE  /\ toWriter'[i].file_num \notin Markers
                      /\ WaitsAt(r, toWriter'[i].file_num) /\ OnlyCancels(toReader, id)
                      /\ r # NoJob => toWriter'[i].version = source[toWriter'[i].file_num]
                      /\ \A k \in 1 .. Len(toWriter') :
                            toWriter'[k].id = id /\ k > i => toWriter'[k].type = "cancel"
                      /\ \A k \in 1 .. Len(toWriter') :
                            toWriter'[k].id = id /\ k < i /\ toWriter'[k].type \in {"block", "confirm"} =>
                                toWriter'[k].file_num < toWriter'[i].file_num
                      /\ Open(id) => v.file_num < toWriter'[i].file_num
    BY <1>0, <1>3 DEF Digests, Open
  <2>1. i + 1 \in 1 .. Len(toWriter) /\ toWriter'[i] = toWriter[i + 1] /\ 1 < i + 1
    BY <1>1
  <2>2. /\ toWriter[i + 1].file_num \notin Markers
        /\ WaitsAt(r, toWriter[i + 1].file_num) /\ OnlyCancels(toReader, id)
        /\ r # NoJob => toWriter[i + 1].version = source[toWriter[i + 1].file_num]
        /\ \A k \in 1 .. Len(toWriter) :
              toWriter[k].id = id /\ k > i + 1 => toWriter[k].type = "cancel"
        /\ \A k \in 1 .. Len(toWriter) :
              toWriter[k].id = id /\ k < i + 1 /\ toWriter[k].type \in {"block", "confirm"} =>
                  toWriter[k].file_num < toWriter[i + 1].file_num
        /\ Open(id) => w.file_num < toWriter[i + 1].file_num
    BY <2>1 DEF JobInv, Digests
  <2>3. ASSUME NEW k \in 1 .. Len(toWriter'), toWriter'[k].id = id
        PROVE  /\ k > i => toWriter'[k].type = "cancel"
               /\ k < i /\ toWriter'[k].type \in {"block", "confirm"} =>
                      toWriter'[k].file_num < toWriter'[i].file_num
    <3>1. k + 1 \in 1 .. Len(toWriter) /\ toWriter'[k] = toWriter[k + 1]
      BY <1>1
    <3>2. (k > i => k + 1 > i + 1) /\ (k < i => k + 1 < i + 1)
      OBVIOUS
    <3> QED
      BY <3>1, <3>2, <2>1, <2>2, <2>3
  <2> QED
    BY <2>1, <2>2, <2>3
<1>10. Tokens(id)'
  BY <1>2, <1>3 DEF Tokens, Asked
<1>11. Asks(id)'
  BY <1>2 DEF Asks
<1>12. Confirms(id)'
  <2> SUFFICES ASSUME NEW i \in 1 .. Len(toWriter'), toWriter'[i].id = id, toWriter'[i].type = "confirm"
               PROVE  FALSE
    BY DEF Confirms
  <2>1. i + 1 \in 1 .. Len(toWriter) /\ toWriter'[i] = toWriter[i + 1] /\ 1 \in 1 .. i + 1 - 1
    BY <1>1
  <2>2. \A k \in 1 .. i + 1 - 1 : toWriter[k].id # id
    BY <2>1 DEF JobInv, Confirms
  <2> QED
    BY <2>1, <2>2, <1>1
<1>13. Blocks(id)'
  BY <1>1, <1>0 DEF JobInv, Blocks
<1>14. Opens(id)'
  <2>1. \A g : Passed(toWriter, r, id, g) => Passed(toWriter', r, id, g)
    BY <1>1 DEF Passed
  <2> QED
    BY <2>1, <1>0 DEF JobInv, Opens, Open
<1>15. Cancels(id)'
  BY <1>1 DEF JobInv, Cancels
<1> QED
  BY <1>5, <1>6, <1>7, <1>8, <1>9, <1>10, <1>11, <1>12, <1>13, <1>14, <1>15 DEF JobInv

\* The job of the writer of an upload.
LEMMA WriterReceives ==
  ASSUME FileTypeOK, KindInv, transfer' = transfer, NEW id \in Jobs, JobInv(id),
         toWriter # <<>>, toWriter' = Tail(toWriter), Head(toWriter).id = id,
         Head(toWriter).type = "receive",
         ~write_jobs'[id].is_last_job, write_jobs'[id].stream = None,
         UNCHANGED <<source, read_jobs, asking, started, toReader>>
  PROVE  JobInv(id)'
<1> DEFINE r == read_jobs[id]
<1>0. /\ Upload' = Upload /\ N' = N /\ FileNums' = FileNums /\ Size' = Size /\ Markers' = Markers
  BY TransferSame
<1>1. /\ 1 \in 1 .. Len(toWriter) /\ toWriter[1] = Head(toWriter) /\ Len(toWriter') \in Nat
      /\ \A i \in 1 .. Len(toWriter') :
            i + 1 \in 1 .. Len(toWriter) /\ toWriter'[i] = toWriter[i + 1] /\ i + 1 # 1 /\ i + 1 > 1
  BY TakeFacts
<1>2. /\ ~Asked(id) /\ ~Mentions(toReader, id)
      /\ ~(id > started)
      /\ r # NoJob => ~r.is_last_job
      /\ \A k \in 1 .. Len(toWriter) : toWriter[k].id = id /\ k # 1 =>
              /\ toWriter[k].type \notin {"receive", "confirm"}
              /\ toWriter[k].type = "block" => toWriter[k].file_num \in Markers
      /\ r # NoJob /\ r.stream # None =>
            \E k \in 1 .. Len(toWriter) : toWriter[k].id = id /\ toWriter[k].type = "digest"
  <2>1. toWriter[1].id = id /\ toWriter[1].type # "cancel" /\ toWriter[1].type = "receive"
    BY <1>1
  <2>2. ~(id > started) /\ (r # NoJob => ~r.is_last_job)
    BY <2>1, <1>1, NoTokens
  <2> QED
    BY <2>1, <2>2, <1>1 DEF JobInv, Receives
<1>3. ~Asked(id)'
  BY <1>0, <1>2 DEF Asked
<1>4. \A i \in 1 .. Len(toWriter') : toWriter'[i].id = id =>
              /\ toWriter'[i].type \notin {"receive", "confirm"}
              /\ toWriter'[i].type = "block" => toWriter'[i].file_num \in Markers
  BY <1>1, <1>2
<1>5. ASSUME NEW k \in 1 .. Len(toWriter), toWriter[k].id = id, toWriter[k].type = "digest"
      PROVE  \E l \in 1 .. Len(toWriter') : toWriter'[l].id = id /\ toWriter'[l].type = "digest"
  <2>1. k # 1
    BY <1>5, <1>1
  <2>2. Len(toWriter) = Len(toWriter') + 1
    BY TailFacts DEF FileTypeOK
  <2>3. k - 1 \in 1 .. Len(toWriter') /\ (k - 1) + 1 = k
    BY <2>1, <2>2, <1>1
  <2>4. toWriter'[k - 1] = toWriter[k]
    BY <2>3, <1>1
  <2> QED
    BY <2>3, <2>4, <1>5
<1>6. Fresh(id)'
  BY <1>2 DEF Fresh
<1>7. Sends(id)'
  BY <1>2 DEF Sends, Mentions
<1>8. Receives(id)'
  BY <1>4 DEF Receives
<1>9. Reader(id)'
  BY <1>2, <1>5, <1>0 DEF JobInv, Reader
<1>10. Digests(id)'
  <2> SUFFICES ASSUME NEW i \in 1 .. Len(toWriter'), toWriter'[i].id = id, toWriter'[i].type = "digest"
               PROVE  /\ toWriter'[i].file_num \notin Markers
                      /\ WaitsAt(r, toWriter'[i].file_num) /\ OnlyCancels(toReader, id)
                      /\ r # NoJob => toWriter'[i].version = source[toWriter'[i].file_num]
                      /\ \A k \in 1 .. Len(toWriter') :
                            toWriter'[k].id = id /\ k > i => toWriter'[k].type = "cancel"
                      /\ \A k \in 1 .. Len(toWriter') :
                            toWriter'[k].id = id /\ k < i /\ toWriter'[k].type \in {"block", "confirm"} =>
                                toWriter'[k].file_num < toWriter'[i].file_num
    BY <1>0, <1>3 DEF Digests, Open
  <2>1. i + 1 \in 1 .. Len(toWriter) /\ toWriter'[i] = toWriter[i + 1] /\ 1 < i + 1
    BY <1>1
  <2>2. /\ toWriter[i + 1].file_num \notin Markers
        /\ WaitsAt(r, toWriter[i + 1].file_num) /\ OnlyCancels(toReader, id)
        /\ r # NoJob => toWriter[i + 1].version = source[toWriter[i + 1].file_num]
        /\ \A k \in 1 .. Len(toWriter) :
              toWriter[k].id = id /\ k > i + 1 => toWriter[k].type = "cancel"
        /\ \A k \in 1 .. Len(toWriter) :
              toWriter[k].id = id /\ k < i + 1 /\ toWriter[k].type \in {"block", "confirm"} =>
                  toWriter[k].file_num < toWriter[i + 1].file_num
    BY <2>1 DEF JobInv, Digests
  <2>3. ASSUME NEW k \in 1 .. Len(toWriter'), toWriter'[k].id = id
        PROVE  /\ k > i => toWriter'[k].type = "cancel"
               /\ k < i /\ toWriter'[k].type \in {"block", "confirm"} =>
                      toWriter'[k].file_num < toWriter'[i].file_num
    <3>1. k + 1 \in 1 .. Len(toWriter) /\ toWriter'[k] = toWriter[k + 1]
      BY <1>1
    <3>2. (k > i => k + 1 > i + 1) /\ (k < i => k + 1 < i + 1)
      OBVIOUS
    <3> QED
      BY <3>1, <3>2, <2>1, <2>2, <2>3
  <2> QED
    BY <2>1, <2>2, <2>3
<1>11. Tokens(id)'
  BY <1>2, <1>3 DEF Tokens, Asked, Mentions
<1>12. Asks(id)'
  BY <1>2 DEF Asks, Mentions
<1>13. Confirms(id)'
  BY <1>4 DEF Confirms
<1>14. Blocks(id)'
  BY <1>1, <1>4, <1>0 DEF JobInv, Blocks
<1>15. Opens(id)'
  BY DEF Opens, Open
<1>16. Cancels(id)'
  BY <1>1 DEF JobInv, Cancels
<1> QED
  BY <1>6, <1>7, <1>8, <1>9, <1>10, <1>11, <1>12, <1>13, <1>14, <1>15, <1>16 DEF JobInv

\* The job of the reader of a download.
LEMMA ReaderSent ==
  ASSUME FileTypeOK, KindInv, transfer' = transfer, NEW id \in Jobs, JobInv(id),
         toReader # <<>>, toReader' = Tail(toReader), Head(toReader).id = id,
         Head(toReader).type = "send",
         NEW m \in Messages, toWriter' = Append(toWriter, m), m.id = id, m.type = "dir",
         ~read_jobs'[id].is_last_job, read_jobs'[id].stream = None,
         ~read_jobs'[id].confirmed, ~read_jobs'[id].waiting,
         UNCHANGED <<source, write_jobs, download, digest, asking, started>>
  PROVE  JobInv(id)'
<1> DEFINE w == write_jobs[id]
<1>0. /\ Upload' = Upload /\ N' = N /\ FileNums' = FileNums /\ Size' = Size /\ Markers' = Markers
  BY TransferSame
<1>1. /\ 1 \in 1 .. Len(toReader) /\ toReader[1] = Head(toReader)
      /\ \A i \in 1 .. Len(toReader') :
            i + 1 \in 1 .. Len(toReader) /\ toReader'[i] = toReader[i + 1] /\ i + 1 # 1
  <2>1. /\ Len(toReader) \in Nat \ {0} /\ Head(toReader) = toReader[1]
        /\ Len(toReader') = Len(toReader) - 1
        /\ \A i \in 1 .. Len(toReader) - 1 : toReader'[i] = toReader[i + 1]
    BY TailFacts DEF FileTypeOK
  <2> QED
    BY <2>1
<1>2. /\ ~Mentions(toWriter, id) /\ ~Asked(id)
      /\ \A k \in 1 .. Len(toReader) : toReader[k].id = id /\ k # 1 => toReader[k].type = "cancel"
      /\ w # NoJob => w.stream = None
  BY <1>1 DEF JobInv, Sends
<1>3. ~(id > started) /\ (w # NoJob => ~w.is_last_job)
  <2>1. Mentions(toReader, id)
    BY <1>1 DEF Mentions
  <2> QED
    BY <2>1 DEF JobInv, Fresh, Untouched
<1>4. \A i \in 1 .. Len(toReader') : toReader'[i].id = id => toReader'[i].type = "cancel"
  BY <1>1, <1>2
<1>5. /\ Len(toWriter) \in Nat /\ Len(toWriter') = Len(toWriter) + 1
      /\ \A i \in 1 .. Len(toWriter) : toWriter'[i] = toWriter[i]
      /\ toWriter'[Len(toWriter) + 1] = m
  BY AppendFacts DEF FileTypeOK
<1>6. ASSUME NEW i \in 1 .. Len(toWriter'), toWriter'[i].id = id PROVE toWriter'[i].type = "dir"
  BY <1>2, <1>5, <1>6 DEF Mentions
<1>7. ~Asked(id)'
  BY <1>0, <1>2 DEF Asked
<1>8. Fresh(id)'
  BY <1>3 DEF Fresh
<1>9. Sends(id)'
  BY <1>4 DEF Sends
<1>10. Receives(id)'
  BY <1>6 DEF Receives
<1>11. Reader(id)'
  BY DEF Reader
<1>12. Digests(id)'
  BY <1>6 DEF Digests
<1>13. Tokens(id)'
  BY <1>4, <1>7 DEF Tokens, Asked
<1>14. Asks(id)'
  BY <1>4 DEF Asks
<1>15. Confirms(id)'
  BY <1>6 DEF Confirms
<1>16. Blocks(id)'
  BY <1>6 DEF Blocks
<1>17. Opens(id)'
  BY <1>2 DEF Opens, Open
<1>18. Cancels(id)'
  BY <1>6 DEF Cancels
<1> QED
  BY <1>8, <1>9, <1>10, <1>11, <1>12, <1>13, <1>14, <1>15, <1>16, <1>17, <1>18 DEF JobInv

\* The controlling side starts or resumes a job.
LEMMA JobStarts ==
  ASSUME FileTypeOK, KindInv, transfer' = transfer, NEW id \in Jobs, Untouched(id),
         ~(id > started'),
         \/ /\ write_jobs'[id] = NoJob
            /\ read_jobs'[id] # NoJob => /\ ~read_jobs'[id].is_last_job /\ read_jobs'[id].stream = None
                                         /\ ~read_jobs'[id].confirmed /\ ~read_jobs'[id].waiting
            /\ toReader' = toReader
            /\ \E m \in Messages : /\ toWriter' = Append(toWriter, m)
                                   /\ m.id = id /\ m.type = "receive"
         \/ /\ read_jobs'[id] = NoJob
            /\ write_jobs'[id] # NoJob => ~write_jobs'[id].is_last_job /\ write_jobs'[id].stream = None
            /\ toWriter' = toWriter
            /\ \E m \in Messages : /\ toReader' = Append(toReader, m)
                                   /\ m.id = id /\ m.type = "send",
         asking' = asking
  PROVE  JobInv(id)'
<1>0. /\ Upload' = Upload /\ N' = N /\ FileNums' = FileNums /\ Size' = Size /\ Markers' = Markers
  BY TransferSame
<1>1. /\ Len(toReader) \in Nat /\ Len(toWriter) \in Nat
      /\ \A i \in 1 .. Len(toReader) : toReader[i].id # id
      /\ \A i \in 1 .. Len(toWriter) : toWriter[i].id # id
  BY LenProperties DEF FileTypeOK, Untouched, Mentions
<1>2. ~Asked(id)'
  BY <1>0 DEF Asked, Untouched
<1>3. ASSUME NEW q \in Seq(Messages), NEW m \in Messages, NEW p, p = Append(q, m),
             \A i \in 1 .. Len(q) : q[i].id # id
      PROVE  \A i \in 1 .. Len(p) : p[i].id = id => i = Len(q) + 1 /\ p[i] = m
  <2>1. /\ Len(p) = Len(q) + 1 /\ p[Len(q) + 1] = m /\ Len(q) \in Nat
        /\ \A i \in 1 .. Len(q) : p[i] = q[i]
    BY <1>3, AppendFacts
  <2> QED
    BY <2>1, <1>3
<1>4. CASE /\ write_jobs'[id] = NoJob
           /\ read_jobs'[id] # NoJob => /\ ~read_jobs'[id].is_last_job /\ read_jobs'[id].stream = None
                                        /\ ~read_jobs'[id].confirmed /\ ~read_jobs'[id].waiting
           /\ toReader' = toReader
           /\ \E m \in Messages : /\ toWriter' = Append(toWriter, m)
                                  /\ m.id = id /\ m.type = "receive"
  <2>1. PICK m \in Messages : toWriter' = Append(toWriter, m) /\ m.id = id /\ m.type = "receive"
    BY <1>4
  <2>2. \A i \in 1 .. Len(toWriter') : toWriter'[i].id = id => i = Len(toWriter) + 1 /\ toWriter'[i].type = "receive"
    <3>1. toWriter \in Seq(Messages)
      BY DEF FileTypeOK
    <3> QED
      BY <3>1, <2>1, <1>1, <1>3
  <2>3. \A i \in 1 .. Len(toReader') : toReader'[i].id # id
    BY <1>1, <1>4
  <2>5. Fresh(id)' /\ Sends(id)' /\ Reader(id)' /\ Opens(id)'
    BY <1>4, <2>3 DEF Fresh, Sends, Reader, Opens, Open
  <2>6. Receives(id)'
    BY <1>2, <1>4, <2>2, <2>3 DEF Receives, Mentions
  <2>7. Digests(id)' /\ Confirms(id)' /\ Blocks(id)' /\ Cancels(id)'
    BY <2>2 DEF Digests, Confirms, Blocks, Cancels
  <2>8. Tokens(id)' /\ Asks(id)'
    BY <1>2, <2>3 DEF Tokens, Asks, Asked
  <2> QED
    BY <2>5, <2>6, <2>7, <2>8 DEF JobInv
<1>5. CASE /\ read_jobs'[id] = NoJob
           /\ write_jobs'[id] # NoJob => ~write_jobs'[id].is_last_job /\ write_jobs'[id].stream = None
           /\ toWriter' = toWriter
           /\ \E m \in Messages : /\ toReader' = Append(toReader, m)
                                  /\ m.id = id /\ m.type = "send"
  <2>1. PICK m \in Messages : toReader' = Append(toReader, m) /\ m.id = id /\ m.type = "send"
    BY <1>5
  <2>2. \A i \in 1 .. Len(toReader') : toReader'[i].id = id => i = Len(toReader) + 1 /\ toReader'[i].type = "send"
    <3>1. toReader \in Seq(Messages)
      BY DEF FileTypeOK
    <3> QED
      BY <3>1, <2>1, <1>1, <1>3
  <2>3. \A i \in 1 .. Len(toWriter') : toWriter'[i].id # id
    BY <1>1, <1>5
  <2>5. Fresh(id)' /\ Reader(id)' /\ Opens(id)'
    BY <1>5 DEF Fresh, Reader, Opens, Open
  <2>6. Sends(id)'
    BY <1>2, <1>5, <2>2, <2>3 DEF Sends, Mentions
  <2>7. Digests(id)' /\ Confirms(id)' /\ Blocks(id)' /\ Cancels(id)' /\ Receives(id)'
    BY <2>3 DEF Digests, Confirms, Blocks, Cancels, Receives
  <2>8. Tokens(id)' /\ Asks(id)'
    BY <1>2, <2>2 DEF Tokens, Asks, Asked
  <2> QED
    BY <2>5, <2>6, <2>7, <2>8 DEF JobInv
<1> QED
  BY <1>4, <1>5

-----------------------------------------------------------------------------
(* Jobs, lists, the disk.                                                  *)

LEMMA ReadFacts ==
  ASSUME FileTypeOK, NEW r \in ReadJobs(transfer)
  PROVE  /\ r # NoJob /\ r.file_num \in 0 .. N /\ r.stream \in Nat \cup {None}
         /\ r.is_resume \in BOOLEAN /\ r.is_last_job \in BOOLEAN /\ r.strategy \in Strategies
         /\ r.confirmed \in BOOLEAN /\ r.waiting \in BOOLEAN
         /\ r.file_num \in FileNums => /\ NextFile(r) \in ReadJobs(transfer)
                                       /\ NextFile(r).file_num = r.file_num + 1
                                       /\ NextFile(r).stream = None /\ ~NextFile(r).confirmed
                                       /\ ~NextFile(r).waiting
                                       /\ NextFile(r).is_last_job = r.is_last_job
                                       /\ NextFile(r).error = r.error
                                       /\ [NextFile(r) EXCEPT !.error = TRUE] \in ReadJobs(transfer)
<1>1. /\ r # NoJob /\ r.file_num \in 0 .. N /\ r.stream \in Nat \cup {None}
      /\ r.is_resume \in BOOLEAN /\ r.is_last_job \in BOOLEAN /\ r.strategy \in Strategies
      /\ r.confirmed \in BOOLEAN /\ r.waiting \in BOOLEAN
  BY TransferFacts DEF FileTypeOK, ReadJobs, N
<1>2. ASSUME r.file_num \in FileNums PROVE NextFile(r) \in ReadJobs(transfer) /\ NextFile(r).file_num = r.file_num + 1
  <2>1. r.file_num + 1 \in 0 .. transfer.entries
    BY <1>2, TransferFacts DEF FileTypeOK, N
  <2> QED
    BY <2>1 DEF ReadJobs, NextFile
<1>3. /\ NextFile(r).stream = None /\ ~NextFile(r).confirmed
      /\ ~NextFile(r).waiting
      /\ NextFile(r).is_last_job = r.is_last_job
      /\ NextFile(r).error = r.error
  BY DEF ReadJobs, NextFile
<1>4. ASSUME NEW x \in ReadJobs(transfer) PROVE [x EXCEPT !.error = TRUE] \in ReadJobs(transfer)
  BY DEF ReadJobs
<1> QED
  BY <1>1, <1>2, <1>3, <1>4

LEMMA NewFacts ==
  ASSUME FileTypeOK, NEW f \in 0 .. N, NEW last \in BOOLEAN
  PROVE  /\ NewRead(f, last) \in ReadJobs(transfer) /\ NewRead(f, last) # NoJob
         /\ NewRead(f, last).is_last_job = last /\ NewRead(f, last).stream = None
         /\ ~NewRead(f, last).confirmed /\ ~NewRead(f, last).waiting /\ ~NewRead(f, last).error
         /\ NewWrite(f, last) \in WriteJobs(transfer) /\ NewWrite(f, last) # NoJob
         /\ NewWrite(f, last).is_last_job = last /\ NewWrite(f, last).stream = None
         /\ NewWrite(f, last).listed = Upload
<1>1. f \in 0 .. transfer.entries /\ transfer.versions \in Nat /\ Upload \in BOOLEAN
  BY TransferFacts DEF FileTypeOK, N, MaxVersion
<1>2. "ask" \in Strategies /\ 0 \in 0 .. transfer.versions
  BY <1>1 DEF Strategies
<1>3. NewRead(f, last) \in ReadJobs(transfer)
  BY <1>1, <1>2 DEF ReadJobs, NewRead
<1>4. NewWrite(f, last) \in WriteJobs(transfer)
  BY <1>1, <1>2 DEF WriteJobs, NewWrite
<1>5. /\ NewRead(f, last).is_last_job = last /\ NewRead(f, last).stream = None
      /\ ~NewRead(f, last).confirmed /\ ~NewRead(f, last).waiting /\ ~NewRead(f, last).error
      /\ NewWrite(f, last).is_last_job = last /\ NewWrite(f, last).stream = None
      /\ NewWrite(f, last).listed = Upload
  BY DEF NewRead, NewWrite
<1> QED
  BY <1>3, <1>4, <1>5, TransferFacts DEF FileTypeOK

LEMMA ConfirmReadFacts ==
  ASSUME FileTypeOK, NEW r \in ReadJobs(transfer), NEW f \in FileNums, NEW offset \in Nat \cup {Skip}
  PROVE  /\ ConfirmRead(r, f, offset) \in ReadJobs(transfer)
         /\ ConfirmRead(r, f, offset).is_last_job = r.is_last_job
         /\ ConfirmRead(r, f, offset).error = r.error
         /\ r.file_num = f /\ r.stream # None =>
               \/ /\ ConfirmRead(r, f, offset).file_num = f
                  /\ ConfirmRead(r, f, offset).stream # None
                  /\ ConfirmRead(r, f, offset).confirmed
                  /\ ConfirmRead(r, f, offset).waiting = r.waiting
               \/ /\ ConfirmRead(r, f, offset).file_num = f + 1
                  /\ ConfirmRead(r, f, offset).stream = None
                  /\ ~ConfirmRead(r, f, offset).confirmed
                  /\ ~ConfirmRead(r, f, offset).waiting
<1>1. f + 1 \in 0 .. transfer.entries
  BY TransferFacts DEF FileTypeOK, N
<1> DEFINE a == [r EXCEPT !.stream = None, !.confirmed = FALSE, !.waiting = FALSE,
                          !.file_num = f + 1, !.skipped = TRUE]
           b == [r EXCEPT !.confirmed = TRUE, !.skipped = FALSE,
                          !.stream = IF offset > 0 THEN offset ELSE @]
<1>2. a \in ReadJobs(transfer) /\ a.is_last_job = r.is_last_job /\ a.error = r.error
      /\ a.file_num = f + 1 /\ a.stream = None /\ ~a.confirmed /\ ~a.waiting
  BY <1>1 DEF ReadJobs
<1>3. ASSUME offset # Skip
      PROVE  /\ b \in ReadJobs(transfer) /\ b.is_last_job = r.is_last_job /\ b.error = r.error
             /\ b.file_num = r.file_num /\ (r.stream # None => b.stream # None) /\ b.confirmed
             /\ b.waiting = r.waiting
  <2>1. offset \in Nat /\ offset # None
    BY <1>3 DEF Skip, None
  <2>2. /\ b.is_last_job = r.is_last_job /\ b.error = r.error
        /\ b.file_num = r.file_num /\ b.confirmed
        /\ b.waiting = r.waiting /\ b.stream = IF offset > 0 THEN offset ELSE r.stream
    BY DEF ReadJobs
  <2>3. b \in ReadJobs(transfer)
    BY <2>1 DEF ReadJobs
  <2> QED
    BY <2>1, <2>2, <2>3
<1>4. CASE r.file_num # f
  BY <1>4 DEF ConfirmRead
<1>5. CASE r.file_num = f /\ offset = Skip
  BY <1>2, <1>5 DEF ConfirmRead
<1>6. CASE r.file_num = f /\ offset # Skip
  BY <1>3, <1>6 DEF ConfirmRead
<1> QED
  BY <1>4, <1>5, <1>6

LEMMA ConfirmWriteFacts ==
  ASSUME FileTypeOK, NEW w \in WriteJobs(transfer), NEW f \in FileNums, NEW offset \in Nat \cup {Skip}
  PROVE  /\ ConfirmWrite(w, f, offset) \in WriteJobs(transfer)
         /\ ConfirmWrite(w, f, offset).is_last_job = w.is_last_job
         /\ ConfirmWrite(w, f, offset).digest = w.digest
         /\ \/ /\ ConfirmWrite(w, f, offset).file_num = w.file_num
               /\ ConfirmWrite(w, f, offset).stream = w.stream
            \/ ConfirmWrite(w, f, offset).stream = None
            \/ /\ ConfirmWrite(w, f, offset).file_num = f
               /\ ConfirmWrite(w, f, offset).stream = offset
               /\ offset \in Nat /\ offset > 0
               /\ download[f] # Absent /\ digest[f] # Absent
<1>1. f + 1 \in 0 .. transfer.entries
  BY TransferFacts DEF FileTypeOK, N
<1> DEFINE a == [w EXCEPT !.stream = None, !.file_num = f + 1]
           b == [w EXCEPT !.stream = offset]
<1>2. a \in WriteJobs(transfer) /\ a.is_last_job = w.is_last_job /\ a.digest = w.digest /\ a.stream = None
  BY <1>1 DEF WriteJobs
<1>3. ASSUME offset # Skip
      PROVE  /\ offset \in Nat /\ b \in WriteJobs(transfer) /\ b.is_last_job = w.is_last_job /\ b.digest = w.digest
             /\ b.file_num = w.file_num /\ b.stream = offset
  <2>1. offset \in Nat
    BY <1>3
  <2> QED
    BY <2>1 DEF WriteJobs
<1>4. [w EXCEPT !.stream = @] = w
  BY DEF WriteJobs
<1>5. CASE w.file_num # f
  BY <1>5 DEF ConfirmWrite
<1>6. CASE w.file_num = f /\ offset = Skip
  BY <1>2, <1>6 DEF ConfirmWrite
<1>7. CASE w.file_num = f /\ offset # Skip /\ offset > 0 /\ download[f] # Absent /\ digest[f] # Absent
  BY <1>3, <1>7 DEF ConfirmWrite
<1>8. CASE w.file_num = f /\ offset # Skip /\ ~(offset > 0 /\ download[f] # Absent /\ digest[f] # Absent)
  <2>1. ConfirmWrite(w, f, offset) = [w EXCEPT !.stream = @]
    BY <1>8 DEF ConfirmWrite
  <2> QED
    BY <2>1, <1>4
<1> QED
  BY <1>5, <1>6, <1>7, <1>8

LEMMA WriteFacts ==
  ASSUME FileTypeOK, NEW w \in WriteJobs(transfer)
  PROVE  /\ w # NoJob /\ w.file_num \in 0 .. N /\ w.stream \in Nat \cup {None}
         /\ w.digest \in 0 .. MaxVersion /\ w.listed \in BOOLEAN /\ w.strategy \in Strategies
         /\ w.is_resume \in BOOLEAN /\ w.is_last_job \in BOOLEAN
         /\ \A v \in 0 .. MaxVersion :
               /\ [w EXCEPT !.digest = v] \in WriteJobs(transfer)
               /\ [w EXCEPT !.digest = v].digest = v
               /\ [w EXCEPT !.digest = v].file_num = w.file_num
               /\ [w EXCEPT !.digest = v].stream = w.stream
               /\ [w EXCEPT !.digest = v].is_last_job = w.is_last_job
<1>1. /\ w # NoJob /\ w.file_num \in 0 .. N /\ w.stream \in Nat \cup {None}
      /\ w.digest \in 0 .. MaxVersion /\ w.listed \in BOOLEAN /\ w.strategy \in Strategies
      /\ w.is_resume \in BOOLEAN /\ w.is_last_job \in BOOLEAN
  BY TransferFacts DEF FileTypeOK, WriteJobs, N, MaxVersion
<1>2. \A v \in 0 .. MaxVersion :
               /\ [w EXCEPT !.digest = v] \in WriteJobs(transfer)
               /\ [w EXCEPT !.digest = v].digest = v
               /\ [w EXCEPT !.digest = v].file_num = w.file_num
               /\ [w EXCEPT !.digest = v].stream = w.stream
               /\ [w EXCEPT !.digest = v].is_last_job = w.is_last_job
  BY DEF WriteJobs, MaxVersion
<1> QED
  BY <1>1, <1>2

LEMMA ListedFacts ==
  ASSUME NEW S, NEW jobs \in [Jobs -> S], NEW q \in Seq(Jobs), ListedIn(q, jobs), NEW id \in Jobs
  PROVE  /\ \A x \in S : x # NoJob /\ jobs[id] # NoJob => ListedIn(q, [jobs EXCEPT ![id] = x])
         /\ \A x \in S : x # NoJob /\ jobs[id] = NoJob => ListedIn(Append(q, id), [jobs EXCEPT ![id] = x])
         /\ ListedIn(Without(q, id), [jobs EXCEPT ![id] = NoJob])
         /\ Without(q, id) \in Seq(Jobs) /\ Append(q, id) \in Seq(Jobs)
<1>1. Once(q) /\ \A j \in Jobs : jobs[j] # NoJob <=> In(q, j)
  BY DEF ListedIn
<1>2. ASSUME NEW x \in S, x # NoJob, jobs[id] # NoJob PROVE ListedIn(q, [jobs EXCEPT ![id] = x])
  BY <1>1, <1>2 DEF ListedIn
<1>3. ASSUME NEW x \in S, x # NoJob, jobs[id] = NoJob
      PROVE  ListedIn(Append(q, id), [jobs EXCEPT ![id] = x])
  <2>1. /\ Once(Append(q, id))
        /\ \A y : In(Append(q, id), y) <=> In(q, y) \/ y = id
    BY <1>1, <1>3, OnceAppend
  <2> QED
    BY <2>1, <1>1, <1>3 DEF ListedIn
<1>4. /\ Without(q, id) \in Seq(Jobs) /\ Once(Without(q, id))
      /\ \A y : In(Without(q, id), y) <=> In(q, y) /\ y # id
  BY <1>1, WithoutFacts
<1>5. ListedIn(Without(q, id), [jobs EXCEPT ![id] = NoJob])
  BY <1>1, <1>4 DEF ListedIn
<1> QED
  BY <1>2, <1>3, <1>4, <1>5, AppendFacts

-----------------------------------------------------------------------------
(* The disk.                                                               *)

Prefix(f, content, version) == \E n \in 0 .. Size[f] : content = SubSeq(Whole(f, version), 1, n)
FileGood(f, content, version, out) ==
    /\ version # Absent => version >= 1
    /\ content = Absent <=> version = Absent
    /\ out \/ content = Absent \/ Prefix(f, content, version)

LEMMA DiskFacts ==
  DiskInv <=> \A f \in FileNums : FileGood(f, download[f], digest[f], f \in misplaced)
BY DEF DiskInv, Resumable, FileGood, Prefix

LEMMA DiskStays ==
  ASSUME DiskInv, transfer' = transfer, UNCHANGED <<download, digest, misplaced>>
  PROVE  DiskInv'
BY TransferSame DEF DiskInv, Resumable, Whole

LEMMA ContentFacts ==
  ASSUME FileTypeOK
  PROVE  /\ Absent \notin Contents /\ Absent \notin Nat
         /\ \A c \in Contents : c # Absent /\ Len(c) \in Nat
         /\ <<>> \in Contents
         /\ \A v \in 0 .. MaxVersion, i \in Nat : << <<v, i>> >> \in Contents /\ Len(<< <<v, i>> >>) = 1
         /\ 0 .. MaxVersion \subseteq Nat
<1>1. MaxVersion \in Nat /\ 0 .. MaxVersion \subseteq Nat
  BY TransferFacts DEF FileTypeOK
<1>2. Pieces \subseteq Nat \X Nat
  BY <1>1 DEF Pieces
<1>3. ASSUME NEW c \in Seq(Pieces) PROVE c \in Seq(Nat \X Nat) /\ Len(c) \in Nat
  <2>1. Len(c) \in Nat /\ c \in [1 .. Len(c) -> Pieces]
    BY LenProperties
  <2>2. c \in [1 .. Len(c) -> Nat \X Nat]
    BY <2>1, <1>2
  <2> QED
    BY <2>1, <2>2 DEF Seq
<1>4. \A v \in 0 .. MaxVersion, i \in Nat : << <<v, i>> >> \in Seq(Pieces) /\ Len(<< <<v, i>> >>) = 1
  <2> SUFFICES ASSUME NEW v \in 0 .. MaxVersion, NEW i \in Nat
               PROVE  << <<v, i>> >> \in Seq(Pieces) /\ Len(<< <<v, i>> >>) = 1
    OBVIOUS
  <2>1. <<v, i>> \in Pieces
    BY DEF Pieces
  <2> QED
    BY <2>1
<1> QED
  BY <1>1, <1>3, <1>4, FileAssumption DEF Contents

LEMMA PrefixFacts ==
  ASSUME FileTypeOK, NEW f \in FileNums, NEW v \in 0 .. MaxVersion, NEW n \in 0 .. Size[f]
  PROVE  /\ SubSeq(Whole(f, v), 1, n) \in Contents /\ Len(SubSeq(Whole(f, v), 1, n)) = n
         /\ \A i \in 1 .. n : SubSeq(Whole(f, v), 1, n)[i] = <<v, i>>
         /\ Size[f] \in Nat
<1>1. Size[f] \in Nat
  BY TransferFacts DEF FileTypeOK
<1>2. \A i \in 1 .. n : Whole(f, v)[i] = <<v, i>> /\ Whole(f, v)[i] \in Pieces
  <2>1. \A i \in 1 .. n : i \in 1 .. Size[f] /\ i \in Nat
    BY <1>1
  <2> QED
    BY <2>1 DEF Whole, Pieces
<1>3. /\ SubSeq(Whole(f, v), 1, n) \in Seq(Pieces)
      /\ Len(SubSeq(Whole(f, v), 1, n)) = IF 1 <= n THEN n - 1 + 1 ELSE 0
      /\ \A i \in 1 .. n - 1 + 1 : SubSeq(Whole(f, v), 1, n)[i] = Whole(f, v)[1 + i - 1]
  <2>1. 1 \in Int /\ n \in Int /\ \A i \in 1 .. n : Whole(f, v)[i] \in Pieces
    BY <1>1, <1>2
  <2> QED
    BY <2>1, SubSeqProperties
<1> QED
  BY <1>1, <1>2, <1>3 DEF Contents

LEMMA PrefixMade ==
  ASSUME FileTypeOK, NEW f \in FileNums, NEW v \in 0 .. MaxVersion, NEW c \in Contents,
         Len(c) <= Size[f], \A i \in 1 .. Len(c) : c[i] = <<v, i>>
  PROVE  Prefix(f, c, v)
<1>1. Len(c) \in Nat /\ Size[f] \in Nat
  BY LenProperties, TransferFacts DEF FileTypeOK, Contents
<1>2. Len(c) \in 0 .. Size[f]
  BY <1>1
<1>3. /\ SubSeq(Whole(f, v), 1, Len(c)) \in Contents
      /\ Len(SubSeq(Whole(f, v), 1, Len(c))) = Len(c)
      /\ \A i \in 1 .. Len(c) : SubSeq(Whole(f, v), 1, Len(c))[i] = <<v, i>>
  BY <1>2, PrefixFacts
<1>4. c = SubSeq(Whole(f, v), 1, Len(c))
  <2> DEFINE s == SubSeq(Whole(f, v), 1, Len(c))
  <2>1. s \in Seq(Pieces) /\ c \in Seq(Pieces) /\ Len(s) = Len(c) /\ \A i \in 1 .. Len(c) : s[i] = c[i]
    BY <1>3 DEF Contents
  <2> HIDE DEF s
  <2>2. c = s
    BY <2>1, SeqEqual
  <2> QED
    BY <2>2 DEF s
<1> QED
  BY <1>2, <1>4 DEF Prefix

LEMMA PutFacts ==
  ASSUME NEW S, NEW c \in Seq(S), NEW p \in Nat, p <= Len(c), NEW d \in Seq(S)
  PROVE  /\ Put(c, p, d) \in Seq(S)
         /\ Len(Put(c, p, d)) = IF p + Len(d) >= Len(c) THEN p + Len(d) ELSE Len(c)
         /\ \A i \in 1 .. Len(Put(c, p, d)) :
               Put(c, p, d)[i] = IF p < i /\ i <= p + Len(d) THEN d[i - p] ELSE c[i]
<1> DEFINE a == SubSeq(c, 1, p)
           b == SubSeq(c, p + Len(d) + 1, Len(c))
           m == Len(d)
           k == Len(c)
<1>1. m \in Nat /\ k \in Nat /\ \A i \in 1 .. k : c[i] \in S
  BY LenProperties, ElementOfSeq
<1>2. a \in Seq(S) /\ Len(a) = p /\ \A i \in 1 .. p : a[i] = c[i]
  <2>1. 1 \in Int /\ p \in Int /\ \A i \in 1 .. p : c[i] \in S
    BY <1>1
  <2>2. /\ a \in Seq(S) /\ Len(a) = IF 1 <= p THEN p - 1 + 1 ELSE 0
        /\ \A i \in 1 .. p - 1 + 1 : a[i] = c[1 + i - 1]
    BY <2>1, SubSeqProperties
  <2> QED
    BY <2>2
<1>3. /\ b \in Seq(S) /\ Len(b) = IF p + m >= k THEN 0 ELSE k - (p + m)
      /\ \A i \in 1 .. Len(b) : b[i] = c[p + m + i]
  <2>1. p + m + 1 \in Int /\ k \in Int /\ \A i \in p + m + 1 .. k : c[i] \in S
    BY <1>1
  <2>2. /\ b \in Seq(S) /\ Len(b) = IF p + m + 1 <= k THEN k - (p + m + 1) + 1 ELSE 0
        /\ \A i \in 1 .. k - (p + m + 1) + 1 : b[i] = c[(p + m + 1) + i - 1]
    BY <2>1, SubSeqProperties, SMTT(30)
  <2>3. Len(b) = IF p + m >= k THEN 0 ELSE k - (p + m)
    BY <2>2, <1>1
  <2>4. \A i \in 1 .. Len(b) : i \in 1 .. k - (p + m + 1) + 1 /\ (p + m + 1) + i - 1 = p + m + i
    BY <2>3, <1>1
  <2> QED
    BY <2>2, <2>3, <2>4
<1> HIDE DEF a, b
<1>4. /\ a \o d \in Seq(S) /\ Len(a \o d) = p + m
      /\ \A i \in 1 .. p + m : (a \o d)[i] = IF i <= p THEN a[i] ELSE d[i - p]
  BY <1>1, <1>2, ConcatProperties
<1> DEFINE e == a \o d
           z == e \o b
<1>6. Put(c, p, d) = z
  BY DEF Put, a, b
<1>5. /\ e \in Seq(S) /\ Len(e) = p + m
      /\ \A i \in 1 .. p + m : e[i] = IF i <= p THEN a[i] ELSE d[i - p]
  BY <1>4
<1> HIDE DEF e
<1>7. /\ z \in Seq(S) /\ Len(z) = p + m + Len(b)
      /\ \A i \in 1 .. p + m + Len(b) : z[i] = IF i <= p + m THEN e[i] ELSE b[i - (p + m)]
  <2>1. /\ z \in Seq(S) /\ Len(z) = Len(e) + Len(b)
        /\ \A i \in 1 .. Len(e) + Len(b) : z[i] = IF i <= Len(e) THEN e[i] ELSE b[i - Len(e)]
    BY <1>3, <1>5, ConcatProperties
  <2> QED
    BY <2>1, <1>5
<1>m. m \in Nat /\ k \in Nat
  BY <1>1
<1> HIDE DEF z, m, k
<1>8. Len(z) = IF p + m >= k THEN p + m ELSE k
  <2>1. CASE p + m >= k
    BY <2>1, <1>m, <1>3, <1>7
  <2>2. CASE ~(p + m >= k)
    BY <2>2, <1>m, <1>3, <1>7
  <2> QED
    BY <2>1, <2>2
<1>9. ASSUME NEW i \in 1 .. Len(z) PROVE z[i] = IF p < i /\ i <= p + m THEN d[i - p] ELSE c[i]
  <2>1. CASE i <= p
    <3>1. i \in 1 .. p /\ i \in 1 .. p + m /\ i <= p + m /\ ~(p < i)
      BY <2>1, <1>m
    <3>2. z[i] = e[i]
      BY <3>1, <1>7
    <3>3. e[i] = a[i]
      BY <3>1, <2>1, <1>5
    <3> QED
      BY <3>1, <3>2, <3>3, <1>2
  <2>2. CASE p < i /\ i <= p + m
    <3>1. i \in 1 .. p + m /\ ~(i <= p)
      BY <2>2, <1>m
    <3>2. z[i] = e[i]
      BY <2>2, <1>7
    <3>3. e[i] = d[i - p]
      BY <3>1, <1>5
    <3> QED
      BY <2>2, <3>2, <3>3
  <2>3. CASE i > p + m
    <3>0. Len(b) \in Nat
      BY <1>3, LenProperties
    <3>1. i - (p + m) \in 1 .. Len(b) /\ p + m + (i - (p + m)) = i /\ ~(i <= p + m)
      BY <2>3, <3>0, <1>m, <1>7
    <3>2. z[i] = b[i - (p + m)]
      BY <3>1, <1>7
    <3>3. b[i - (p + m)] = c[i]
      BY <3>1, <1>3
    <3> QED
      BY <3>1, <3>2, <3>3
  <2> QED
    BY <2>1, <2>2, <2>3, <1>m
<1> QED
  BY <1>6, <1>7, <1>8, <1>9 DEF m, k

-----------------------------------------------------------------------------

LEMMA DiskMoves ==
  ASSUME transfer' = transfer,
         \A f \in FileNums : FileGood(f, download'[f], digest'[f], f \in misplaced')
  PROVE  DiskInv'
BY TransferSame DEF DiskInv, Resumable, FileGood, Prefix, Whole

\* What naming or removing the file of a job leaves.
LEMMA NamedFacts ==
  ASSUME FileTypeOK, DiskInv, NEW w \in WriteJobs(transfer)
  PROVE  /\ DownloadNamed(w) \in [FileNums -> Contents \cup {Absent}]
         /\ DigestNamed(w) \in [FileNums -> (0 .. MaxVersion) \cup {Absent}]
         /\ FinalNamed(w) \in [FileNums -> Contents \cup {Absent}]
         /\ \A f \in FileNums : FileGood(f, DownloadNamed(w)[f], DigestNamed(w)[f], f \in misplaced)
         /\ Names(w) => /\ w.file_num \in FileNums
                        /\ DownloadNamed(w) = [download EXCEPT ![w.file_num] = Absent]
                        /\ DigestNamed(w) = [digest EXCEPT ![w.file_num] = Absent]
         /\ ~Names(w) => DownloadNamed(w) = download /\ DigestNamed(w) = digest
<1>1. /\ download \in [FileNums -> Contents \cup {Absent}]
      /\ digest \in [FileNums -> (0 .. MaxVersion) \cup {Absent}]
      /\ final \in [FileNums -> Contents \cup {Absent}]
      /\ \A f \in FileNums : FileGood(f, download[f], digest[f], f \in misplaced)
  BY DiskFacts DEF FileTypeOK
<1>2. Names(w) => w.file_num \in FileNums
  <2>1. w.file_num \in 0 .. N /\ N \in Nat
    BY WriteFacts, TransferFacts DEF FileTypeOK
  <2> QED
    BY <2>1 DEF Names, FileNums
<1>3. /\ Names(w) => /\ DownloadNamed(w) = [download EXCEPT ![w.file_num] = Absent]
                     /\ DigestNamed(w) = [digest EXCEPT ![w.file_num] = Absent]
      /\ ~Names(w) => DownloadNamed(w) = download /\ DigestNamed(w) = digest
  <2>1. CASE Renames(w)
    BY <2>1 DEF Renames, DownloadNamed, DigestNamed
  <2>2. CASE Names(w) /\ ~Renames(w)
    <3>1. download[w.file_num] = Absent
      BY <2>2 DEF Renames
    <3>2. download = [download EXCEPT ![w.file_num] = Absent]
      BY <3>1, <1>1
    <3> QED
      BY <3>2, <2>2 DEF DownloadNamed, DigestNamed
  <2>3. CASE ~Names(w)
    BY <2>3 DEF Renames, DownloadNamed, DigestNamed
  <2> QED
    BY <2>1, <2>2, <2>3 DEF Renames
<1>4. /\ DownloadNamed(w) \in [FileNums -> Contents \cup {Absent}]
      /\ DigestNamed(w) \in [FileNums -> (0 .. MaxVersion) \cup {Absent}]
  BY <1>1, <1>2, <1>3
<1>5. FinalNamed(w) \in [FileNums -> Contents \cup {Absent}]
  BY <1>1, <1>2 DEF FinalNamed, Renames
<1>6. ASSUME NEW f \in FileNums PROVE FileGood(f, DownloadNamed(w)[f], DigestNamed(w)[f], f \in misplaced)
  <2>1. CASE Names(w) /\ f = w.file_num
    <3>1. DownloadNamed(w)[f] = Absent /\ DigestNamed(w)[f] = Absent
      BY <2>1, <1>1, <1>2, <1>3
    <3> QED
      BY <3>1 DEF FileGood
  <2>2. CASE ~(Names(w) /\ f = w.file_num)
    <3>1. DownloadNamed(w)[f] = download[f] /\ DigestNamed(w)[f] = digest[f]
      BY <2>2, <1>1, <1>2, <1>3
    <3> QED
      BY <3>1, <1>1
  <2> QED
    BY <2>1, <2>2
<1> QED
  BY <1>2, <1>3, <1>4, <1>5, <1>6

\* A block as Blocks(j) describes it.
BlockGood(f, data, at, version) ==
    /\ version >= 1
    /\ data # <<>> => at < Size[f]
    /\ data = <<>> \/ data = << <<version, at + 1>> >>

LEMMA FirstFacts ==
  ASSUME FileTypeOK, NEW f \in FileNums, NEW data \in Contents, NEW at \in Nat,
         NEW version \in 0 .. MaxVersion, BlockGood(f, data, at, version)
  PROVE  /\ FileGood(f, data, version, at # 0)
         /\ data # Absent
<1>1. data # Absent /\ version # Absent /\ version >= 1 /\ Len(data) \in Nat /\ Size[f] \in Nat
  BY ContentFacts, TransferFacts DEF FileTypeOK, BlockGood
<1>2. ASSUME at = 0 PROVE Prefix(f, data, version)
  <2>1. CASE data = <<>>
    <3>1. Len(data) = 0
      BY <2>1
    <3>2. Len(data) <= Size[f] /\ \A i \in 1 .. Len(data) : data[i] = <<version, i>>
      BY <3>1, <1>1
    <3> QED
      BY <3>2, PrefixMade
  <2>2. CASE data # <<>>
    <3>1. data = << <<version, 1>> >> /\ 0 < Size[f]
      BY <2>2, <1>2 DEF BlockGood
    <3>2. Len(data) = 1 /\ data[1] = <<version, 1>>
      BY <3>1
    <3>3. Len(data) <= Size[f] /\ \A i \in 1 .. Len(data) : data[i] = <<version, i>>
      BY <3>1, <3>2, <1>1
    <3> QED
      BY <3>3, PrefixMade
  <2> QED
    BY <2>1, <2>2
<1> QED
  BY <1>1, <1>2 DEF FileGood

LEMMA NextFacts ==
  ASSUME FileTypeOK, NEW f \in FileNums, NEW data \in Contents, NEW at \in Nat,
         NEW version \in 0 .. MaxVersion, BlockGood(f, data, at, version),
         NEW content \in Contents, NEW out \in BOOLEAN, FileGood(f, content, version, out),
         NEW stream \in Nat, stream <= Len(content)
  PROVE  /\ FileGood(f, Put(content, stream, data), version, out \/ at # stream)
         /\ Put(content, stream, data) \in Contents
         /\ stream + Len(data) <= Len(Put(content, stream, data))
<1> DEFINE p == Put(content, stream, data)
<1>1. /\ Len(data) \in Nat /\ Len(content) \in Nat /\ Size[f] \in Nat /\ content # Absent
      /\ version # Absent /\ version >= 1 /\ version \in Nat
  BY ContentFacts, TransferFacts DEF FileTypeOK, BlockGood
<1>2. /\ p \in Contents
      /\ Len(p) = IF stream + Len(data) >= Len(content) THEN stream + Len(data) ELSE Len(content)
      /\ \A i \in 1 .. Len(p) :
            p[i] = IF stream < i /\ i <= stream + Len(data) THEN data[i - stream] ELSE content[i]
  <2>1. content \in Seq(Pieces) /\ data \in Seq(Pieces)
    BY DEF Contents
  <2> QED
    BY <2>1, PutFacts DEF Contents
<1> HIDE DEF p
<1>3. stream + Len(data) <= Len(p) /\ Len(p) \in Nat
  BY <1>1, <1>2
<1>4. ASSUME ~out, at = stream PROVE Prefix(f, p, version)
  <2>1. PICK n \in 0 .. Size[f] : content = SubSeq(Whole(f, version), 1, n)
    BY <1>1, <1>4 DEF FileGood, Prefix
  <2>2. Len(content) = n /\ \A i \in 1 .. n : content[i] = <<version, i>>
    BY <2>1, PrefixFacts
  <2>3. CASE data = <<>>
    <3>1. Len(data) = 0
      BY <2>3
    <3>2. Len(p) <= Size[f]
      BY <3>1, <2>2, <1>1, <1>2
    <3>3. ASSUME NEW i \in 1 .. Len(p) PROVE p[i] = <<version, i>>
      <4>1. ~(stream < i /\ i <= stream + Len(data)) /\ i \in 1 .. n
        BY <3>1, <2>2, <1>1, <1>2
      <4>2. p[i] = content[i]
        BY <4>1, <1>2
      <4> QED
        BY <4>1, <4>2, <2>2
    <3> QED
      BY <3>2, <3>3, <1>2, PrefixMade
  <2>4. CASE data # <<>>
    <3>1. data = << <<version, stream + 1>> >> /\ stream < Size[f]
      BY <2>4, <1>4 DEF BlockGood
    <3>2. Len(data) = 1 /\ data[1] = <<version, stream + 1>>
      BY <3>1
    <3>3. Len(p) <= Size[f]
      BY <3>1, <3>2, <2>2, <1>1, <1>2
    <3>4. ASSUME NEW i \in 1 .. Len(p) PROVE p[i] = <<version, i>>
      <4>1. CASE i = stream + 1
        <5>1. stream < i /\ i <= stream + Len(data) /\ i - stream = 1
          BY <4>1, <3>2
        <5>2. p[i] = data[i - stream]
          BY <5>1, <1>2
        <5> QED
          BY <4>1, <5>1, <5>2, <3>2
      <4>2. CASE i # stream + 1
        <5>1. ~(stream < i /\ i <= stream + Len(data)) /\ i \in 1 .. n
          BY <4>2, <3>2, <2>2, <1>1, <1>2
        <5>2. p[i] = content[i]
          BY <5>1, <1>2
        <5> QED
          BY <5>1, <5>2, <2>2
      <4> QED
        BY <4>1, <4>2
    <3> QED
      BY <3>3, <3>4, <1>2, PrefixMade
  <2> QED
    BY <2>3, <2>4
<1>5. p # Absent
  BY <1>2, ContentFacts
<1> QED
  BY <1>1, <1>2, <1>3, <1>4, <1>5 DEF FileGood, p

-----------------------------------------------------------------------------
(* The steps of the reader.                                                *)

LEMMA FileStep ==
  ASSUME FileTypeOK, FileInv, NEW id \in Jobs, transfer' = transfer,
         Moved(toReader, toReader', id), Moved(toWriter, toWriter', id),
         \A m \in Messages : toReader' = Append(toReader, m) => m.type \in ReaderKinds,
         \A m \in Messages : toWriter' = Append(toWriter, m) => m.type \in WriterKinds,
         OthersSame(id),
         \A j \in Jobs : \A f \in FileNums : j # id => (<<j, f>> \in asking' <=> <<j, f>> \in asking),
         Writing(id) \/ UNCHANGED <<download, digest>>,
         source' = source, \A j \in Jobs : j # id /\ j > started' => j > started,
         JobInv(id)', ListInv', SingleInv', DiskInv'
  PROVE  FileInv'
<1>1. \A j \in Jobs : j # id /\ Writing(j) => UNCHANGED <<download, digest>>
  BY DEF FileInv, SingleInv
<1>2. \A j \in Jobs : j # id => JobInv(j)'
  BY <1>1, Others DEF FileInv, OthersSame
<1>3. KindInv'
  BY KindMoved DEF FileInv
<1>4. Jobs' = Jobs
  BY DEF Jobs
<1> QED
  BY <1>2, <1>3, <1>4 DEF FileInv

LEMMA FirstReads ==
  ASSUME FileTypeOK, FileInv, NEW id \in Jobs, First(id)
  PROVE  /\ read_jobs[id] \in ReadJobs(transfer) /\ read_jobs[id] # NoJob /\ ~read_jobs[id].is_last_job
         /\ JobInv(id) /\ KindInv
<1>1. PICK i \in DOMAIN queue : queue[i] = id /\ ~read_jobs[id].is_last_job
  BY DEF First
<1>2. In(queue, id)
  BY <1>1, LenProperties DEF In, FileTypeOK
<1> QED
  BY <1>1, <1>2 DEF FileTypeOK, FileInv, ListInv, ListedIn

LEMMA MovedMade ==
  ASSUME NEW q \in Seq(Messages), NEW m \in Messages
  PROVE  /\ Append(q, m) \in Seq(Messages)
         /\ \A k \in Messages : Append(q, m) = Append(q, k) => m = k
         /\ \A k \in Messages : q # Append(q, k) /\ (q # <<>> => Tail(q) # Append(q, k))
         /\ Moved(q, q, m.id) /\ Moved(q, Append(q, m), m.id)
         /\ q # <<>> => Moved(q, Tail(q), Head(q).id) /\ Tail(q) \in Seq(Messages)
<1>1. ASSUME NEW k \in Messages
      PROVE  /\ Append(q, k) \in Seq(Messages) /\ Len(q) \in Nat
             /\ Len(Append(q, k)) = Len(q) + 1 /\ Append(q, k)[Len(q) + 1] = k
  BY AppendFacts
<1>2. ASSUME q # <<>> PROVE Len(Tail(q)) = Len(q) - 1 /\ Tail(q) \in Seq(Messages)
  BY <1>2, TailFacts
<1>3. \A k \in Messages : Append(q, m) = Append(q, k) => m = k
  BY <1>1
<1>4. \A k \in Messages : q # Append(q, k) /\ (q # <<>> => Tail(q) # Append(q, k))
  <2> SUFFICES ASSUME NEW k \in Messages PROVE q # Append(q, k) /\ (q # <<>> => Tail(q) # Append(q, k))
    OBVIOUS
  <2>1. Len(q) \in Nat /\ Len(Append(q, k)) = Len(q) + 1
    BY <1>1
  <2> QED
    BY <2>1, <1>2
<1> QED
  BY <1>1, <1>2, <1>3, <1>4 DEF Moved

\* The reader of id becomes s and sends m.
LEMMA ReaderStepMade ==
  ASSUME FileTypeOK, FileInv, NEW id \in Jobs, First(id),
         NEW s \in ReadJobs(transfer), NEW m \in Messages, m.id = id,
         m.type \in {"digest", "block", "error"}, ReaderStep(id, s, m),
         excused' \in [Jobs -> SUBSET FileNums],
         JobInv(id)', s.error = read_jobs[id].error \/ m.type = "error",
         s.is_last_job = read_jobs[id].is_last_job
  PROVE  FileTypeOK' /\ FileInv'
<1>1. /\ transfer' = transfer /\ UNCHANGED <<source, diskVars, writeVars, toReader, uiVars, misplaced, queue>>
      /\ read_jobs' = [read_jobs EXCEPT ![id] = s] /\ toWriter' = Append(toWriter, m)
  BY DEF ReaderStep, SetRead, ReaderSends, SendWriter, uiVars, boundVars
<1>2. read_jobs[id] \in ReadJobs(transfer) /\ read_jobs[id] # NoJob
  BY FirstReads
<1>3. /\ Append(toWriter, m) \in Seq(Messages) /\ Moved(toWriter, Append(toWriter, m), id)
      /\ Moved(toReader, toReader, id)
      /\ \A k \in Messages : Append(toWriter, m) = Append(toWriter, k) => m = k
      /\ \A k \in Messages : toReader # Append(toReader, k)
  <2>1. toReader \in Seq(Messages) /\ toWriter \in Seq(Messages)
    BY DEF FileTypeOK
  <2> QED
    BY <2>1, MovedMade
<1>4. FileTypeOK'
  <2>1. read_jobs' \in [Jobs -> ReadJobs(transfer) \cup {NoJob}]
    BY <1>1 DEF FileTypeOK
  <2>2. toWriter' \in Seq(Messages)
    BY <1>1, <1>3
  <2> QED
    BY <2>1, <2>2, <1>1, TransferSame DEF FileTypeOK, diskVars, writeVars, uiVars, boundVars
<1>5. OthersSame(id)
  BY <1>1 DEF OthersSame, FileTypeOK, writeVars
<1>6. ListInv'
  <2>1. s # NoJob
    BY ReadFacts
  <2>2. ListedIn(queue, [read_jobs EXCEPT ![id] = s])
    BY <2>1, <1>2, ListedFacts DEF FileTypeOK, FileInv, ListInv
  <2>3. Jobs' = Jobs
    BY DEF Jobs
  <2> QED
    BY <2>2, <2>3, <1>1 DEF FileInv, ListInv, ListedIn, writeVars, uiVars
<1>7. read_jobs'[id] = s
  BY <1>1, <1>2 DEF FileTypeOK
<1>8. SingleInv'
  <2>1. Able(read_jobs[id]) => Able(read_jobs'[id]) \/ m.type \in ClosingTypes
    BY <1>7, ReadFacts DEF Able, ClosingTypes
  <2> QED
    BY <2>1, <1>1, <1>5, SingleEmit DEF FileInv, writeVars
<1>9. DiskInv'
  BY <1>1, DiskStays DEF FileInv, diskVars
<1>10. m.type \in WriterKinds
  BY DEF WriterKinds
<1>11. FileInv'
  BY <1>1, <1>3, <1>5, <1>6, <1>8, <1>9, <1>10, FileStep DEF diskVars, uiVars
<1> QED
  BY <1>4, <1>11

LEMMA ExcuseTypes ==
  ASSUME FileTypeOK, NEW id \in Jobs, NEW f, Excuse(id, f)
  PROVE  excused' \in [Jobs -> SUBSET FileNums]
BY DEF FileTypeOK, Excuse

LEMMA ReaderUnpacked ==
  ASSUME FileTypeOK, NEW id \in Jobs, NEW s, NEW m, ReaderStep(id, s, m)
  PROVE  /\ transfer' = transfer /\ toWriter' = Append(toWriter, m) /\ toReader' = toReader
         /\ read_jobs'[id] = s
         /\ UNCHANGED <<source, write_jobs, download, digest, asking, started>>
BY DEF ReaderStep, SetRead, ReaderSends, SendWriter, uiVars, boundVars, FileTypeOK, diskVars, writeVars

LEMMA ReadMarkerKeeps ==
  ASSUME FileTypeOK, FileInv, NEW id \in Jobs, ReadMarker(id)
  PROVE  FileTypeOK' /\ FileInv'
<1> DEFINE r == read_jobs[id]
           s == NextFile(r)
           m == BlockMessage(id, r.file_num, <<>>, 0)
<1>1. First(id) /\ r.file_num \in Markers /\ ReaderStep(id, s, m) /\ UNCHANGED excused
  BY DEF ReadMarker
<1>2. r \in ReadJobs(transfer) /\ r # NoJob /\ ~r.is_last_job /\ JobInv(id) /\ KindInv
  BY <1>1, FirstReads
<1>3. r.file_num \in FileNums
  BY <1>1, TransferFacts DEF FileTypeOK
<1>4. r.stream = None
  BY <1>1, <1>2 DEF JobInv, Reader
<1>5. /\ s \in ReadJobs(transfer) /\ s # NoJob /\ s.file_num = r.file_num + 1 /\ s.stream = None
      /\ ~s.confirmed /\ ~s.waiting /\ s.is_last_job = r.is_last_job /\ s.error = r.error
  <2>1. /\ s \in ReadJobs(transfer) /\ s.file_num = r.file_num + 1 /\ s.stream = None
        /\ ~s.confirmed /\ ~s.waiting /\ s.is_last_job = r.is_last_job /\ s.error = r.error
    BY <1>2, <1>3, ReadFacts
  <2> QED
    BY <2>1, ReadFacts
<1>6. m \in Messages /\ m.id = id /\ m.type = "block" /\ m.file_num = r.file_num
  <2>1. m \in Messages
    BY <1>3, MessageMade, ContentFacts
  <2> QED
    BY <2>1 DEF BlockMessage
<1>7. /\ transfer' = transfer /\ toWriter' = Append(toWriter, m) /\ toReader' = toReader
      /\ read_jobs'[id] = s
      /\ UNCHANGED <<source, write_jobs, download, digest, asking, started>>
  BY <1>1, ReaderUnpacked
<1> HIDE DEF s, m, r
<1>8. JobInv(id)'
  BY <1>1, <1>2, <1>3, <1>4, <1>5, <1>6, <1>7, EmitJob DEF r
<1>9. excused' \in [Jobs -> SUBSET FileNums]
  BY <1>1 DEF FileTypeOK
<1> QED
  BY <1>1, <1>5, <1>6, <1>8, <1>9, ReaderStepMade DEF r

LEMMA SendDigestKeeps ==
  ASSUME FileTypeOK, FileInv, NEW id \in Jobs, SendDigest(id)
  PROVE  FileTypeOK' /\ FileInv'
<1> DEFINE r == read_jobs[id]
           s == [r EXCEPT !.stream = IF @ = None THEN 0 ELSE @, !.confirmed = FALSE, !.waiting = TRUE]
           m == [type |-> "digest", id |-> id, file_num |-> r.file_num,
                       version |-> source[r.file_num], is_resume |-> r.is_resume]
<1>1. First(id)
  BY DEF SendDigest, Reading
<1>2. r \in ReadJobs(transfer) /\ r # NoJob /\ ~r.is_last_job /\ JobInv(id) /\ KindInv
  BY <1>1, FirstReads
<1>3. r.file_num \in FileNums \ Markers /\ First(id) /\ ReaderStep(id, s, m) /\ UNCHANGED excused
  BY DEF SendDigest, Reading
<1>4. r.stream = None
  BY <1>2 DEF JobInv, Reader, SendDigest
<1>5. /\ s \in ReadJobs(transfer) /\ s.file_num = r.file_num /\ s.stream = 0
      /\ ~s.confirmed /\ s.waiting /\ s.is_last_job = r.is_last_job /\ s.error = r.error
  BY <1>2, <1>4 DEF ReadJobs
<1>5a. s # NoJob /\ s.stream # None
  <2>1. NoJob \notin ReadJobs(transfer)
    BY TransferFacts DEF FileTypeOK
  <2> HIDE DEF s
  <2> QED
    BY <1>5, <2>1 DEF None
<1>6. /\ m \in Messages /\ m.id = id /\ m.type = "digest" /\ m.file_num = r.file_num
      /\ m.version = source[m.file_num]
  <2>1. source[r.file_num] \in 1 .. MaxVersion /\ r.is_resume \in BOOLEAN
    BY <1>2, <1>3, ReadFacts DEF FileTypeOK
  <2> QED
    BY <2>1, <1>3, MessageMade
<1>7. /\ transfer' = transfer /\ toWriter' = Append(toWriter, m) /\ toReader' = toReader
      /\ read_jobs'[id] = s
      /\ UNCHANGED <<source, write_jobs, download, digest, asking, started>>
  BY <1>3, ReaderUnpacked
<1> HIDE DEF s, m, r
<1>8. JobInv(id)'
  BY <1>2, <1>3, <1>4, <1>5, <1>5a, <1>6, <1>7, EmitJob DEF r
<1>9. excused' \in [Jobs -> SUBSET FileNums]
  BY <1>3 DEF FileTypeOK
<1> QED
  BY <1>3, <1>5, <1>6, <1>8, <1>9, ReaderStepMade DEF r

LEMMA ReadFailsKeeps ==
  ASSUME FileTypeOK, FileInv, NEW id \in Jobs, ReadFails(id)
  PROVE  FileTypeOK' /\ FileInv'
<1> DEFINE r == read_jobs[id]
           s == [NextFile(r) EXCEPT !.error = TRUE]
           m == [type |-> "error", id |-> id]
<1>1. /\ First(id) /\ r.file_num \in FileNums \ Markers
      /\ r.stream = None \/ r.confirmed
      /\ ReaderStep(id, s, m) /\ Excuse(id, r.file_num)
  BY DEF ReadFails, Reading
<1>2. r \in ReadJobs(transfer) /\ r # NoJob /\ ~r.is_last_job /\ JobInv(id) /\ KindInv
  BY <1>1, FirstReads
<1>5. /\ s \in ReadJobs(transfer) /\ s # NoJob /\ s.file_num = r.file_num + 1 /\ s.stream = None
      /\ ~s.confirmed /\ ~s.waiting /\ s.is_last_job = r.is_last_job
  <2>1. /\ NextFile(r) \in ReadJobs(transfer) /\ NextFile(r).file_num = r.file_num + 1 /\ NextFile(r).stream = None
        /\ ~NextFile(r).confirmed /\ ~NextFile(r).waiting /\ NextFile(r).is_last_job = r.is_last_job
        /\ s \in ReadJobs(transfer)
    BY <1>1, <1>2, ReadFacts
  <2>2. /\ s.file_num = NextFile(r).file_num /\ s.stream = NextFile(r).stream
        /\ s.confirmed = NextFile(r).confirmed /\ s.waiting = NextFile(r).waiting
        /\ s.is_last_job = NextFile(r).is_last_job
    BY <2>1 DEF ReadJobs
  <2> QED
    BY <2>1, <2>2, ReadFacts
<1>6. m \in Messages /\ m.id = id /\ m.type = "error"
  BY MessageMade
<1>7. /\ transfer' = transfer /\ toWriter' = Append(toWriter, m) /\ toReader' = toReader
      /\ read_jobs'[id] = s
      /\ UNCHANGED <<source, write_jobs, download, digest, asking, started>>
  BY <1>1, ReaderUnpacked
<1> HIDE DEF s, m, r
<1>8. JobInv(id)'
  BY <1>1, <1>2, <1>5, <1>6, <1>7, EmitJob DEF r
<1>9. excused' \in [Jobs -> SUBSET FileNums]
  BY <1>1, ExcuseTypes
<1> QED
  BY <1>1, <1>5, <1>6, <1>8, <1>9, ReaderStepMade DEF r

LEMMA ReadBlockKeeps ==
  ASSUME FileTypeOK, FileInv, NEW id \in Jobs, ReadBlock(id)
  PROVE  FileTypeOK' /\ FileInv'
<1> DEFINE r == read_jobs[id]
           f == r.file_num
           s == [r EXCEPT !.stream = @ + 1]
           data == << <<source[f], r.stream + 1>> >>
           m == BlockMessage(id, f, data, r.stream)
<1>1. /\ First(id) /\ f \in FileNums \ Markers
      /\ r.stream # None /\ r.confirmed /\ r.stream < Size[f]
      /\ ReaderStep(id, s, m) /\ UNCHANGED excused
  BY DEF ReadBlock, Reading
<1>2. r \in ReadJobs(transfer) /\ r # NoJob /\ ~r.is_last_job /\ JobInv(id) /\ KindInv
  BY <1>1, FirstReads
<1>3. r.stream \in Nat
  BY <1>1, <1>2, ReadFacts
<1>4. r.waiting
  BY <1>1, <1>2 DEF JobInv, Reader
<1>5. /\ s \in ReadJobs(transfer) /\ s.file_num = f /\ s.stream = r.stream + 1
      /\ s.confirmed = r.confirmed /\ s.waiting = r.waiting /\ s.is_last_job = r.is_last_job
      /\ s.error = r.error
  BY <1>2, <1>3 DEF ReadJobs
<1>5a. s # NoJob /\ s.stream # None
  <2>1. NoJob \notin ReadJobs(transfer)
    BY TransferFacts DEF FileTypeOK
  <2> HIDE DEF s
  <2> QED
    BY <1>3, <1>5, <2>1 DEF None
<1>6. /\ m \in Messages /\ m.id = id /\ m.type = "block" /\ m.file_num = f
      /\ m.data = << <<source[m.file_num], m.at + 1>> >> /\ m.at = r.stream
  <2>1. source[f] \in 0 .. MaxVersion /\ r.stream + 1 \in Nat
    <3>1. source[f] \in 1 .. MaxVersion /\ MaxVersion \in Nat
      BY <1>1, TransferFacts DEF FileTypeOK
    <3> QED
      BY <3>1, <1>3
  <2>2. data \in Contents
    BY <2>1, ContentFacts
  <2>3. m \in Messages
    BY <2>2, <1>1, <1>3, MessageMade
  <2> QED
    BY <2>3 DEF BlockMessage
<1>7. /\ transfer' = transfer /\ toWriter' = Append(toWriter, m) /\ toReader' = toReader
      /\ read_jobs'[id] = s
      /\ UNCHANGED <<source, write_jobs, download, digest, asking, started>>
  BY <1>1, ReaderUnpacked
<1> HIDE DEF s, m, f, r, data
<1>8. JobInv(id)'
  BY <1>1, <1>2, <1>4, <1>5, <1>5a, <1>6, <1>7, EmitJob DEF r, f
<1>9. excused' \in [Jobs -> SUBSET FileNums]
  BY <1>1 DEF FileTypeOK
<1> QED
  BY <1>1, <1>5, <1>6, <1>8, <1>9, ReaderStepMade DEF r, f

LEMMA ReadEndKeeps ==
  ASSUME FileTypeOK, FileInv, NEW id \in Jobs, ReadEnd(id)
  PROVE  FileTypeOK' /\ FileInv'
<1> DEFINE r == read_jobs[id]
           f == r.file_num
           s == NextFile(r)
           m == BlockMessage(id, f, <<>>, r.stream)
<1>1. /\ First(id) /\ f \in FileNums \ Markers
      /\ r.stream # None /\ r.confirmed
      /\ ReaderStep(id, s, m) /\ UNCHANGED excused
  BY DEF ReadEnd, Reading
<1>2. r \in ReadJobs(transfer) /\ r # NoJob /\ ~r.is_last_job /\ JobInv(id) /\ KindInv
  BY <1>1, FirstReads
<1>3. r.stream \in Nat
  BY <1>1, <1>2, ReadFacts
<1>5. /\ s \in ReadJobs(transfer) /\ s # NoJob /\ s.file_num = r.file_num + 1 /\ s.stream = None
      /\ ~s.confirmed /\ ~s.waiting /\ s.is_last_job = r.is_last_job /\ s.error = r.error
  <2>1. /\ s \in ReadJobs(transfer) /\ s.file_num = r.file_num + 1 /\ s.stream = None
        /\ ~s.confirmed /\ ~s.waiting /\ s.is_last_job = r.is_last_job /\ s.error = r.error
    BY <1>1, <1>2, ReadFacts
  <2> QED
    BY <2>1, ReadFacts
<1>6. m \in Messages /\ m.id = id /\ m.type = "block" /\ m.file_num = f /\ m.data = <<>>
  <2>1. m \in Messages
    BY <1>1, <1>3, MessageMade, ContentFacts
  <2> QED
    BY <2>1 DEF BlockMessage
<1>7. /\ transfer' = transfer /\ toWriter' = Append(toWriter, m) /\ toReader' = toReader
      /\ read_jobs'[id] = s
      /\ UNCHANGED <<source, write_jobs, download, digest, asking, started>>
  BY <1>1, ReaderUnpacked
<1> HIDE DEF s, m, f, r
<1>8. JobInv(id)'
  BY <1>1, <1>2, <1>5, <1>6, <1>7, EmitJob DEF r, f
<1>9. excused' \in [Jobs -> SUBSET FileNums]
  BY <1>1 DEF FileTypeOK
<1> QED
  BY <1>1, <1>5, <1>6, <1>8, <1>9, ReaderStepMade DEF r, f

-----------------------------------------------------------------------------

LEMMA FinishKeeps ==
  ASSUME FileTypeOK, FileInv, NEW id \in Jobs, Finish(id)
  PROVE  FileTypeOK' /\ FileInv'
<1> DEFINE r == read_jobs[id]
           m == [type |-> IF r.error \/ (r.skipped /\ N = 1) THEN "error" ELSE "done", id |-> id]
<1>1. /\ First(id) /\ ~r.confirmed /\ ~r.waiting
      /\ read_jobs' = [read_jobs EXCEPT ![id] = NoJob] /\ queue' = Without(queue, id)
      /\ toWriter' = Append(toWriter, m)
      /\ UNCHANGED <<source, diskVars, writeVars, toReader, uiVars, misplaced, excused>>
  BY DEF Finish, RemoveRead, ReaderSends, SendWriter
<1>2. r \in ReadJobs(transfer) /\ r # NoJob /\ ~r.is_last_job /\ JobInv(id) /\ KindInv
  BY <1>1, FirstReads
<1>3. r.stream = None
  BY <1>1, <1>2 DEF JobInv, Reader
<1>4. Quiet(id)
  BY <1>2, <1>3, QuietFacts
<1>5. m \in Messages /\ m.id = id /\ m.type \in {"done", "error"}
  <2>1. m.id = id /\ m.type \in {"done", "error"} /\ m = [type |-> m.type, id |-> id]
    OBVIOUS
  <2> QED
    BY <2>1, MessageMade
<1> HIDE DEF m, r
<1>6. /\ transfer' = transfer /\ UNCHANGED <<write_jobs, write_queue, download, digest, started, asking, saved, breaks, final>>
      /\ toReader' = toReader /\ read_jobs'[id] = NoJob /\ OthersSame(id)
  BY <1>1 DEF uiVars, boundVars, diskVars, writeVars, FileTypeOK, OthersSame
<1>7. JobInv(id)'
  <2>1. Taken(toReader, toReader')
    BY <1>6 DEF Taken
  <2>2. /\ ~Asked(id) /\ OnlyCancels(toReader', id)
        /\ \A i \in 1 .. Len(toWriter) : toWriter[i].id = id => toWriter[i].type # "digest"
    BY <1>4, <1>6 DEF Quiet
  <2>3. read_jobs[id] # NoJob
    BY <1>2 DEF r
  <2> QED
    BY <2>1, <2>2, <2>3, <1>1, <1>2, <1>5, <1>6, ReaderEnds
<1>8. /\ Append(toWriter, m) \in Seq(Messages) /\ Moved(toWriter, Append(toWriter, m), id)
      /\ Moved(toReader, toReader, id)
      /\ \A k \in Messages : Append(toWriter, m) = Append(toWriter, k) => m = k
      /\ \A k \in Messages : toReader # Append(toReader, k)
  <2>1. toReader \in Seq(Messages) /\ toWriter \in Seq(Messages)
    BY DEF FileTypeOK
  <2> QED
    BY <2>1, <1>5, MovedMade
<1>9. /\ ListedIn(Without(queue, id), [read_jobs EXCEPT ![id] = NoJob])
      /\ Without(queue, id) \in Seq(Jobs)
  BY ListedFacts DEF FileInv, ListInv, FileTypeOK
<1>10. FileTypeOK'
  <2>1. read_jobs' \in [Jobs -> ReadJobs(transfer) \cup {NoJob}] /\ queue' \in Seq(Jobs) /\ toWriter' \in Seq(Messages)
    BY <1>1, <1>8, <1>9 DEF FileTypeOK
  <2> QED
    BY <2>1, <1>1, <1>6, TransferSame DEF FileTypeOK, Jobs
<1>11. ListInv'
  <2>1. Jobs' = Jobs
    BY DEF Jobs
  <2> QED
    BY <2>1, <1>1, <1>6, <1>9 DEF FileInv, ListInv, ListedIn
<1>12. SingleInv'
  BY <1>1, <1>5, <1>6, SingleEmit DEF FileInv, ClosingTypes
<1>13. DiskInv'
  BY <1>1, <1>6, DiskStays DEF FileInv
<1>14. m.type \in WriterKinds
  BY <1>5 DEF WriterKinds
<1>15. FileInv'
  BY <1>1, <1>6, <1>7, <1>8, <1>11, <1>12, <1>13, <1>14, FileStep
<1> QED
  BY <1>10, <1>15

\* What the head of toReader is.
LEMMA ReaderHead ==
  ASSUME FileTypeOK, FileInv, toReader # <<>>
  PROVE  /\ Head(toReader) \in Messages /\ Head(toReader).id \in Jobs
         /\ Head(toReader).type \in ReaderKinds
         /\ 1 \in 1 .. Len(toReader) /\ toReader[1] = Head(toReader)
         /\ Mentions(toReader, Head(toReader).id)
         /\ Tail(toReader) \in Seq(Messages)
         /\ Moved(toReader, Tail(toReader), Head(toReader).id) /\ Taken(toReader, Tail(toReader))
         /\ Moved(toWriter, toWriter, Head(toReader).id)
         /\ \A k \in Messages : Tail(toReader) # Append(toReader, k) /\ toWriter # Append(toWriter, k)
<1>1. toReader \in Seq(Messages) /\ toWriter \in Seq(Messages)
  BY DEF FileTypeOK
<1>2. Head(toReader) \in Messages /\ 1 \in 1 .. Len(toReader) /\ toReader[1] = Head(toReader)
  BY <1>1, TailFacts
<1>3. Head(toReader).id \in Jobs
  BY <1>2, MessageFacts
<1>4. Head(toReader).type \in ReaderKinds
  BY <1>2 DEF FileInv, KindInv
<1>5. /\ Tail(toReader) \in Seq(Messages)
      /\ Moved(toReader, Tail(toReader), Head(toReader).id) /\ Taken(toReader, Tail(toReader))
  BY <1>1, <1>2, MovedMade DEF Taken
<1>6. \A k \in Messages : Tail(toReader) # Append(toReader, k) /\ toWriter # Append(toWriter, k)
  BY <1>1, <1>2, MovedMade
<1> QED
  BY <1>2, <1>3, <1>4, <1>5, <1>6 DEF Mentions, Moved

LEMMA OnCancelReadKeeps ==
  ASSUME FileTypeOK, FileInv, OnCancelRead
  PROVE  FileTypeOK' /\ FileInv'
<1>0. toReader # <<>> /\ Head(toReader).type = "cancel"
  BY DEF OnCancelRead, FromWriter
<1>1. PICK id \in Jobs : id = Head(toReader).id
  BY <1>0, ReaderHead
<1>2. /\ toReader' = Tail(toReader)
      /\ read_jobs' = [read_jobs EXCEPT ![id] = NoJob] /\ queue' = Without(queue, id)
      /\ UNCHANGED <<source, diskVars, writeVars, toWriter, uiVars, historyVars>>
  BY <1>1 DEF OnCancelRead, TakenByReader, RemoveRead
<1>3. /\ transfer' = transfer /\ UNCHANGED <<write_jobs, write_queue, download, digest, started, asking, saved, breaks,
                                             final, misplaced, excused, source, toWriter>>
      /\ read_jobs'[id] = NoJob /\ OthersSame(id)
  BY <1>2 DEF uiVars, boundVars, diskVars, writeVars, historyVars, FileTypeOK, OthersSame
<1>4. JobInv(id) /\ KindInv
  BY DEF FileInv
<1>5. JobInv(id)'
  <2>1. Taken(toReader, toReader')
    BY <1>0, <1>2, ReaderHead
  <2> QED
    BY <2>1, <1>3, <1>4, ReaderEnds
<1>6. /\ ListedIn(Without(queue, id), [read_jobs EXCEPT ![id] = NoJob])
      /\ Without(queue, id) \in Seq(Jobs)
  BY ListedFacts DEF FileInv, ListInv, FileTypeOK
<1>7. FileTypeOK'
  <2>1. /\ read_jobs' \in [Jobs -> ReadJobs(transfer) \cup {NoJob}] /\ queue' \in Seq(Jobs)
        /\ toReader' \in Seq(Messages)
    BY <1>0, <1>2, <1>6, ReaderHead DEF FileTypeOK
  <2> QED
    BY <2>1, <1>3, TransferSame DEF FileTypeOK, Jobs
<1>8. ListInv'
  <2>1. Jobs' = Jobs
    BY DEF Jobs
  <2> QED
    BY <2>1, <1>2, <1>3, <1>6 DEF FileInv, ListInv, ListedIn
<1>9. SingleInv'
  <2>1. ~Upload
    BY <1>0, ReaderHead DEF ReaderKinds
  <2>2. Writing(id)' => Writing(id)
    BY <1>3 DEF Writing
  <2> QED
    BY <2>1, <2>2, <1>3, SingleStay DEF FileInv
<1>10. DiskInv'
  BY <1>3, DiskStays DEF FileInv
<1>11. FileInv'
  <2>1. /\ Moved(toReader, toReader', id) /\ Moved(toWriter, toWriter', id)
        /\ \A m \in Messages : toReader' # Append(toReader, m) /\ toWriter' # Append(toWriter, m)
    BY <1>0, <1>1, <1>2, <1>3, ReaderHead
  <2> QED
    BY <2>1, <1>3, <1>5, <1>8, <1>9, <1>10, FileStep
<1> QED
  BY <1>7, <1>11

LEMMA OnSendKeeps ==
  ASSUME FileTypeOK, FileInv, OnSend
  PROVE  FileTypeOK' /\ FileInv'
<1>0. toReader # <<>> /\ Head(toReader).type = "send"
  BY DEF OnSend, FromWriter
<1>1. PICK id \in Jobs : id = Head(toReader).id
  BY <1>0, ReaderHead
<1>2. PICK f \in 0 .. N : f = Head(toReader).file_num
  BY <1>0, ReaderHead, MessageFacts
<1>3. /\ toReader' = Tail(toReader)
      /\ UNCHANGED <<source, diskVars, writeVars, uiVars, historyVars>>
      /\ \/ PushRead(id, NewRead(f, FALSE)) /\ toWriter' = Append(toWriter, [type |-> "dir", id |-> id])
         \/ toWriter' = Append(toWriter, [type |-> "error", id |-> id]) /\ UNCHANGED readVars
  BY <1>1, <1>2 DEF OnSend, TakenByReader, SendWriter
<1>4. /\ transfer' = transfer /\ UNCHANGED <<write_jobs, write_queue, download, digest, started, asking, saved, breaks,
                                             final, misplaced, excused, source>>
  BY <1>3 DEF uiVars, boundVars, diskVars, writeVars, historyVars
<1>5. JobInv(id) /\ KindInv
  BY DEF FileInv
<1>6. 1 \in 1 .. Len(toReader) /\ toReader[1] = Head(toReader) /\ Mentions(toReader, id) /\ Taken(toReader, toReader')
      /\ toReader' \in Seq(Messages) /\ Moved(toReader, toReader', id)
      /\ \A k \in Messages : toReader' # Append(toReader, k)
  BY <1>0, <1>1, <1>3, ReaderHead
<1>7. read_jobs[id] = NoJob /\ ~Mentions(toWriter, id) /\ ~Asked(id)
      /\ \A k \in 1 .. Len(toReader) : toReader[k].id = id /\ k # 1 => toReader[k].type = "cancel"
  BY <1>0, <1>1, <1>5, <1>6 DEF JobInv, Sends
<1>8. ASSUME NEW m \in Messages, m.id = id, m.type \in WriterKinds, m.type # "receive",
             toWriter' = Append(toWriter, m), OthersSame(id), JobInv(id)',
             read_jobs' \in [Jobs -> ReadJobs(transfer) \cup {NoJob}], queue' \in Seq(Jobs), ListedIn(queue', read_jobs')
      PROVE  FileTypeOK' /\ FileInv'
  <2>1. /\ Append(toWriter, m) \in Seq(Messages) /\ Moved(toWriter, Append(toWriter, m), id)
        /\ \A k \in Messages : Append(toWriter, m) = Append(toWriter, k) => m = k
    BY <1>8, MovedMade DEF FileTypeOK
  <2>2. FileTypeOK'
    BY <2>1, <1>4, <1>6, <1>8, TransferSame DEF FileTypeOK, Jobs
  <2>3. ListInv'
    BY <1>4, <1>8 DEF FileInv, ListInv, ListedIn, Jobs
  <2>4. SingleInv'
    BY <1>4, <1>7, <1>8, SingleEmit DEF FileInv, Able
  <2>5. DiskInv'
    BY <1>4, DiskStays DEF FileInv
  <2>6. FileInv'
    BY <2>1, <2>3, <2>4, <2>5, <1>4, <1>6, <1>8, FileStep
  <2> QED
    BY <2>2, <2>6
<1>9. CASE PushRead(id, NewRead(f, FALSE)) /\ toWriter' = Append(toWriter, [type |-> "dir", id |-> id])
  <2> DEFINE m == [type |-> "dir", id |-> id]
             s == NewRead(f, FALSE)
  <2>1. m \in Messages /\ m.id = id /\ m.type = "dir"
    BY MessageMade
  <2>2. /\ s \in ReadJobs(transfer) /\ s # NoJob /\ ~s.is_last_job /\ s.stream = None
        /\ ~s.confirmed /\ ~s.waiting
    BY NewFacts
  <2> HIDE DEF m, s
  <2>3. read_jobs' = [read_jobs EXCEPT ![id] = s] /\ queue' = Append(queue, id) /\ toWriter' = Append(toWriter, m)
    BY <1>9 DEF PushRead, m, s
  <2>4. read_jobs'[id] = s /\ OthersSame(id) /\ read_jobs' \in [Jobs -> ReadJobs(transfer) \cup {NoJob}]
    BY <2>2, <2>3, <1>4 DEF FileTypeOK, OthersSame
  <2>5. ListedIn(queue', read_jobs') /\ queue' \in Seq(Jobs)
    BY <2>2, <2>3, <1>7, ListedFacts DEF FileInv, ListInv, FileTypeOK
  <2>6. JobInv(id)'
    BY <2>1, <2>2, <2>3, <2>4, <1>0, <1>1, <1>3, <1>4, <1>5, ReaderSent
  <2>7. m.type \in WriterKinds
    <3>1. ~Upload
      BY <1>0, ReaderHead DEF ReaderKinds
    <3> QED
      BY <2>1, <3>1 DEF WriterKinds
  <2> QED
    BY <2>1, <2>3, <2>4, <2>5, <2>6, <2>7, <1>8
<1>10. CASE toWriter' = Append(toWriter, [type |-> "error", id |-> id]) /\ UNCHANGED readVars
  <2> DEFINE m == [type |-> "error", id |-> id]
  <2>1. m \in Messages /\ m.id = id /\ m.type = "error" /\ m.type \in WriterKinds
    BY MessageMade DEF WriterKinds
  <2> HIDE DEF m
  <2>2. read_jobs' = read_jobs /\ queue' = queue /\ toWriter' = Append(toWriter, m)
    BY <1>10 DEF readVars, m
  <2>3. OnlyCancels(toReader', id)
    <3>1. /\ Len(toReader) \in Nat /\ Len(toReader') = Len(toReader) - 1
          /\ \A i \in 1 .. Len(toReader) - 1 : toReader'[i] = toReader[i + 1]
      BY <1>0, <1>3, TailFacts DEF FileTypeOK
    <3>2. ASSUME NEW i \in 1 .. Len(toReader'), toReader'[i].id = id PROVE toReader'[i].type = "cancel"
      <4>1. i + 1 \in 1 .. Len(toReader) /\ i + 1 # 1 /\ toReader'[i] = toReader[i + 1]
        BY <3>1
      <4> QED
        BY <4>1, <3>2, <1>7
    <3> QED
      BY <3>2 DEF OnlyCancels
  <2>4. \A i \in 1 .. Len(toWriter) : toWriter[i].id = id => toWriter[i].type # "digest"
    BY <1>7 DEF Mentions
  <2>5. read_jobs'[id] = NoJob
    BY <2>2, <1>7
  <2>6. JobInv(id)'
    BY <2>1, <2>2, <2>3, <2>4, <2>5, <1>4, <1>5, <1>6, <1>7, ReaderEnds
  <2>7. OthersSame(id)
    BY <2>2, <1>4 DEF OthersSame
  <2>8. read_jobs' \in [Jobs -> ReadJobs(transfer) \cup {NoJob}] /\ queue' \in Seq(Jobs) /\ ListedIn(queue', read_jobs')
    BY <2>2 DEF FileTypeOK, FileInv, ListInv
  <2> QED
    BY <2>1, <2>2, <2>6, <2>7, <2>8, <1>8
<1> QED
  BY <1>3, <1>9, <1>10

\* The reader of id, which goes on waiting for nothing, becomes s.
LEMMA ReaderConfirmed ==
  ASSUME FileTypeOK, FileInv, NEW id \in Jobs, transfer' = transfer,
         read_jobs[id] # NoJob, NEW s \in ReadJobs(transfer), SetRead(id, s),
         s.is_last_job = read_jobs[id].is_last_job, s.error = read_jobs[id].error,
         Moved(toReader, toReader', id), toReader' \in Seq(Messages),
         \A k \in Messages : toReader' # Append(toReader, k),
         \/ toWriter' = toWriter
         \/ \E m \in Messages : /\ toWriter' = Append(toWriter, m) /\ m.id = id
                                /\ m.type \in WriterKinds /\ m.type # "receive",
         UNCHANGED <<source, write_jobs, write_queue, download, digest, final, started, saved,
                     breaks, misplaced>>,
         excused' \in [Jobs -> SUBSET FileNums],
         asking' \subseteq Jobs \X FileNums,
         \A j \in Jobs : \A f \in FileNums : j # id => (<<j, f>> \in asking' <=> <<j, f>> \in asking),
         JobInv(id)'
  PROVE  FileTypeOK' /\ FileInv'
<1>1. read_jobs' = [read_jobs EXCEPT ![id] = s] /\ queue' = queue
  BY DEF SetRead
<1>2. /\ read_jobs'[id] = s /\ OthersSame(id) /\ read_jobs' \in [Jobs -> ReadJobs(transfer) \cup {NoJob}]
      /\ s # NoJob
  BY <1>1, ReadFacts DEF FileTypeOK, OthersSame
<1>3. /\ toWriter' \in Seq(Messages) /\ Moved(toWriter, toWriter', id)
      /\ \A k \in Messages : toWriter' = Append(toWriter, k) => k.type \in WriterKinds
  <2>1. toWriter \in Seq(Messages)
    BY DEF FileTypeOK
  <2>2. CASE toWriter' = toWriter
    <3>1. \A k \in Messages : toWriter # Append(toWriter, k)
      BY <2>1, MovedMade
    <3> QED
      BY <3>1, <2>1, <2>2 DEF Moved
  <2>3. CASE toWriter' # toWriter
    <3>1. PICK m \in Messages : toWriter' = Append(toWriter, m) /\ m.id = id /\ m.type \in WriterKinds
      BY <2>3
    <3>2. /\ Append(toWriter, m) \in Seq(Messages) /\ Moved(toWriter, Append(toWriter, m), id)
          /\ \A k \in Messages : Append(toWriter, m) = Append(toWriter, k) => m = k
      BY <2>1, <3>1, MovedMade
    <3> QED
      BY <3>1, <3>2
  <2> QED
    BY <2>2, <2>3
<1>4. FileTypeOK'
  BY <1>1, <1>2, <1>3, TransferSame DEF FileTypeOK, Jobs
<1>5. ListInv'
  <2>1. ListedIn(queue, [read_jobs EXCEPT ![id] = s])
    BY <1>2, ListedFacts DEF FileInv, ListInv, FileTypeOK
  <2> QED
    BY <2>1, <1>1 DEF FileInv, ListInv, ListedIn, Jobs
<1>6. SingleInv'
  <2>1. Able(read_jobs[id]) => Able(read_jobs'[id])
    BY <1>2 DEF Able
  <2>2. Writing(id)' => Writing(id)
    BY DEF Writing
  <2>3. CASE toWriter' = toWriter
    BY <2>1, <2>2, <2>3, <1>2, SingleStay DEF FileInv
  <2>4. CASE toWriter' # toWriter
    BY <2>1, <2>4, <1>2, SingleEmit DEF FileInv
  <2> QED
    BY <2>3, <2>4
<1>7. DiskInv'
  BY DiskStays DEF FileInv
<1>8. FileInv'
  BY <1>2, <1>3, <1>5, <1>6, <1>7, FileStep
<1> QED
  BY <1>4, <1>8

LEMMA OffsetFacts ==
  ASSUME NEW t \in Nat
  PROVE  OffsetOf(t) \in Nat /\ OffsetOf(t) <= t
<1>1. OffsetLimit \in Nat \ {0}
  BY FileAssumption
<1>2. \A a \in Nat, b \in Nat \ {0} : a % b \in Nat /\ a % b <= a
  OBVIOUS
<1> QED
  BY <1>1, <1>2 DEF OffsetOf

\* A message for a job that reads no more.
LEMMA ReaderDeaf ==
  ASSUME FileTypeOK, FileInv, toReader # <<>>, toReader' = Tail(toReader),
         read_jobs[Head(toReader).id] = NoJob, transfer' = transfer,
         UNCHANGED <<source, read_jobs, queue, write_jobs, write_queue, download, digest, final,
                     started, saved, breaks, misplaced, excused, asking, toWriter>>
  PROVE  FileTypeOK' /\ FileInv'
<1>1. PICK id \in Jobs : id = Head(toReader).id
  BY ReaderHead
<1>2. /\ Moved(toReader, toReader', id) /\ Moved(toWriter, toWriter', id) /\ Taken(toReader, toReader')
      /\ \A m \in Messages : toReader' # Append(toReader, m) /\ toWriter' # Append(toWriter, m)
      /\ toReader' \in Seq(Messages)
  BY <1>1, ReaderHead
<1>3. JobInv(id) /\ KindInv /\ read_jobs'[id] = NoJob /\ OthersSame(id)
  BY <1>1 DEF FileInv, OthersSame
<1>4. JobInv(id)'
  BY <1>2, <1>3, ReaderEnds
<1>5. FileTypeOK'
  BY <1>2, TransferSame DEF FileTypeOK, Jobs
<1>6. ListInv'
  BY DEF FileInv, ListInv, ListedIn, Jobs
<1>7. SingleInv'
  <2>1. Writing(id)' => Writing(id)
    BY DEF Writing
  <2> QED
    BY <2>1, <1>3, SingleStay DEF FileInv
<1>8. DiskInv'
  BY DiskStays DEF FileInv
<1> QED
  BY <1>2, <1>3, <1>4, <1>5, <1>6, <1>7, <1>8, FileStep

LEMMA OnConfirmReadKeeps ==
  ASSUME FileTypeOK, FileInv, OnConfirmRead
  PROVE  FileTypeOK' /\ FileInv'
<1>0. toReader # <<>> /\ Head(toReader).type = "confirm"
  BY DEF OnConfirmRead, FromWriter
<1>1. PICK id \in Jobs : id = Head(toReader).id
  BY <1>0, ReaderHead
<1>2. PICK f \in FileNums : f = Head(toReader).file_num
  BY <1>0, ReaderHead, MessageFacts
<1>3. PICK offset \in Nat \cup {Skip} : offset = Head(toReader).offset
  BY <1>0, ReaderHead, MessageFacts
<1>4. /\ toReader' = Tail(toReader)
      /\ UNCHANGED <<source, diskVars, writeVars, toWriter, uiVars, historyVars>>
      /\ read_jobs[id] = NoJob => UNCHANGED readVars
      /\ read_jobs[id] # NoJob => SetRead(id, ConfirmRead(read_jobs[id], f, offset))
  BY <1>1, <1>2, <1>3 DEF OnConfirmRead, TakenByReader
<1>5. /\ transfer' = transfer /\ UNCHANGED <<write_jobs, write_queue, download, digest, started, asking, saved, breaks,
                                             final, misplaced, excused, source, toWriter>>
  BY <1>4 DEF uiVars, boundVars, diskVars, writeVars, historyVars
<1>6. CASE read_jobs[id] = NoJob
  BY <1>0, <1>1, <1>4, <1>5, <1>6, ReaderDeaf DEF readVars
<1>7. CASE read_jobs[id] # NoJob
  <2> DEFINE r == read_jobs[id]
             s == ConfirmRead(r, f, offset)
  <2>1. r \in ReadJobs(transfer) /\ JobInv(id) /\ KindInv
    BY <1>7 DEF FileTypeOK, FileInv
  <2>2. AnswerComes(id, f)
    BY <1>0, <1>1, <1>2, <1>4, <1>5 DEF AnswerComes
  <2>3. r.file_num = f /\ r.stream # None
    BY <2>1, <2>2, <1>5, <1>7, AnswerFacts
  <2>4. /\ s \in ReadJobs(transfer) /\ s.is_last_job = r.is_last_job /\ s.error = r.error
        /\ \/ /\ s.file_num = f /\ s.stream # None /\ s.confirmed /\ s.waiting = r.waiting
           \/ /\ s.file_num = f + 1 /\ s.stream = None /\ ~s.confirmed /\ ~s.waiting
    BY <2>1, <2>3, ConfirmReadFacts
  <2> HIDE DEF s
  <2>5. SetRead(id, s) /\ read_jobs'[id] = s /\ s # NoJob
    BY <2>4, <1>4, <1>7, ReadFacts DEF s, SetRead, FileTypeOK
  <2>6. JobInv(id)'
    BY <2>1, <2>2, <2>4, <2>5, <1>5, <1>7, ReaderAnswered
  <2>7. /\ Moved(toReader, toReader', id) /\ toReader' \in Seq(Messages)
        /\ \A k \in Messages : toReader' # Append(toReader, k)
    BY <1>0, <1>1, <1>4, ReaderHead
  <2>8. excused' \in [Jobs -> SUBSET FileNums] /\ asking' \subseteq Jobs \X FileNums
    BY <1>5 DEF FileTypeOK
  <2> QED
    BY <2>4, <2>5, <2>6, <2>7, <2>8, <1>5, <1>7, ReaderConfirmed
<1> QED
  BY <1>6, <1>7

LEMMA OnAskKeeps ==
  ASSUME FileTypeOK, FileInv, OnAsk
  PROVE  FileTypeOK' /\ FileInv'
<1> DEFINE m == Head(toReader)
<1>0. toReader # <<>> /\ m.type = "ask"
  BY DEF OnAsk, FromWriter
<1>1. PICK id \in Jobs : id = m.id
  BY <1>0, ReaderHead
<1>2. PICK f \in FileNums : f = m.file_num
  BY <1>0, ReaderHead, MessageFacts
<1>3. PICK t \in Nat : t = m.transferred
  BY <1>0, ReaderHead, MessageFacts
<1> DEFINE r == read_jobs[id]
           resume == t > 0 /\ r.is_resume
           offset == IF resume THEN OffsetOf(t) ELSE Answer(r.strategy)
<1>4. /\ toReader' = Tail(toReader)
      /\ UNCHANGED <<source, diskVars, writeVars, started, saved, boundVars, misplaced>>
      /\ IF r = NoJob THEN UNCHANGED <<readVars, toWriter, asking, excused>>
         ELSE IF ~resume /\ r.strategy = "ask"
         THEN /\ asking' = asking \cup {<<id, f>>}
              /\ UNCHANGED <<readVars, toWriter, excused>>
         ELSE /\ SetRead(id, ConfirmRead(r, f, offset))
              /\ toWriter' = Append(toWriter, ConfirmMessage(id, f, offset))
              /\ IF offset = Skip THEN Excuse(id, f) ELSE UNCHANGED excused
              /\ UNCHANGED asking
  BY <1>1, <1>2, <1>3 DEF OnAsk, TakenByReader, SendWriter
<1>5. /\ transfer' = transfer /\ UNCHANGED <<write_jobs, write_queue, download, digest, started, saved, breaks,
                                             final, misplaced, source>>
  BY <1>4 DEF boundVars, diskVars, writeVars
<1>6. /\ Moved(toReader, toReader', id) /\ toReader' \in Seq(Messages)
      /\ \A k \in Messages : toReader' # Append(toReader, k)
      /\ 1 \in 1 .. Len(toReader) /\ toReader[1] = m /\ Upload
      /\ Moved(toWriter, toWriter, id) /\ \A k \in Messages : toWriter # Append(toWriter, k)
  BY <1>0, <1>1, <1>4, ReaderHead DEF ReaderKinds
<1>7. JobInv(id) /\ KindInv
  BY DEF FileInv
<1>8. CASE r = NoJob
  BY <1>0, <1>1, <1>4, <1>5, <1>8, ReaderDeaf DEF readVars
<1>9. CASE r # NoJob /\ ~resume /\ r.strategy = "ask"
  <2>1. /\ asking' = asking \cup {<<id, f>>}
        /\ UNCHANGED <<read_jobs, queue, toWriter, excused>>
    BY <1>4, <1>9 DEF readVars
  <2>2. JobInv(id)'
    BY <2>1, <1>0, <1>1, <1>2, <1>4, <1>5, <1>7, ReaderAsks
  <2>3. FileTypeOK'
    BY <2>1, <1>5, <1>6, TransferSame, SMTT(30) DEF FileTypeOK, Jobs
  <2>4. ListInv'
    BY <2>1, <1>5 DEF FileInv, ListInv, ListedIn, Jobs
  <2>5. OthersSame(id)
    BY <2>1, <1>5 DEF OthersSame
  <2>6. SingleInv'
    <3>1. Writing(id)' => Writing(id)
      BY <1>5 DEF Writing
    <3> QED
      BY <3>1, <2>1, <2>5, <1>5, SingleStay DEF FileInv
  <2>7. DiskInv'
    BY <1>5, DiskStays DEF FileInv
  <2>8. FileInv'
    BY <2>1, <2>2, <2>4, <2>5, <2>6, <2>7, <1>5, <1>6, FileStep
  <2> QED
    BY <2>3, <2>8
<1>10. CASE r # NoJob /\ ~(~resume /\ r.strategy = "ask")
  <2>1. r \in ReadJobs(transfer)
    BY <1>10 DEF FileTypeOK
  <2>2. offset \in Nat \cup {Skip}
    BY OffsetFacts DEF Answer
  <2>3. Ready(write_jobs[id], download[f], digest[f], offset)
    <3>1. Ready(write_jobs[id], download[f], digest[f], t)
      BY <1>0, <1>1, <1>2, <1>3, <1>6, <1>7 DEF JobInv, Asks
    <3>2. CASE resume
      <4>1. offset = OffsetOf(t) /\ OffsetOf(t) \in Nat /\ OffsetOf(t) <= t /\ t > 0
        BY <3>2, OffsetFacts
      <4>2. f \in FileNums /\ write_jobs[id] # NoJob => (download[f] # Absent => Len(download[f]) \in Nat)
        BY LenProperties DEF FileTypeOK, Contents
      <4> HIDE DEF offset, resume
      <4> QED
        BY <4>1, <4>2, <3>1 DEF Ready
    <3>3. CASE ~resume
      <4>1. offset = 0 \/ offset = -1
        BY <3>3 DEF Answer, Skip
      <4> QED
        BY <4>1 DEF Ready
    <3> QED
      BY <3>2, <3>3
  <2> HIDE DEF offset
  <2> DEFINE s == ConfirmRead(r, f, offset)
             c == ConfirmMessage(id, f, offset)
  <2>4. /\ SetRead(id, s) /\ toWriter' = Append(toWriter, c)
        /\ IF offset = Skip THEN Excuse(id, f) ELSE UNCHANGED excused
        /\ UNCHANGED asking
    BY <1>4, <1>10
  <2>5. c \in Messages /\ c.id = id /\ c.type = "confirm" /\ c.file_num = f /\ c.offset = offset
    <3>1. c \in Messages
      BY <2>2, MessageMade
    <3> QED
      BY <3>1 DEF ConfirmMessage
  <2>6. AnswerComes(id, f)
    BY <2>4, <1>0, <1>1, <1>2, <1>4 DEF AnswerComes
  <2>7. r.file_num = f /\ r.stream # None
    BY <2>6, <1>5, <1>7, <1>10, AnswerFacts
  <2>8. /\ s \in ReadJobs(transfer) /\ s.is_last_job = r.is_last_job /\ s.error = r.error
        /\ \/ /\ s.file_num = f /\ s.stream # None /\ s.confirmed /\ s.waiting = r.waiting
           \/ /\ s.file_num = f + 1 /\ s.stream = None /\ ~s.confirmed /\ ~s.waiting
    BY <2>1, <2>2, <2>7, ConfirmReadFacts
  <2> HIDE DEF s, c
  <2>9. read_jobs'[id] = s /\ s # NoJob
    BY <2>4, <2>8, ReadFacts DEF SetRead, FileTypeOK
  <2>10. JobInv(id)'
    BY <2>3, <2>4, <2>5, <2>6, <2>8, <2>9, <1>5, <1>7, <1>10, ReaderAnswered
  <2>11. excused' \in [Jobs -> SUBSET FileNums] /\ asking' \subseteq Jobs \X FileNums
    BY <2>4, ExcuseTypes DEF FileTypeOK
  <2>12. c.type \in WriterKinds
    BY <2>5, <1>6 DEF WriterKinds
  <2> QED
    BY <2>4, <2>5, <2>8, <2>10, <2>11, <2>12, <1>5, <1>6, <1>10, ReaderConfirmed
<1> QED
  BY <1>8, <1>9, <1>10

-----------------------------------------------------------------------------
(* The user.                                                               *)

\* When no job is active, nothing on its way starts one.
LEMMA SingleStart ==
  ASSUME FileTypeOK, SingleInv, transfer' = transfer, NEW id \in Jobs, NoneActive, OthersSame(id),
         \/ /\ Upload /\ write_jobs' = write_jobs /\ Able(read_jobs'[id])
            /\ \E m \in Messages : toWriter' = Append(toWriter, m) /\ m.id = id
         \/ ~Upload /\ toWriter' = toWriter
  PROVE  SingleInv'
<1>1. Upload' = Upload
  BY TransferSame
<1>2. \A j \in Jobs : ~Writing(j)
  BY DEF NoneActive, Active, Writing
<1>3. \A j, k \in Jobs : Writing(j)' /\ Writing(k)' => j = k
  <2>1. \A j \in Jobs : Writing(j)' => j = id
    BY <1>2 DEF OthersSame, Writing
  <2> QED
    BY <2>1
<1>4. CASE ~Upload
  BY <1>1, <1>3, <1>4 DEF SingleInv
<1>5. CASE Upload
  <2>1. PICK m \in Messages : toWriter' = Append(toWriter, m) /\ m.id = id
    BY <1>5
  <2>2. /\ Len(toWriter) \in Nat /\ Len(toWriter') = Len(toWriter) + 1
        /\ \A i \in 1 .. Len(toWriter) : toWriter'[i] = toWriter[i]
        /\ toWriter'[Len(toWriter) + 1] = m
    BY <2>1, AppendFacts DEF FileTypeOK
  <2>3. ASSUME NEW j \in Jobs, NEW p \in 0 .. Len(toWriter), LiveAt(j, p)' PROVE LiveAt(j, p)
    <3>1. \A i \in 1 .. p : toWriter'[i] = toWriter[i]
      BY <2>2
    <3>2. write_jobs' = write_jobs
      BY <1>5
    <3> QED
      BY <3>1, <3>2, <2>3 DEF LiveAt
  <2>4. \A j \in Jobs : ~LiveAt(j, Len(toWriter))
    BY <1>5 DEF SingleInv, NoneActive, Active
  <2>5. ASSUME NEW j \in Jobs, NEW p, p = Len(toWriter) + 1, LiveAt(j, p)'
        PROVE  j = id
    <3>1. SUFFICES ASSUME j # id PROVE LiveAt(j, Len(toWriter))
      BY <2>4
    <3>2. \A i \in 1 .. Len(toWriter) + 1 : i \in 1 .. Len(toWriter) \/ i = Len(toWriter) + 1
      BY <2>2
    <3>3. \A i \in 1 .. Len(toWriter) : i \in 1 .. Len(toWriter) + 1
      BY <2>2
    <3>4. write_jobs' = write_jobs
      BY <1>5
    <3> QED
      BY <3>1, <3>2, <3>3, <3>4, <2>1, <2>2, <2>5 DEF LiveAt
  <2>6. ASSUME NEW p \in 0 .. Len(toWriter'), NEW j \in Jobs, NEW k \in Jobs, LiveAt(j, p)', LiveAt(k, p)'
        PROVE  j = k
    <3>1. CASE p \in 0 .. Len(toWriter)
      BY <3>1, <2>3, <2>6, <1>5 DEF SingleInv
    <3>2. CASE p = Len(toWriter) + 1
      BY <3>2, <2>5, <2>6
    <3> QED
      BY <3>1, <3>2, <2>2
  <2>7. ASSUME NEW j \in Jobs, NEW p, p = Len(toWriter'), LiveAt(j, p)'
        PROVE  read_jobs'[j] # NoJob /\ ~read_jobs'[j].is_last_job /\ ~read_jobs'[j].error
    <3>1. j = id
      BY <2>2, <2>5, <2>7
    <3> QED
      BY <3>1, <1>5 DEF Able
  <2> QED
    BY <1>1, <1>3, <2>6, <2>7 DEF SingleInv
<1> QED
  BY <1>4, <1>5

LEMMA JobStarted ==
  ASSUME FileTypeOK, FileInv, NEW id \in Jobs, transfer' = transfer, NoneActive, Untouched(id),
         ~(id > started'), \A j \in Jobs : j # id /\ j > started' => j > started,
         started' \in 0 .. MaxJobs,
         \/ /\ Upload /\ write_jobs[id] = NoJob
            /\ \E s \in ReadJobs(transfer) :
                  /\ read_jobs' = [read_jobs EXCEPT ![id] = s]
                  /\ ~s.is_last_job /\ ~s.error /\ s.stream = None /\ ~s.confirmed /\ ~s.waiting
            /\ queue' \in Seq(Jobs) /\ ListedIn(queue', read_jobs')
            /\ UNCHANGED <<write_jobs, write_queue, toReader>>
            /\ \E m \in Messages : toWriter' = Append(toWriter, m) /\ m.id = id /\ m.type = "receive"
         \/ /\ ~Upload /\ read_jobs[id] = NoJob
            /\ \E s \in WriteJobs(transfer) :
                  /\ write_jobs' = [write_jobs EXCEPT ![id] = s]
                  /\ ~s.is_last_job /\ s.stream = None
            /\ write_queue' \in Seq(Jobs) /\ ListedIn(write_queue', write_jobs')
            /\ UNCHANGED <<read_jobs, queue, toWriter>>
            /\ \E m \in Messages : toReader' = Append(toReader, m) /\ m.id = id /\ m.type = "send",
         UNCHANGED <<source, download, digest, final, saved, breaks, misplaced, asking>>,
         excused' \in [Jobs -> SUBSET FileNums]
  PROVE  FileTypeOK' /\ FileInv'
<1>1. KindInv /\ SingleInv /\ toReader \in Seq(Messages) /\ toWriter \in Seq(Messages)
      /\ write_queue \in Seq(Jobs) /\ queue \in Seq(Jobs)
      /\ ListedIn(queue, read_jobs) /\ ListedIn(write_queue, write_jobs)
  BY DEF FileInv, FileTypeOK, ListInv
<1>2. /\ Moved(toReader, toReader, id) /\ Moved(toWriter, toWriter, id)
      /\ \A m \in Messages : toReader # Append(toReader, m) /\ toWriter # Append(toWriter, m)
      /\ \A q \in Seq(Messages), m \in Messages :
            /\ Append(q, m) \in Seq(Messages)
            /\ m.id = id => Moved(q, Append(q, m), id)
            /\ \A k \in Messages : Append(q, m) = Append(q, k) => m = k
  <2>1. \A m \in Messages : toReader # Append(toReader, m) /\ toWriter # Append(toWriter, m)
    BY <1>1, MovedMade
  <2>2. ASSUME NEW q \in Seq(Messages), NEW m \in Messages
        PROVE  /\ Append(q, m) \in Seq(Messages)
               /\ m.id = id => Moved(q, Append(q, m), id)
               /\ \A k \in Messages : Append(q, m) = Append(q, k) => m = k
    BY MovedMade
  <2> QED
    BY <2>1, <2>2 DEF Moved
<1>3. CASE Upload
  <2>1. PICK s \in ReadJobs(transfer) :
            /\ read_jobs' = [read_jobs EXCEPT ![id] = s]
            /\ ~s.is_last_job /\ ~s.error /\ s.stream = None /\ ~s.confirmed /\ ~s.waiting
    BY <1>3
  <2>2. PICK m \in Messages : toWriter' = Append(toWriter, m) /\ m.id = id /\ m.type = "receive"
    BY <1>3
  <2>3. /\ UNCHANGED <<write_jobs, write_queue, toReader>> /\ write_jobs[id] = NoJob
        /\ queue' \in Seq(Jobs) /\ ListedIn(queue', read_jobs')
    BY <1>3
  <2>4. /\ read_jobs'[id] = s /\ s # NoJob /\ OthersSame(id)
        /\ read_jobs' \in [Jobs -> ReadJobs(transfer) \cup {NoJob}]
    BY <2>1, <2>3, ReadFacts DEF FileTypeOK, OthersSame
  <2>5. JobInv(id)'
    BY <2>1, <2>2, <2>3, <2>4, <1>1, JobStarts
  <2>6. SingleInv'
    BY <2>1, <2>2, <2>3, <2>4, <1>1, <1>3, SingleStart DEF Able
  <2>7. FileTypeOK'
    BY <2>2, <2>3, <2>4, <1>1, <1>2, TransferSame DEF FileTypeOK, Jobs
  <2>8. ListInv'
    BY <2>3 DEF FileInv, ListInv, ListedIn, Jobs
  <2>9. DiskInv'
    BY DiskStays DEF FileInv
  <2>10. m.type \in WriterKinds
    BY <2>2, <1>3 DEF WriterKinds
  <2>11. /\ Moved(toWriter, toWriter', id) /\ Moved(toReader, toReader', id)
         /\ \A k \in Messages : toWriter' = Append(toWriter, k) => k.type \in WriterKinds
         /\ \A k \in Messages : toReader' # Append(toReader, k)
    BY <2>2, <2>3, <2>10, <1>1, <1>2
  <2>12. FileInv'
    BY <2>4, <2>5, <2>6, <2>8, <2>9, <2>11, FileStep
  <2> QED
    BY <2>7, <2>12
<1>4. CASE ~Upload
  <2>1. PICK s \in WriteJobs(transfer) :
            /\ write_jobs' = [write_jobs EXCEPT ![id] = s]
            /\ ~s.is_last_job /\ s.stream = None
    BY <1>4
  <2>2. PICK m \in Messages : toReader' = Append(toReader, m) /\ m.id = id /\ m.type = "send"
    BY <1>4
  <2>3. /\ UNCHANGED <<read_jobs, queue, toWriter>> /\ read_jobs[id] = NoJob
        /\ write_queue' \in Seq(Jobs) /\ ListedIn(write_queue', write_jobs')
    BY <1>4
  <2>4. /\ write_jobs'[id] = s /\ s # NoJob /\ OthersSame(id)
        /\ write_jobs' \in [Jobs -> WriteJobs(transfer) \cup {NoJob}]
    BY <2>1, <2>3, WriteFacts DEF FileTypeOK, OthersSame
  <2>5. JobInv(id)'
    BY <2>1, <2>2, <2>3, <2>4, <1>1, JobStarts
  <2>6. SingleInv'
    BY <2>1, <2>3, <2>4, <1>1, <1>4, SingleStart
  <2>7. FileTypeOK'
    BY <2>2, <2>3, <2>4, <1>1, <1>2, TransferSame DEF FileTypeOK, Jobs
  <2>8. ListInv'
    BY <2>3 DEF FileInv, ListInv, ListedIn, Jobs
  <2>9. DiskInv'
    BY DiskStays DEF FileInv
  <2>10. m.type \in ReaderKinds
    BY <2>2, <1>4 DEF ReaderKinds
  <2>11. /\ Moved(toWriter, toWriter', id) /\ Moved(toReader, toReader', id)
         /\ \A k \in Messages : toReader' = Append(toReader, k) => k.type \in ReaderKinds
         /\ \A k \in Messages : toWriter' # Append(toWriter, k)
    BY <2>2, <2>3, <2>10, <1>1, <1>2
  <2>12. FileInv'
    BY <2>4, <2>5, <2>6, <2>8, <2>9, <2>11, FileStep
  <2> QED
    BY <2>7, <2>12
<1> QED
  BY <1>3, <1>4

LEMMA ExcuseOthersTypes ==
  ASSUME FileTypeOK, NEW id \in Jobs, NEW mine \in SUBSET FileNums, ExcuseOthers(id, mine)
  PROVE  excused' \in [Jobs -> SUBSET FileNums]
BY DEF ExcuseOthers

LEMMA SendFilesKeeps ==
  ASSUME FileTypeOK, FileInv, SendFiles
  PROVE  FileTypeOK' /\ FileInv'
<1> DEFINE n == started + 1
<1>1. started \in 0 .. MaxJobs /\ started < transfer.jobs /\ transfer.jobs \in 0 .. MaxJobs /\ MaxJobs \in Nat
  BY TransferFacts DEF SendFiles, FileTypeOK
<1>2. PICK id \in Jobs : id = started + 1
  BY <1>1 DEF Jobs
<1>3. /\ NoneActive /\ started' = id /\ ExcuseOthers(id, {})
      /\ IF Upload
         THEN /\ read_jobs' = [read_jobs EXCEPT ![id] = NewRead(0, FALSE)] /\ queue' = Append(queue, id)
              /\ toWriter' = Append(toWriter, [type |-> "receive", id |-> id, file_num |-> 0])
              /\ UNCHANGED <<write_jobs, write_queue, toReader>>
         ELSE /\ write_jobs' = [write_jobs EXCEPT ![id] = NewWrite(0, FALSE)]
              /\ write_queue' = Append(write_queue, id)
              /\ toReader' = Append(toReader, [type |-> "send", id |-> id, file_num |-> 0])
              /\ UNCHANGED <<read_jobs, queue, toWriter>>
      /\ UNCHANGED <<source, download, digest, final, asking, saved, breaks, transfer, misplaced>>
  BY <1>2 DEF SendFiles, PushRead, PushWrite, SendWriter, SendReader, writeVars, readVars, diskVars, boundVars
<1>4. read_jobs[id] = NoJob /\ write_jobs[id] = NoJob /\ Untouched(id)
  <2>1. id > started
    BY <1>1, <1>2
  <2> QED
    BY <2>1 DEF FileInv, JobInv, Fresh
<1>5. /\ ~(id > started') /\ started' \in 0 .. MaxJobs
      /\ \A j \in Jobs : j # id /\ j > started' => j > started
  BY <1>1, <1>2, <1>3 DEF Jobs
<1>6. excused' \in [Jobs -> SUBSET FileNums]
  BY <1>3, ExcuseOthersTypes
<1>7. 0 \in 0 .. N /\ FALSE \in BOOLEAN
  BY TransferFacts DEF FileTypeOK
<1>8. /\ read_jobs \in [Jobs -> ReadJobs(transfer) \cup {NoJob}] /\ queue \in Seq(Jobs)
      /\ write_jobs \in [Jobs -> WriteJobs(transfer) \cup {NoJob}] /\ write_queue \in Seq(Jobs)
      /\ ListedIn(queue, read_jobs) /\ ListedIn(write_queue, write_jobs)
  BY DEF FileTypeOK, FileInv, ListInv
<1>9. CASE Upload
  <2> DEFINE s == NewRead(0, FALSE)
             m == [type |-> "receive", id |-> id, file_num |-> 0]
  <2>1. m \in Messages /\ m.id = id /\ m.type = "receive"
    BY <1>7, MessageMade
  <2>2. /\ s \in ReadJobs(transfer) /\ s # NoJob /\ ~s.is_last_job /\ s.stream = None
        /\ ~s.confirmed /\ ~s.waiting /\ ~s.error
    BY <1>7, NewFacts
  <2>3. /\ read_jobs' = [read_jobs EXCEPT ![id] = s] /\ queue' = Append(queue, id)
        /\ toWriter' = Append(toWriter, m) /\ UNCHANGED <<write_jobs, write_queue, toReader>>
    BY <1>3, <1>9
  <2> HIDE DEF m, s
  <2>4. queue' \in Seq(Jobs) /\ ListedIn(queue', read_jobs')
    BY <2>2, <2>3, <1>4, <1>8, ListedFacts
  <2> QED
    BY <2>1, <2>2, <2>3, <2>4, <1>3, <1>4, <1>5, <1>6, <1>9, JobStarted
<1>10. CASE ~Upload
  <2> DEFINE s == NewWrite(0, FALSE)
             m == [type |-> "send", id |-> id, file_num |-> 0]
  <2>1. m \in Messages /\ m.id = id /\ m.type = "send"
    BY <1>7, MessageMade
  <2>2. s \in WriteJobs(transfer) /\ s # NoJob /\ ~s.is_last_job /\ s.stream = None
    BY <1>7, NewFacts
  <2>3. /\ write_jobs' = [write_jobs EXCEPT ![id] = s] /\ write_queue' = Append(write_queue, id)
        /\ toReader' = Append(toReader, m) /\ UNCHANGED <<read_jobs, queue, toWriter>>
    BY <1>3, <1>10
  <2> HIDE DEF m, s
  <2>4. write_queue' \in Seq(Jobs) /\ ListedIn(write_queue', write_jobs')
    BY <2>2, <2>3, <1>4, <1>8, ListedFacts
  <2> QED
    BY <2>1, <2>2, <2>3, <2>4, <1>3, <1>4, <1>5, <1>6, <1>10, JobStarted
<1> QED
  BY <1>9, <1>10

LEMMA ResumeJobKeeps ==
  ASSUME FileTypeOK, FileInv, NEW id \in Jobs, ResumeJob(id)
  PROVE  FileTypeOK' /\ FileInv'
<1>1. /\ NoneActive /\ ExcuseOthers(id, excused[id])
      /\ UNCHANGED <<source, download, digest, final, asking, started, saved, breaks, transfer, misplaced>>
  BY DEF ResumeJob, diskVars, uiVars, boundVars
<1>2. JobInv(id)
  BY DEF FileInv
<1>3. started' \in 0 .. MaxJobs /\ \A j \in Jobs : j # id /\ j > started' => j > started
  BY <1>1 DEF FileTypeOK
<1>4. excused' \in [Jobs -> SUBSET FileNums]
  BY <1>1, ExcuseOthersTypes DEF FileTypeOK
<1>5. /\ read_jobs \in [Jobs -> ReadJobs(transfer) \cup {NoJob}] /\ queue \in Seq(Jobs)
      /\ write_jobs \in [Jobs -> WriteJobs(transfer) \cup {NoJob}] /\ write_queue \in Seq(Jobs)
      /\ ListedIn(queue, read_jobs) /\ ListedIn(write_queue, write_jobs)
  BY DEF FileTypeOK, FileInv, ListInv
<1>6. CASE Upload
  <2> DEFINE r == read_jobs[id]
             s == [r EXCEPT !.is_last_job = FALSE, !.is_resume = TRUE]
             m == [type |-> "receive", id |-> id, file_num |-> r.file_num]
  <2>1. /\ r # NoJob /\ r.is_last_job /\ read_jobs' = [read_jobs EXCEPT ![id] = s] /\ queue' = queue
        /\ toWriter' = Append(toWriter, m) /\ UNCHANGED <<write_jobs, write_queue, toReader>>
    BY <1>6 DEF ResumeJob, SetRead, SendWriter, writeVars
  <2>2. r \in ReadJobs(transfer)
    BY <2>1, <1>5
  <2>3. /\ write_jobs[id] = NoJob /\ Untouched(id) /\ r.stream = None /\ ~r.error
        /\ ~r.confirmed /\ ~r.waiting /\ ~(id > started')
    BY <2>1, <1>1, <1>2 DEF JobInv, Fresh, Reader
  <2>4. /\ s \in ReadJobs(transfer) /\ ~s.is_last_job /\ s.stream = None
        /\ ~s.confirmed /\ ~s.waiting /\ ~s.error
    BY <2>2, <2>3 DEF ReadJobs
  <2>5. m \in Messages /\ m.id = id /\ m.type = "receive"
    BY <2>2, ReadFacts, MessageMade
  <2> HIDE DEF s, m
  <2>6. s # NoJob
    BY <2>4, ReadFacts
  <2>7. queue' \in Seq(Jobs) /\ ListedIn(queue', read_jobs')
    BY <2>1, <2>4, <2>6, <1>5, ListedFacts
  <2> QED
    BY <2>1, <2>3, <2>4, <2>5, <2>7, <1>1, <1>3, <1>4, <1>6, JobStarted
<1>7. CASE ~Upload
  <2> DEFINE w == write_jobs[id]
             s == [w EXCEPT !.is_last_job = FALSE, !.is_resume = TRUE]
             m == [type |-> "send", id |-> id, file_num |-> w.file_num]
  <2>1. /\ w # NoJob /\ w.is_last_job /\ write_jobs' = [write_jobs EXCEPT ![id] = s] /\ write_queue' = write_queue
        /\ toReader' = Append(toReader, m) /\ UNCHANGED <<read_jobs, queue, toWriter>>
    BY <1>7 DEF ResumeJob, SetWrite, SendReader, readVars
  <2>2. w \in WriteJobs(transfer)
    BY <2>1, <1>5
  <2>3. read_jobs[id] = NoJob /\ Untouched(id) /\ w.stream = None /\ ~(id > started')
    BY <2>1, <1>1, <1>2 DEF JobInv, Fresh
  <2>4. s \in WriteJobs(transfer) /\ ~s.is_last_job /\ s.stream = None
    BY <2>2, <2>3 DEF WriteJobs
  <2>5. m \in Messages /\ m.id = id /\ m.type = "send"
    BY <2>2, WriteFacts, MessageMade
  <2> HIDE DEF s, m
  <2>6. s # NoJob
    BY <2>4, WriteFacts
  <2>7. write_queue' \in Seq(Jobs) /\ ListedIn(write_queue', write_jobs')
    BY <2>1, <2>4, <2>6, <1>5, ListedFacts
  <2> QED
    BY <2>1, <2>3, <2>4, <2>5, <2>7, <1>1, <1>3, <1>4, <1>7, JobStarted
<1> QED
  BY <1>6, <1>7

-----------------------------------------------------------------------------

LEMMA CancelJobKeeps ==
  ASSUME FileTypeOK, FileInv, NEW id \in Jobs, CancelJob(id)
  PROVE  FileTypeOK' /\ FileInv'
<1> DEFINE m == [type |-> "cancel", id |-> id]
<1>1. /\ asking' = {a \in asking : a[1] # id}
      /\ UNCHANGED <<source, started, saved, transfer, breaks, excused, misplaced>>
  BY DEF CancelJob, boundVars, historyVars
<1>2. /\ asking' \subseteq asking /\ asking' \subseteq Jobs \X FileNums
      /\ \A j \in Jobs : \A f \in FileNums : j # id => (<<j, f>> \in asking' <=> <<j, f>> \in asking)
  BY <1>1 DEF FileTypeOK
<1>3. m \in Messages /\ m.id = id /\ m.type = "cancel"
  BY MessageMade
<1>4. JobInv(id) /\ KindInv /\ toReader \in Seq(Messages) /\ toWriter \in Seq(Messages)
  BY DEF FileInv, FileTypeOK
<1> HIDE DEF m
<1>5. /\ Append(toWriter, m) \in Seq(Messages) /\ Append(toReader, m) \in Seq(Messages)
      /\ Moved(toWriter, Append(toWriter, m), id) /\ Moved(toReader, Append(toReader, m), id)
      /\ \A k \in Messages : Append(toWriter, m) = Append(toWriter, k) => m = k
      /\ \A k \in Messages : Append(toReader, m) = Append(toReader, k) => m = k
      /\ \A k \in Messages : toReader # Append(toReader, k) /\ toWriter # Append(toWriter, k)
      /\ Moved(toWriter, toWriter, id) /\ Moved(toReader, toReader, id)
  <2>1. /\ Append(toWriter, m) \in Seq(Messages) /\ Moved(toWriter, Append(toWriter, m), id)
        /\ \A k \in Messages : Append(toWriter, m) = Append(toWriter, k) => m = k
        /\ \A k \in Messages : toWriter # Append(toWriter, k)
    BY <1>3, <1>4, MovedMade
  <2>2. /\ Append(toReader, m) \in Seq(Messages) /\ Moved(toReader, Append(toReader, m), id)
        /\ \A k \in Messages : Append(toReader, m) = Append(toReader, k) => m = k
        /\ \A k \in Messages : toReader # Append(toReader, k)
    BY <1>3, <1>4, MovedMade
  <2> QED
    BY <2>1, <2>2 DEF Moved
<1>6. CASE Upload
  <2>1. /\ read_jobs[id] # NoJob
        /\ read_jobs' = [read_jobs EXCEPT ![id] = NoJob] /\ queue' = Without(queue, id)
        /\ toWriter' = Append(toWriter, m)
        /\ UNCHANGED <<final, download, digest, write_jobs, write_queue, toReader>>
    BY <1>6 DEF CancelJob, RemoveRead, SendWriter, diskVars, writeVars, m
  <2>2. read_jobs'[id] = NoJob /\ OthersSame(id)
    BY <2>1 DEF OthersSame, FileTypeOK
  <2>3. JobInv(id)'
    <3>1. Taken(toReader, toReader')
      BY <2>1 DEF Taken
    <3> QED
      BY <3>1, <2>1, <2>2, <1>1, <1>2, <1>3, <1>4, <1>6, ReaderEnds
  <2>4. /\ ListedIn(Without(queue, id), [read_jobs EXCEPT ![id] = NoJob])
        /\ Without(queue, id) \in Seq(Jobs)
    BY ListedFacts DEF FileInv, ListInv, FileTypeOK
  <2>5. FileTypeOK'
    <3>1. read_jobs' \in [Jobs -> ReadJobs(transfer) \cup {NoJob}] /\ queue' \in Seq(Jobs)
      BY <2>1, <2>4 DEF FileTypeOK
    <3> QED
      BY <3>1, <2>1, <1>1, <1>2, <1>5, TransferSame DEF FileTypeOK, Jobs
  <2>6. ListInv'
    <3>1. Jobs' = Jobs
      BY DEF Jobs
    <3> QED
      BY <3>1, <2>1, <2>4, <1>1 DEF FileInv, ListInv, ListedIn
  <2>7. SingleInv'
    BY <2>1, <2>2, <1>1, <1>3, SingleEmit DEF FileInv, ClosingTypes
  <2>8. DiskInv'
    BY <2>1, <1>1, DiskStays DEF FileInv
  <2>9. m.type \in WriterKinds
    BY <1>3, <1>6 DEF WriterKinds
  <2>10. FileInv'
    BY <2>1, <2>2, <2>3, <2>6, <2>7, <2>8, <2>9, <1>1, <1>2, <1>5, FileStep
  <2> QED
    BY <2>5, <2>10
<1>7. CASE ~Upload
  <2> DEFINE w == write_jobs[id]
  <2>1. /\ w # NoJob /\ RemoveDownloadFile(w)
        /\ write_jobs' = [write_jobs EXCEPT ![id] = NoJob] /\ write_queue' = Without(write_queue, id)
        /\ toReader' = Append(toReader, m)
        /\ UNCHANGED <<read_jobs, queue, toWriter>>
    BY <1>7 DEF CancelJob, RemoveWrite, SendReader, readVars, m
  <2>2. w \in WriteJobs(transfer)
    BY <2>1 DEF FileTypeOK
  <2>3. /\ DownloadNamed(w) \in [FileNums -> Contents \cup {Absent}]
        /\ DigestNamed(w) \in [FileNums -> (0 .. MaxVersion) \cup {Absent}]
        /\ \A f \in FileNums : FileGood(f, DownloadNamed(w)[f], DigestNamed(w)[f], f \in misplaced)
        /\ Names(w) => DownloadNamed(w) = [download EXCEPT ![w.file_num] = Absent]
        /\ ~Names(w) => DownloadNamed(w) = download /\ DigestNamed(w) = digest
    BY <2>2, NamedFacts DEF FileInv
  <2>4. download' = DownloadNamed(w) /\ digest' = DigestNamed(w) /\ final' = final
    BY <2>1, <2>3 DEF RemoveDownloadFile
  <2>5. write_jobs'[id] = NoJob /\ OthersSame(id)
    BY <2>1 DEF OthersSame, FileTypeOK
  <2>6. JobInv(id)'
    BY <2>1, <2>5, <1>1, <1>2, <1>3, <1>4, <1>7, WriterEnds
  <2>7. /\ ListedIn(Without(write_queue, id), [write_jobs EXCEPT ![id] = NoJob])
        /\ Without(write_queue, id) \in Seq(Jobs)
    BY ListedFacts DEF FileInv, ListInv, FileTypeOK
  <2>8. FileTypeOK'
    <3>1. write_jobs' \in [Jobs -> WriteJobs(transfer) \cup {NoJob}] /\ write_queue' \in Seq(Jobs)
      BY <2>1, <2>7 DEF FileTypeOK
    <3> QED
      BY <3>1, <2>1, <2>3, <2>4, <1>1, <1>2, <1>5, TransferSame DEF FileTypeOK, Jobs
  <2>9. ListInv'
    <3>1. Jobs' = Jobs
      BY DEF Jobs
    <3> QED
      BY <3>1, <2>1, <2>7, <1>1 DEF FileInv, ListInv, ListedIn
  <2>10. SingleInv'
    <3>1. Writing(id)' => Writing(id)
      BY <2>5 DEF Writing
    <3> QED
      BY <3>1, <2>1, <2>5, <1>1, <1>7, SingleStay DEF FileInv
  <2>11. DiskInv'
    BY <2>3, <2>4, <1>1, DiskMoves
  <2>12. Writing(id) \/ UNCHANGED <<download, digest>>
    <3>1. CASE w.is_last_job
      <4>1. ~w.listed
        BY <3>1, <2>1, <1>4 DEF JobInv, Fresh
      <4> QED
        BY <4>1, <2>3, <2>4 DEF Names
    <3>2. CASE ~w.is_last_job
      BY <3>2, <2>1 DEF Writing
    <3> QED
      BY <3>1, <3>2
  <2>13. m.type \in ReaderKinds
    BY <1>3, <1>7 DEF ReaderKinds
  <2>14. FileInv'
    BY <2>1, <2>5, <2>6, <2>9, <2>10, <2>11, <2>12, <2>13, <1>1, <1>2, <1>5, FileStep
  <2> QED
    BY <2>8, <2>14
<1> QED
  BY <1>6, <1>7

LEMMA AnswerDialogKeeps ==
  ASSUME FileTypeOK, FileInv, NEW id \in Jobs, NEW f \in FileNums,
         NEW strategy \in {"overwrite", "skip"}, NEW remember \in BOOLEAN,
         AnswerDialog(id, f, strategy, remember)
  PROVE  FileTypeOK' /\ FileInv'
<1> DEFINE offset == Answer(strategy)
           Remembered(job) == IF remember THEN [job EXCEPT !.strategy = strategy] ELSE job
<1>1. /\ <<id, f>> \in asking /\ asking' = asking \ {<<id, f>>}
      /\ UNCHANGED <<source, final, download, digest, toWriter, started, saved, transfer, breaks, misplaced>>
      /\ excused' \in [Jobs -> SUBSET FileNums]
  <2>1. IF strategy = "skip" THEN Excuse(id, f) ELSE UNCHANGED excused
    BY DEF AnswerDialog
  <2>2. excused' \in [Jobs -> SUBSET FileNums]
    BY <2>1, ExcuseTypes DEF FileTypeOK
  <2> QED
    BY <2>2 DEF AnswerDialog, boundVars, diskVars
<1>2. /\ asking' \subseteq asking /\ asking' \subseteq Jobs \X FileNums
      /\ \A j \in Jobs : \A g \in FileNums : j # id => (<<j, g>> \in asking' <=> <<j, g>> \in asking)
  BY <1>1 DEF FileTypeOK
<1>3. JobInv(id) /\ KindInv /\ toReader \in Seq(Messages) /\ toWriter \in Seq(Messages)
  BY DEF FileInv, FileTypeOK
<1>4. offset \in Nat \cup {Skip} /\ (offset = 0 \/ offset = Skip)
  BY DEF Answer
<1>5. /\ \A k \in Messages : toReader # Append(toReader, k) /\ toWriter # Append(toWriter, k)
      /\ Moved(toWriter, toWriter, id) /\ Moved(toReader, toReader, id)
  BY <1>3, MovedMade DEF Moved
<1>6. CASE Upload
  <2> DEFINE r == read_jobs[id]
             s == ConfirmRead(Remembered(r), f, offset)
  <2>1. r # NoJob /\ SetRead(id, s) /\ UNCHANGED <<write_jobs, write_queue, toReader>>
    BY <1>6 DEF AnswerDialog, writeVars
  <2>2. r \in ReadJobs(transfer)
    BY <2>1 DEF FileTypeOK
  <2>3. AnswerComes(id, f)
    BY <2>1, <1>1 DEF AnswerComes
  <2>4. r.file_num = f /\ r.stream # None
    BY <2>1, <2>3, <1>1, <1>3, AnswerFacts
  <2>5. /\ Remembered(r) \in ReadJobs(transfer) /\ Remembered(r).file_num = r.file_num
        /\ Remembered(r).stream = r.stream /\ Remembered(r).waiting = r.waiting
        /\ Remembered(r).is_last_job = r.is_last_job /\ Remembered(r).error = r.error
    BY <2>2 DEF ReadJobs, Strategies
  <2> HIDE DEF offset, Remembered
  <2>6. /\ s \in ReadJobs(transfer) /\ s.is_last_job = r.is_last_job /\ s.error = r.error
        /\ \/ /\ s.file_num = f /\ s.stream # None /\ s.confirmed /\ s.waiting = r.waiting
           \/ /\ s.file_num = f + 1 /\ s.stream = None /\ ~s.confirmed /\ ~s.waiting
    BY <2>4, <2>5, <1>4, ConfirmReadFacts
  <2> HIDE DEF s
  <2>7. read_jobs'[id] = s /\ s # NoJob
    BY <2>1, <2>6, ReadFacts DEF SetRead, FileTypeOK
  <2>8. JobInv(id)'
    BY <2>1, <2>3, <2>6, <2>7, <1>1, <1>3, ReaderAnswered
  <2>9. Moved(toReader, toReader', id) /\ toReader' \in Seq(Messages) /\ \A k \in Messages : toReader' # Append(toReader, k)
    BY <2>1, <1>3, <1>5
  <2> QED
    BY <2>1, <2>6, <2>8, <2>9, <1>1, <1>2, ReaderConfirmed
<1>7. CASE ~Upload
  <2> DEFINE w == write_jobs[id]
             s == ConfirmWrite(Remembered(w), f, offset)
             m == ConfirmMessage(id, f, offset)
  <2>1. w # NoJob /\ SetWrite(id, s) /\ toReader' = Append(toReader, m) /\ UNCHANGED <<read_jobs, queue>>
    BY <1>7 DEF AnswerDialog, readVars, SendReader
  <2>2. w \in WriteJobs(transfer)
    BY <2>1 DEF FileTypeOK
  <2>3. /\ Remembered(w) \in WriteJobs(transfer) /\ Remembered(w).file_num = w.file_num
        /\ Remembered(w).stream = w.stream /\ Remembered(w).digest = w.digest
        /\ Remembered(w).is_last_job = w.is_last_job
    BY <2>2 DEF WriteJobs, Strategies
  <2> HIDE DEF offset, Remembered
  <2>4. /\ s \in WriteJobs(transfer) /\ s.is_last_job = w.is_last_job /\ s.digest = w.digest
        /\ \/ s.file_num = w.file_num /\ s.stream = w.stream
           \/ s.stream = None
    <3>1. ~(offset \in Nat /\ offset > 0)
      BY <1>4 DEF Skip
    <3>2. \A x \in WriteJobs(transfer) :
             /\ ConfirmWrite(x, f, offset) \in WriteJobs(transfer)
             /\ ConfirmWrite(x, f, offset).is_last_job = x.is_last_job
             /\ ConfirmWrite(x, f, offset).digest = x.digest
             /\ \/ /\ ConfirmWrite(x, f, offset).file_num = x.file_num
                   /\ ConfirmWrite(x, f, offset).stream = x.stream
                \/ ConfirmWrite(x, f, offset).stream = None
                \/ offset \in Nat /\ offset > 0
      <4> HIDE DEF s, m, w
      <4> QED
        BY <1>4, ConfirmWriteFacts
    <3>3. s = ConfirmWrite(Remembered(w), f, offset)
      OBVIOUS
    <3> HIDE DEF s
    <3> QED
      BY <3>1, <3>2, <3>3, <2>3
  <2>5. m \in Messages /\ m.id = id /\ m.type = "confirm" /\ m.file_num = f
    <3>1. m \in Messages
      BY <1>4, MessageMade
    <3> QED
      BY <3>1 DEF ConfirmMessage
  <2> HIDE DEF s, m
  <2>6. /\ write_jobs' = [write_jobs EXCEPT ![id] = s] /\ write_queue' = write_queue
        /\ write_jobs'[id] = s /\ s # NoJob /\ OthersSame(id)
        /\ write_jobs' \in [Jobs -> WriteJobs(transfer) \cup {NoJob}]
    BY <2>1, <2>4, WriteFacts DEF SetWrite, FileTypeOK, OthersSame
  <2>7. JobInv(id)'
    BY <2>1, <2>4, <2>5, <2>6, <1>1, <1>3, <1>7, WriterAnswered
  <2>8. /\ Append(toReader, m) \in Seq(Messages) /\ Moved(toReader, Append(toReader, m), id)
        /\ \A k \in Messages : Append(toReader, m) = Append(toReader, k) => m = k
    BY <2>5, <1>3, MovedMade
  <2>9. FileTypeOK'
    BY <2>1, <2>6, <2>8, <1>1, <1>2, TransferSame DEF FileTypeOK, Jobs
  <2>10. ListInv'
    <3>1. ListedIn(write_queue, [write_jobs EXCEPT ![id] = s])
      BY <2>1, <2>4, <2>6, ListedFacts DEF FileInv, ListInv, FileTypeOK
    <3> QED
      BY <3>1, <2>1, <2>6, <1>1 DEF FileInv, ListInv, ListedIn, Jobs
  <2>11. SingleInv'
    <3>1. Writing(id)' => Writing(id)
      BY <2>1, <2>4, <2>6 DEF Writing
    <3> QED
      BY <3>1, <2>1, <2>6, <1>1, <1>7, SingleStay DEF FileInv
  <2>12. DiskInv'
    BY <1>1, DiskStays DEF FileInv
  <2>13. m.type \in ReaderKinds
    BY <2>5, <1>7 DEF ReaderKinds
  <2>14. FileInv'
    BY <2>1, <2>6, <2>7, <2>8, <2>10, <2>11, <2>12, <2>13, <1>1, <1>2, <1>5, FileStep
  <2> QED
    BY <2>9, <2>14
<1> QED
  BY <1>6, <1>7

LEMMA ChangeSourceKeeps ==
  ASSUME FileTypeOK, FileInv, NEW f \in FileNums, ChangeSource(f)
  PROVE  FileTypeOK' /\ FileInv'
<1>1. /\ source[f] < MaxVersion /\ source' = [source EXCEPT ![f] = @ + 1]
      /\ \A id \in Jobs : read_jobs[id] # NoJob => read_jobs[id].is_last_job
      /\ UNCHANGED <<final, download, digest, read_jobs, queue, write_jobs, write_queue, toReader, toWriter,
                     asking, started, saved, transfer, breaks, excused, misplaced>>
  BY DEF ChangeSource, diskVars, jobVars, readVars, writeVars, netVars, uiVars, boundVars, historyVars
<1>2. FileTypeOK'
  <2>1. source' \in [FileNums -> 1 .. MaxVersion]
    <3>1. source \in [FileNums -> 1 .. MaxVersion] /\ MaxVersion \in Nat
      BY TransferFacts DEF FileTypeOK
    <3>2. source[f] + 1 \in 1 .. MaxVersion
      BY <3>1, <1>1
    <3> QED
      BY <3>1, <3>2, <1>1
  <2> QED
    BY <2>1, <1>1, TransferSame DEF FileTypeOK, Jobs
<1>3. ASSUME NEW j \in Jobs PROVE JobInv(j)'
  <2>1. JobInv(j)
    BY DEF FileInv
  <2>2. Same(toReader, toReader', j, 0) /\ Same(toWriter, toWriter', j, 0)
    <3>1. toReader' = toReader /\ toWriter' = toWriter
          /\ Len(toReader) \in Nat /\ Len(toWriter) \in Nat
      BY <1>1, LenProperties DEF FileTypeOK
    <3> QED
      BY <3>1 DEF Same
  <2>3. read_jobs[j] # NoJob => read_jobs[j].stream = None
    BY <2>1, <1>1 DEF JobInv, Fresh
  <2>4. 0 \in {0, 1}
    OBVIOUS
  <2> QED
    BY <2>1, <2>2, <2>3, <2>4, <1>1, Frame
<1>4. ListInv'
  BY <1>1 DEF FileInv, ListInv, ListedIn, Jobs
<1>5. KindInv'
  BY <1>1, TransferSame DEF FileInv, KindInv, ReaderKinds, WriterKinds
<1>6. SingleInv'
  BY <1>1, TransferSame DEF FileInv, SingleInv, Writing, LiveAt, Jobs
<1>7. DiskInv'
  BY <1>1, DiskStays DEF FileInv
<1> QED
  <2>1. Jobs' = Jobs
    BY DEF Jobs
  <2> QED
    BY <2>1, <1>2, <1>3, <1>4, <1>5, <1>6, <1>7 DEF FileInv

-----------------------------------------------------------------------------
(* A session starts.                                                       *)

LEMMA InitHolds ==
  ASSUME FileInit
  PROVE  FileTypeOK /\ FileInv
<1>1. transfer \in Transfers /\ toReader = <<>> /\ toWriter = <<>> /\ asking = {} /\ started = 0
      /\ read_jobs = [id \in Jobs |-> NoJob] /\ queue = <<>>
      /\ write_jobs = [id \in Jobs |-> NoJob] /\ write_queue = <<>>
      /\ download = [f \in FileNums |-> Absent] /\ digest = [f \in FileNums |-> Absent]
      /\ saved = <<>> /\ breaks = 0 /\ misplaced = {}
  BY DEF FileInit
<1>2. FileTypeOK
  <2>1. MaxVersion \in Nat \ {0} /\ MaxBreaks \in Nat /\ MaxJobs \in Nat
    BY <1>1, TransferFacts
  <2>2. source \in [FileNums -> 1 .. MaxVersion]
    BY <2>1 DEF FileInit
  <2>3. final \in [FileNums -> Contents \cup {Absent}]
    <3>1. << <<0, 1>> >> \in Contents
      BY <2>1 DEF Contents, Pieces
    <3> QED
      BY <3>1 DEF FileInit
  <2>4. started \in 0 .. MaxJobs /\ breaks \in 0 .. MaxBreaks
    BY <1>1, <2>1
  <2>5. excused \in [Jobs -> SUBSET FileNums]
    BY DEF FileInit
  <2> QED
    BY <1>1, <2>2, <2>3, <2>4, <2>5 DEF FileTypeOK
<1>3. ASSUME NEW j \in Jobs PROVE JobInv(j)
  <2>1. /\ read_jobs[j] = NoJob /\ write_jobs[j] = NoJob /\ Len(toReader) = 0 /\ Len(toWriter) = 0
        /\ ~Asked(j)
    BY <1>1 DEF Asked
  <2>2. Untouched(j)
    BY <2>1 DEF Untouched, Mentions
  <2>3. Fresh(j) /\ Sends(j) /\ Receives(j) /\ Reader(j)
    BY <2>1, <2>2 DEF Fresh, Sends, Receives, Reader
  <2>4. Digests(j) /\ Tokens(j) /\ Asks(j) /\ Confirms(j)
    BY <2>1, <1>1 DEF Digests, Tokens, Asks, Confirms
  <2>5. Blocks(j) /\ Opens(j) /\ Cancels(j)
    BY <2>1 DEF Blocks, Opens, Open, Cancels
  <2> QED
    BY <2>3, <2>4, <2>5 DEF JobInv
<1>4. ListInv
  <2>1. MaxJobs \in Nat
    BY <1>1, TransferFacts
  <2> QED
    BY <1>1, <2>1 DEF ListInv, ListedIn, Once, In
<1>5. KindInv
  BY <1>1 DEF KindInv
<1>6. SingleInv
  <2>1. Len(toWriter) = 0 /\ \A j \in Jobs : write_jobs[j] = NoJob
    BY <1>1
  <2>2. \A p \in 0 .. Len(toWriter) : \A j \in Jobs : ~LiveAt(j, p)
    BY <2>1 DEF LiveAt
  <2>3. Len(toWriter) \in 0 .. Len(toWriter)
    BY <2>1
  <2> QED
    BY <2>1, <2>2, <2>3 DEF SingleInv, Writing
<1>7. DiskInv
  BY <1>1 DEF DiskInv, Resumable
<1> QED
  BY <1>2, <1>3, <1>4, <1>5, <1>6, <1>7 DEF FileInv

\* What is kept of the jobs.
MetaType == [file_num : 0 .. N, excused : SUBSET FileNums]

LEMMA MetasFacts ==
  ASSUME FileTypeOK, ListInv
  PROVE  Metas \in Seq(MetaType) /\ Len(Metas) \in 0 .. MaxJobs
<1> DEFINE ids == IF Upload THEN queue ELSE write_queue
           metas == [i \in 1 .. Len(ids) |-> Meta(ids[i])]
<1>1. ids \in Seq(Jobs) /\ Once(ids) /\ Len(ids) \in Nat
  <2>1. ids \in Seq(Jobs) /\ Once(ids)
    BY DEF FileTypeOK, ListInv, ListedIn
  <2> QED
    BY <2>1, LenProperties
<1>2. Len(ids) <= MaxJobs
  <2>1. MaxJobs \in Nat
    BY TransferFacts DEF FileTypeOK
  <2> QED
    BY <1>1, <2>1, OnceLength DEF Jobs
<1>3. ASSUME NEW i \in 1 .. Len(ids) PROVE Meta(ids[i]) \in MetaType
  <2>1. ids[i] \in Jobs /\ In(ids, ids[i])
    BY <1>1, ElementOfSeq DEF In
  <2>2. excused[ids[i]] \in SUBSET FileNums
    BY <2>1 DEF FileTypeOK
  <2>3. CASE Upload
    <3>1. read_jobs[ids[i]] # NoJob
      BY <2>1, <2>3 DEF ListInv, ListedIn
    <3>2. read_jobs[ids[i]] \in ReadJobs(transfer)
      BY <3>1, <2>1 DEF FileTypeOK
    <3>3. read_jobs[ids[i]].file_num \in 0 .. N
      BY <3>2, ReadFacts
    <3>4. LeftBehind(ids[i]) \subseteq FileNums
      <4>1. N \in Nat
        BY TransferFacts DEF FileTypeOK
      <4>2. 0 .. read_jobs[ids[i]].file_num - 1 \subseteq FileNums
        BY <3>3, <4>1 DEF FileNums
      <4> QED
        BY <4>2 DEF LeftBehind
    <3> QED
      BY <2>2, <2>3, <3>3, <3>4 DEF Meta, MetaType
  <2>4. CASE ~Upload
    <3>1. write_jobs[ids[i]] # NoJob
      BY <2>1, <2>4 DEF ListInv, ListedIn
    <3>2. write_jobs[ids[i]] \in WriteJobs(transfer)
      BY <3>1, <2>1 DEF FileTypeOK
    <3>3. write_jobs[ids[i]].file_num \in 0 .. N
      BY <3>2, WriteFacts
    <3> QED
      BY <2>2, <2>4, <3>3 DEF Meta, MetaType
  <2> QED
    BY <2>3, <2>4
<1>4. Metas = metas
  BY DEF Metas
<1> HIDE DEF ids
<1>5. metas \in Seq(MetaType) /\ Len(metas) = Len(ids)
  BY <1>1, <1>3
<1> QED
  BY <1>1, <1>2, <1>4, <1>5

LEMMA ReconnectKeeps ==
  ASSUME FileTypeOK, FileInv, NEW crash \in BOOLEAN, Reconnect(crash)
  PROVE  FileTypeOK' /\ FileInv'
<1> DEFINE metas == IF crash THEN saved ELSE Metas
           n == Len(metas)
<1>1. metas \in Seq(MetaType) /\ n \in Nat /\ n <= MaxJobs
  <2>1. saved \in Seq(MetaType) /\ Len(saved) <= MaxJobs
    BY DEF FileTypeOK, FileInv, ListInv, MetaType
  <2>2. Metas \in Seq(MetaType) /\ Len(Metas) <= MaxJobs
    BY MetasFacts DEF FileInv
  <2>3. CASE crash
    BY <2>1, <2>3, LenProperties
  <2>4. CASE ~crash
    BY <2>2, <2>4, LenProperties
  <2> QED
    BY <2>3, <2>4
<1>2. \A i \in 1 .. n : metas[i] \in MetaType
  BY <1>1, ElementOfSeq
<1>3. /\ breaks < MaxBreaks /\ breaks' = breaks + 1 /\ saved' = metas /\ started' = n
      /\ read_jobs' = [id \in Jobs |-> IF Upload /\ id <= n
                                       THEN NewRead(metas[id].file_num, TRUE) ELSE NoJob]
      /\ queue' = IF Upload THEN [i \in 1 .. n |-> i] ELSE <<>>
      /\ write_jobs' = [id \in Jobs |-> IF ~Upload /\ id <= n
                                        THEN NewWrite(metas[id].file_num, TRUE) ELSE NoJob]
      /\ write_queue' = IF Upload THEN <<>> ELSE [i \in 1 .. n |-> i]
      /\ toReader' = <<>> /\ toWriter' = <<>> /\ asking' = {}
      /\ excused' = [id \in Jobs |-> IF id <= n THEN metas[id].excused ELSE FileNums]
      /\ UNCHANGED <<transfer, source, final, download, digest, misplaced>>
  BY DEF Reconnect, diskVars
<1> HIDE DEF metas, n
<1>4. MaxJobs \in Nat /\ MaxBreaks \in Nat /\ Jobs = 1 .. MaxJobs
  BY TransferFacts DEF FileTypeOK, Jobs
<1>5. ASSUME NEW id \in Jobs, id <= n PROVE metas[id].file_num \in 0 .. N /\ metas[id].excused \in SUBSET FileNums
  <2>1. id \in 1 .. n
    BY <1>4, <1>1, <1>5
  <2> QED
    BY <2>1, <1>2 DEF MetaType
<1>6. ASSUME NEW id \in Jobs
      PROVE  /\ read_jobs'[id] \in ReadJobs(transfer) \cup {NoJob}
             /\ write_jobs'[id] \in WriteJobs(transfer) \cup {NoJob}
             /\ read_jobs'[id] # NoJob <=> Upload /\ id <= n
             /\ write_jobs'[id] # NoJob <=> ~Upload /\ id <= n
             /\ read_jobs'[id] # NoJob => /\ read_jobs'[id].is_last_job /\ read_jobs'[id].stream = None
                                          /\ ~read_jobs'[id].confirmed /\ ~read_jobs'[id].waiting
                                          /\ ~read_jobs'[id].error
             /\ write_jobs'[id] # NoJob => /\ write_jobs'[id].is_last_job /\ write_jobs'[id].stream = None
                                           /\ ~write_jobs'[id].listed
  <2>1. /\ read_jobs'[id] = IF Upload /\ id <= n THEN NewRead(metas[id].file_num, TRUE) ELSE NoJob
        /\ write_jobs'[id] = IF ~Upload /\ id <= n THEN NewWrite(metas[id].file_num, TRUE) ELSE NoJob
    BY <1>3
  <2>2. CASE id <= n
    <3>1. metas[id].file_num \in 0 .. N /\ TRUE \in BOOLEAN
      BY <2>2, <1>5
    <3>2. /\ NewRead(metas[id].file_num, TRUE) \in ReadJobs(transfer) /\ NewRead(metas[id].file_num, TRUE) # NoJob
          /\ NewRead(metas[id].file_num, TRUE).is_last_job /\ NewRead(metas[id].file_num, TRUE).stream = None
          /\ ~NewRead(metas[id].file_num, TRUE).confirmed /\ ~NewRead(metas[id].file_num, TRUE).waiting
          /\ ~NewRead(metas[id].file_num, TRUE).error
          /\ NewWrite(metas[id].file_num, TRUE) \in WriteJobs(transfer)
          /\ NewWrite(metas[id].file_num, TRUE) # NoJob
          /\ NewWrite(metas[id].file_num, TRUE).is_last_job /\ NewWrite(metas[id].file_num, TRUE).stream = None
          /\ NewWrite(metas[id].file_num, TRUE).listed = Upload
      BY <3>1, NewFacts
    <3>3. CASE Upload
      BY <2>1, <2>2, <3>2, <3>3
    <3>4. CASE ~Upload
      BY <2>1, <2>2, <3>2, <3>4
    <3> QED
      BY <3>3, <3>4
  <2>3. CASE ~(id <= n)
    BY <2>1, <2>3
  <2> QED
    BY <2>2, <2>3
<1> DEFINE ids == [i \in 1 .. n |-> i]
<1>8. ids \in Seq(Jobs) /\ Once(ids) /\ \A id \in Jobs : In(ids, id) <=> id <= n
  <2>1. ids \in Seq(Jobs) /\ Len(ids) = n /\ \A i \in 1 .. n : ids[i] = i
    BY <1>1, <1>4
  <2> QED
    BY <2>1, <1>1, <1>4 DEF Once, In
<1>9. <<>> \in Seq(Jobs) /\ Once(<<>>) /\ \A id : ~In(<<>>, id)
  BY DEF Once, In
<1>10. /\ queue' = IF Upload THEN ids ELSE <<>>
       /\ write_queue' = IF Upload THEN <<>> ELSE ids
  BY <1>3
<1> HIDE DEF ids
<1>11. FileTypeOK'
  <2>1. /\ read_jobs' \in [Jobs -> ReadJobs(transfer) \cup {NoJob}]
        /\ write_jobs' \in [Jobs -> WriteJobs(transfer) \cup {NoJob}]
    BY <1>3, <1>6
  <2>2. excused' \in [Jobs -> SUBSET FileNums]
    BY <1>3, <1>5
  <2>3. queue' \in Seq(Jobs) /\ write_queue' \in Seq(Jobs)
    BY <1>8, <1>9, <1>10
  <2>4. started' \in 0 .. MaxJobs /\ breaks' \in 0 .. MaxBreaks
    BY <1>1, <1>3, <1>4 DEF FileTypeOK
  <2>5. saved' \in Seq([file_num : 0 .. N, excused : SUBSET FileNums])
    BY <1>1, <1>3 DEF MetaType
  <2>6. toReader' \in Seq(Messages) /\ toWriter' \in Seq(Messages) /\ asking' \subseteq Jobs \X FileNums
    BY <1>3
  <2> QED
    BY <2>1, <2>2, <2>3, <2>4, <2>5, <2>6, <1>3, TransferSame DEF FileTypeOK, Jobs
<1>12. ASSUME NEW j \in Jobs PROVE JobInv(j)'
  <2>1. Len(toReader') = 0 /\ Len(toWriter') = 0 /\ asking' = {} /\ Upload' = Upload
    BY <1>3, TransferSame
  <2>2. Untouched(j)'
    BY <2>1 DEF Untouched, Mentions, Asked
  <2>3. j > started' => ~(j <= n)
    BY <1>1, <1>3, <1>4
  <2>4. Fresh(j)'
    BY <1>6, <2>1, <2>2, <2>3 DEF Fresh
  <2>5. Sends(j)' /\ Receives(j)'
    BY <2>1 DEF Sends, Receives
  <2>6. Reader(j)'
    BY <1>6 DEF Reader
  <2>7. Digests(j)' /\ Tokens(j)' /\ Asks(j)' /\ Confirms(j)'
    BY <2>1 DEF Digests, Tokens, Asks, Confirms
  <2>8. Blocks(j)' /\ Cancels(j)'
    BY <2>1 DEF Blocks, Cancels
  <2>9. Opens(j)'
    BY <1>6 DEF Opens, Open
  <2> QED
    BY <2>4, <2>5, <2>6, <2>7, <2>8, <2>9 DEF JobInv
<1>13. ListInv'
  <2>1. ListedIn(queue', read_jobs') /\ ListedIn(write_queue', write_jobs')
    BY <1>6, <1>8, <1>9, <1>10 DEF ListedIn
  <2>2. Len(saved') <= MaxJobs
    BY <1>1, <1>3 DEF n
  <2> QED
    BY <2>1, <2>2 DEF ListInv, ListedIn, Jobs
<1>14. KindInv'
  BY <1>3 DEF KindInv
<1>15. SingleInv'
  <2>1. Len(toWriter') = 0 /\ Upload' = Upload /\ Jobs' = Jobs
    BY <1>3, TransferSame DEF Jobs
  <2>2. \A j \in Jobs : ~Writing(j)'
    BY <1>6 DEF Writing
  <2>3. ASSUME Upload, NEW j \in Jobs, NEW p \in 0 .. Len(toWriter') PROVE ~LiveAt(j, p)'
    BY <2>1, <2>3, <1>6 DEF LiveAt
  <2>4. ASSUME Upload, NEW j \in Jobs, NEW p, p = Len(toWriter') PROVE ~LiveAt(j, p)'
    BY <2>1, <2>3, <2>4
  <2> QED
    BY <2>1, <2>2, <2>3, <2>4 DEF SingleInv
<1>16. DiskInv'
  BY <1>3, DiskStays DEF FileInv
<1> QED
  <2>1. Jobs' = Jobs
    BY DEF Jobs
  <2> QED
    BY <2>1, <1>11, <1>12, <1>13, <1>14, <1>15, <1>16 DEF FileInv

-----------------------------------------------------------------------------
(* The writer takes a message.                                             *)

\* What the head of toWriter is.
LEMMA WriterHead ==
  ASSUME FileTypeOK, FileInv, toWriter # <<>>
  PROVE  /\ Head(toWriter) \in Messages /\ Head(toWriter).id \in Jobs
         /\ Head(toWriter).type \in WriterKinds
         /\ 1 \in 1 .. Len(toWriter) /\ toWriter[1] = Head(toWriter)
         /\ Tail(toWriter) \in Seq(Messages)
         /\ Moved(toWriter, Tail(toWriter), Head(toWriter).id)
         /\ \A k \in Messages : Tail(toWriter) # Append(toWriter, k)
<1>1. toWriter \in Seq(Messages)
  BY DEF FileTypeOK
<1>2. Head(toWriter) \in Messages /\ 1 \in 1 .. Len(toWriter) /\ toWriter[1] = Head(toWriter)
  BY <1>1, TailFacts
<1>3. Head(toWriter).id \in Jobs
  BY <1>2, MessageFacts
<1>4. Head(toWriter).type \in WriterKinds
  BY <1>2 DEF FileInv, KindInv
<1>5. Tail(toWriter) \in Seq(Messages) /\ Moved(toWriter, Tail(toWriter), Head(toWriter).id)
  BY <1>1, <1>2, MovedMade
<1>6. \A k \in Messages : Tail(toWriter) # Append(toWriter, k)
  BY <1>1, <1>2, MovedMade
<1> QED
  BY <1>2, <1>3, <1>4, <1>5, <1>6

\* The writer of id, which has taken the message, becomes s.
LEMMA WriterStepMade ==
  ASSUME FileTypeOK, FileInv, NEW id \in Jobs, toWriter # <<>>, Head(toWriter).id = id,
         TakenByWriter, NEW s \in WriteJobs(transfer) \cup {NoJob},
         write_jobs' = [write_jobs EXCEPT ![id] = s],
         write_queue' \in Seq(Jobs), ListedIn(write_queue', write_jobs'),
         Head(toWriter).type \in ClosingTypes => s = NoJob,
         s # NoJob => \/ /\ write_jobs[id] # NoJob /\ s.is_last_job = write_jobs[id].is_last_job
                      \/ Head(toWriter).type = "receive" /\ Upload,
         \/ toReader' = toReader
         \/ \E m \in Messages : /\ toReader' = Append(toReader, m) /\ m.id = id
                                /\ m.type \in ReaderKinds,
         final' \in [FileNums -> Contents \cup {Absent}],
         download' \in [FileNums -> Contents \cup {Absent}],
         digest' \in [FileNums -> (0 .. MaxVersion) \cup {Absent}],
         misplaced' \subseteq FileNums,
         Writing(id) \/ UNCHANGED <<download, digest>>, DiskInv',
         asking' \subseteq Jobs \X FileNums,
         \A j \in Jobs : \A f \in FileNums : j # id => (<<j, f>> \in asking' <=> <<j, f>> \in asking),
         excused' \in [Jobs -> SUBSET FileNums],
         JobInv(id)'
  PROVE  FileTypeOK' /\ FileInv'
<1>1. /\ toWriter' = Tail(toWriter)
      /\ UNCHANGED <<source, read_jobs, queue, started, saved, transfer, breaks>>
  BY DEF TakenByWriter, readVars, boundVars
<1>2. write_jobs'[id] = s /\ OthersSame(id) /\ write_jobs' \in [Jobs -> WriteJobs(transfer) \cup {NoJob}]
  BY <1>1 DEF FileTypeOK, OthersSame
<1>3. /\ toWriter' \in Seq(Messages) /\ Moved(toWriter, toWriter', id)
      /\ \A k \in Messages : toWriter' # Append(toWriter, k)
  BY <1>1, WriterHead
<1>4. /\ toReader' \in Seq(Messages) /\ Moved(toReader, toReader', id)
      /\ \A k \in Messages : toReader' = Append(toReader, k) => k.type \in ReaderKinds
  <2>1. toReader \in Seq(Messages)
    BY DEF FileTypeOK
  <2>2. CASE toReader' = toReader
    <3>1. \A k \in Messages : toReader # Append(toReader, k)
      BY <2>1, MovedMade
    <3> QED
      BY <3>1, <2>1, <2>2 DEF Moved
  <2>3. CASE toReader' # toReader
    <3>1. PICK m \in Messages : toReader' = Append(toReader, m) /\ m.id = id /\ m.type \in ReaderKinds
      BY <2>3
    <3>2. /\ Append(toReader, m) \in Seq(Messages) /\ Moved(toReader, Append(toReader, m), id)
          /\ \A k \in Messages : Append(toReader, m) = Append(toReader, k) => m = k
      BY <2>1, <3>1, MovedMade
    <3> QED
      BY <3>1, <3>2
  <2> QED
    BY <2>2, <2>3
<1>5. FileTypeOK'
  BY <1>1, <1>2, <1>3, <1>4, TransferSame DEF FileTypeOK, Jobs
<1>6. ListInv'
  BY <1>1 DEF FileInv, ListInv, ListedIn, Jobs
<1>7. SingleInv'
  <2>1. Receives(id) /\ SingleInv
    BY DEF FileInv, JobInv
  <2>2. Writing(id)' => Writing(id) \/ Upload
    BY <1>2 DEF Writing
  <2> QED
    BY <2>1, <2>2, <1>1, <1>2, SingleTake
<1>8. FileInv'
  BY <1>1, <1>2, <1>3, <1>4, <1>6, <1>7, FileStep
<1> QED
  BY <1>5, <1>8

\* The writer lists of a step.
LEMMA WriterSet ==
  ASSUME FileTypeOK, FileInv, NEW id \in Jobs, NEW s \in WriteJobs(transfer), write_jobs[id] # NoJob,
         SetWrite(id, s)
  PROVE  /\ write_jobs' = [write_jobs EXCEPT ![id] = s] /\ write_jobs'[id] = s /\ s # NoJob
         /\ write_queue' \in Seq(Jobs) /\ ListedIn(write_queue', write_jobs')
<1>1. s # NoJob
  BY WriteFacts
<1>2. write_jobs' = [write_jobs EXCEPT ![id] = s] /\ write_queue' = write_queue
  BY DEF SetWrite
<1>3. ListedIn(write_queue, [write_jobs EXCEPT ![id] = s]) /\ write_queue \in Seq(Jobs)
  BY <1>1, ListedFacts DEF FileInv, ListInv, FileTypeOK
<1> QED
  BY <1>1, <1>2, <1>3 DEF FileTypeOK

\* The job is dropped.
LEMMA WriterLeaves ==
  ASSUME FileTypeOK, FileInv, NEW id \in Jobs, toWriter # <<>>, Head(toWriter).id = id,
         TakenByWriter, \/ RemoveWrite(id)
                        \/ write_jobs[id] = NoJob /\ UNCHANGED <<write_jobs, write_queue>>,
         UNCHANGED <<toReader, asking, misplaced>>,
         excused' \in [Jobs -> SUBSET FileNums],
         final' \in [FileNums -> Contents \cup {Absent}],
         download' \in [FileNums -> Contents \cup {Absent}],
         digest' \in [FileNums -> (0 .. MaxVersion) \cup {Absent}],
         Writing(id) \/ UNCHANGED <<download, digest>>, DiskInv'
  PROVE  FileTypeOK' /\ FileInv'
<1>1. write_jobs' = [write_jobs EXCEPT ![id] = NoJob] /\ write_jobs'[id] = NoJob
  BY DEF RemoveWrite, FileTypeOK
<1>2. write_queue' \in Seq(Jobs) /\ ListedIn(write_queue', write_jobs')
  <2>1. /\ ListedIn(Without(write_queue, id), [write_jobs EXCEPT ![id] = NoJob])
        /\ Without(write_queue, id) \in Seq(Jobs)
        /\ ListedIn(write_queue, write_jobs) /\ write_queue \in Seq(Jobs)
    BY ListedFacts DEF FileInv, ListInv, FileTypeOK
  <2> QED
    BY <1>1, <2>1 DEF RemoveWrite
<1>3. /\ toWriter' = Tail(toWriter)
      /\ UNCHANGED <<source, read_jobs, queue, started, saved, transfer, breaks>>
  BY DEF TakenByWriter, readVars, boundVars
<1>4. JobInv(id)'
  <2>1. JobInv(id) /\ KindInv
    BY DEF FileInv
  <2> QED
    BY <2>1, <1>1, <1>3, WriterEnds
<1>5. misplaced' \subseteq FileNums /\ asking' \subseteq Jobs \X FileNums
  BY DEF FileTypeOK
<1> QED
  BY <1>1, <1>2, <1>4, <1>5, WriterStepMade

LEMMA OnDoneKeeps ==
  ASSUME FileTypeOK, FileInv, OnDone
  PROVE  FileTypeOK' /\ FileInv'
<1>0. toWriter # <<>> /\ Head(toWriter).type = "done" /\ TakenByWriter
  BY DEF OnDone, FromReader
<1>1. PICK id \in Jobs : id = Head(toWriter).id
  BY <1>0, WriterHead
<1> DEFINE w == write_jobs[id]
<1>2. /\ RemoveWrite(id) /\ IF w = NoJob THEN UNCHANGED diskVars ELSE ModifyTime(w)
      /\ UNCHANGED <<toReader, asking, excused, misplaced>> /\ transfer' = transfer
  BY <1>1 DEF OnDone, historyVars, TakenByWriter, boundVars
<1>3. excused' \in [Jobs -> SUBSET FileNums]
  BY <1>2 DEF FileTypeOK
<1>4. CASE w = NoJob
  <2>1. UNCHANGED <<final, download, digest>>
    BY <1>2, <1>4 DEF diskVars
  <2>2. DiskInv'
    BY <2>1, <1>2, DiskStays DEF FileInv
  <2>3. /\ final' \in [FileNums -> Contents \cup {Absent}]
        /\ download' \in [FileNums -> Contents \cup {Absent}]
        /\ digest' \in [FileNums -> (0 .. MaxVersion) \cup {Absent}]
    BY <2>1 DEF FileTypeOK
  <2> QED
    BY <2>1, <2>2, <2>3, <1>0, <1>1, <1>2, <1>3, WriterLeaves
<1>5. CASE w # NoJob
  <2>1. w \in WriteJobs(transfer)
    BY <1>5 DEF FileTypeOK
  <2>2. download' = DownloadNamed(w) /\ digest' = DigestNamed(w) /\ final' = FinalNamed(w)
    BY <1>2, <1>5 DEF ModifyTime
  <2>3. /\ final' \in [FileNums -> Contents \cup {Absent}]
        /\ download' \in [FileNums -> Contents \cup {Absent}]
        /\ digest' \in [FileNums -> (0 .. MaxVersion) \cup {Absent}]
        /\ \A f \in FileNums : FileGood(f, download'[f], digest'[f], f \in misplaced')
    BY <2>1, <2>2, <1>2, NamedFacts DEF FileInv
  <2>4. DiskInv'
    BY <2>3, <1>2, DiskMoves
  <2>5. Writing(id)
    <3>1. JobInv(id) /\ KindInv /\ 1 \in 1 .. Len(toWriter) /\ toWriter[1].id = id /\ toWriter[1].type # "cancel"
      BY <1>0, <1>1, WriterHead DEF FileInv
    <3>2. w # NoJob => ~w.is_last_job
      BY <3>1, NoTokens
    <3> QED
      BY <3>2, <1>5 DEF Writing
  <2> QED
    BY <2>3, <2>4, <2>5, <1>0, <1>1, <1>2, <1>3, WriterLeaves
<1> QED
  BY <1>4, <1>5

LEMMA OnErrorKeeps ==
  ASSUME FileTypeOK, FileInv, OnError
  PROVE  FileTypeOK' /\ FileInv'
<1>0. toWriter # <<>> /\ Head(toWriter).type = "error" /\ TakenByWriter
  BY DEF OnError, FromReader
<1>1. PICK id \in Jobs : id = Head(toWriter).id
  BY <1>0, WriterHead
<1>2. /\ RemoveWrite(id) /\ transfer' = transfer
      /\ write_jobs[id] = NoJob => UNCHANGED excused
      /\ write_jobs[id] # NoJob => Excuse(id, write_jobs[id].file_num)
      /\ UNCHANGED <<final, download, digest, toReader, asking, misplaced>>
  BY <1>1 DEF OnError, diskVars, TakenByWriter, boundVars
<1>3. excused' \in [Jobs -> SUBSET FileNums]
  BY <1>2, ExcuseTypes DEF FileTypeOK
<1>4. DiskInv'
  BY <1>2, DiskStays DEF FileInv
<1>5. /\ final' \in [FileNums -> Contents \cup {Absent}]
      /\ download' \in [FileNums -> Contents \cup {Absent}]
      /\ digest' \in [FileNums -> (0 .. MaxVersion) \cup {Absent}]
  BY <1>2 DEF FileTypeOK
<1> QED
  BY <1>0, <1>1, <1>2, <1>3, <1>4, <1>5, WriterLeaves

LEMMA OnCancelWriteKeeps ==
  ASSUME FileTypeOK, FileInv, OnCancelWrite
  PROVE  FileTypeOK' /\ FileInv'
<1>0. toWriter # <<>> /\ Head(toWriter).type = "cancel" /\ TakenByWriter
  BY DEF OnCancelWrite, FromReader
<1>1. PICK id \in Jobs : id = Head(toWriter).id
  BY <1>0, WriterHead
<1> DEFINE w == write_jobs[id]
<1>2. /\ RemoveWrite(id) /\ IF w = NoJob THEN UNCHANGED diskVars ELSE RemoveDownloadFile(w)
      /\ UNCHANGED <<toReader, asking, excused, misplaced>> /\ transfer' = transfer
  BY <1>1 DEF OnCancelWrite, historyVars, TakenByWriter, boundVars
<1>3. excused' \in [Jobs -> SUBSET FileNums]
  BY <1>2 DEF FileTypeOK
<1>4. CASE w = NoJob
  <2>1. UNCHANGED <<final, download, digest>>
    BY <1>2, <1>4 DEF diskVars
  <2>2. DiskInv'
    BY <2>1, <1>2, DiskStays DEF FileInv
  <2>3. /\ final' \in [FileNums -> Contents \cup {Absent}]
        /\ download' \in [FileNums -> Contents \cup {Absent}]
        /\ digest' \in [FileNums -> (0 .. MaxVersion) \cup {Absent}]
    BY <2>1 DEF FileTypeOK
  <2> QED
    BY <2>1, <2>2, <2>3, <1>0, <1>1, <1>2, <1>3, WriterLeaves
<1>5. CASE w # NoJob
  <2>1. w \in WriteJobs(transfer)
    BY <1>5 DEF FileTypeOK
  <2>2. /\ DownloadNamed(w) \in [FileNums -> Contents \cup {Absent}]
        /\ DigestNamed(w) \in [FileNums -> (0 .. MaxVersion) \cup {Absent}]
        /\ \A f \in FileNums : FileGood(f, DownloadNamed(w)[f], DigestNamed(w)[f], f \in misplaced)
        /\ Names(w) => DownloadNamed(w) = [download EXCEPT ![w.file_num] = Absent]
        /\ ~Names(w) => DownloadNamed(w) = download /\ DigestNamed(w) = digest
    BY <2>1, NamedFacts DEF FileInv
  <2>3. download' = DownloadNamed(w) /\ digest' = DigestNamed(w) /\ final' = final
    BY <1>2, <1>5, <2>2 DEF RemoveDownloadFile
  <2>4. /\ final' \in [FileNums -> Contents \cup {Absent}]
        /\ download' \in [FileNums -> Contents \cup {Absent}]
        /\ digest' \in [FileNums -> (0 .. MaxVersion) \cup {Absent}]
        /\ \A f \in FileNums : FileGood(f, download'[f], digest'[f], f \in misplaced')
    BY <2>2, <2>3, <1>2 DEF FileTypeOK
  <2>5. DiskInv'
    BY <2>4, <1>2, DiskMoves
  <2>6. Writing(id)
    <3>1. JobInv(id) /\ 1 \in 1 .. Len(toWriter) /\ toWriter[1].id = id
      BY <1>0, <1>1, WriterHead DEF FileInv
    <3>2. Mentions(toWriter, id)
      BY <3>1 DEF Mentions
    <3>3. ~w.is_last_job
      BY <3>1, <3>2, <1>5 DEF JobInv, Fresh, Untouched
    <3> QED
      BY <3>3, <1>5 DEF Writing
  <2> QED
    BY <2>4, <2>5, <2>6, <1>0, <1>1, <1>2, <1>3, WriterLeaves
<1> QED
  BY <1>4, <1>5

LEMMA OnReceiveKeeps ==
  ASSUME FileTypeOK, FileInv, OnReceive
  PROVE  FileTypeOK' /\ FileInv'
<1>0. toWriter # <<>> /\ Head(toWriter).type = "receive" /\ TakenByWriter
  BY DEF OnReceive, FromReader
<1>1. PICK id \in Jobs : id = Head(toWriter).id
  BY <1>0, WriterHead
<1>2. PICK f \in 0 .. N : f = Head(toWriter).file_num
  BY <1>0, WriterHead, MessageFacts
<1> DEFINE s == NewWrite(f, FALSE)
<1>3. /\ write_jobs' = [write_jobs EXCEPT ![id] = s] /\ write_queue' = Append(write_queue, id)
      /\ toWriter' = Tail(toWriter)
      /\ UNCHANGED <<final, download, digest, toReader, asking, excused, misplaced, source, read_jobs,
                     started, transfer>>
  BY <1>0, <1>1, <1>2 DEF OnReceive, PushWrite, diskVars, historyVars, TakenByWriter, readVars, boundVars
<1>4. s \in WriteJobs(transfer) /\ s # NoJob /\ ~s.is_last_job /\ s.stream = None
  BY NewFacts
<1> HIDE DEF s
<1>5. JobInv(id) /\ KindInv /\ Upload /\ write_jobs[id] = NoJob
  <2>1. JobInv(id) /\ KindInv /\ 1 \in 1 .. Len(toWriter) /\ toWriter[1].id = id /\ toWriter[1].type = "receive"
        /\ Upload
    BY <1>0, <1>1, WriterHead DEF FileInv, WriterKinds
  <2> QED
    BY <2>1 DEF JobInv, Receives
<1>6. write_queue' \in Seq(Jobs) /\ ListedIn(write_queue', write_jobs')
  BY <1>3, <1>4, <1>5, ListedFacts DEF FileInv, ListInv, FileTypeOK
<1>7. JobInv(id)'
  <2>1. write_jobs'[id] = s
    BY <1>3 DEF FileTypeOK
  <2> QED
    BY <2>1, <1>0, <1>1, <1>3, <1>4, <1>5, WriterReceives
<1>8. /\ final' \in [FileNums -> Contents \cup {Absent}]
      /\ download' \in [FileNums -> Contents \cup {Absent}]
      /\ digest' \in [FileNums -> (0 .. MaxVersion) \cup {Absent}]
      /\ misplaced' \subseteq FileNums /\ asking' \subseteq Jobs \X FileNums
      /\ excused' \in [Jobs -> SUBSET FileNums]
  BY <1>3 DEF FileTypeOK
<1>9. DiskInv'
  BY <1>3, DiskStays DEF FileInv
<1>10. ~(Head(toWriter).type \in ClosingTypes)
  BY <1>0 DEF ClosingTypes
<1> QED
  BY <1>0, <1>1, <1>3, <1>4, <1>5, <1>6, <1>7, <1>8, <1>9, <1>10, WriterStepMade

LEMMA OnDirKeeps ==
  ASSUME FileTypeOK, FileInv, OnDir
  PROVE  FileTypeOK' /\ FileInv'
<1>0. toWriter # <<>> /\ Head(toWriter).type = "dir" /\ TakenByWriter
  BY DEF OnDir, FromReader
<1>1. PICK id \in Jobs : id = Head(toWriter).id
  BY <1>0, WriterHead
<1> DEFINE w == write_jobs[id]
           s == [w EXCEPT !.listed = TRUE]
<1>3. /\ IF w = NoJob THEN UNCHANGED writeVars ELSE SetWrite(id, s)
      /\ toWriter' = Tail(toWriter)
      /\ UNCHANGED <<final, download, digest, toReader, asking, excused, misplaced, source, read_jobs,
                     started, transfer>>
  BY <1>0, <1>1 DEF OnDir, diskVars, historyVars, TakenByWriter, readVars, boundVars
<1>5. JobInv(id) /\ KindInv
  BY DEF FileInv
<1>8. /\ final' \in [FileNums -> Contents \cup {Absent}]
      /\ download' \in [FileNums -> Contents \cup {Absent}]
      /\ digest' \in [FileNums -> (0 .. MaxVersion) \cup {Absent}]
      /\ misplaced' \subseteq FileNums /\ asking' \subseteq Jobs \X FileNums
      /\ excused' \in [Jobs -> SUBSET FileNums]
  BY <1>3 DEF FileTypeOK
<1>9. DiskInv'
  BY <1>3, DiskStays DEF FileInv
<1>10. CASE w = NoJob
  BY <1>0, <1>1, <1>3, <1>8, <1>9, <1>10, WriterLeaves DEF writeVars
<1>11. CASE w # NoJob
  <2>1. w \in WriteJobs(transfer)
    BY <1>11 DEF FileTypeOK
  <2>2. /\ s \in WriteJobs(transfer) /\ s.is_last_job = w.is_last_job /\ s.stream = w.stream
        /\ s.file_num = w.file_num /\ s.digest = w.digest
    BY <2>1 DEF WriteJobs
  <2>3. SetWrite(id, s)
    BY <1>3, <1>11
  <2> HIDE DEF s
  <2>4. /\ write_jobs' = [write_jobs EXCEPT ![id] = s] /\ write_jobs'[id] = s /\ s # NoJob
        /\ write_queue' \in Seq(Jobs) /\ ListedIn(write_queue', write_jobs')
    BY <2>2, <2>3, <1>11, WriterSet
  <2>5. JobInv(id)'
    BY <2>2, <2>4, <1>0, <1>1, <1>3, <1>5, <1>11, WriterLists
  <2>6. ~(Head(toWriter).type \in ClosingTypes)
    BY <1>0 DEF ClosingTypes
  <2> QED
    BY <2>2, <2>4, <2>5, <2>6, <1>0, <1>1, <1>3, <1>8, <1>9, <1>11, WriterStepMade
<1> QED
  BY <1>10, <1>11

-----------------------------------------------------------------------------

LEMMA TransferredFacts ==
  ASSUME FileTypeOK, NEW f \in FileNums, NEW resume, NEW version
  PROVE  /\ Transferred(resume, f, version) \in Nat
         /\ Transferred(resume, f, version) > 0 =>
               /\ digest[f] = version /\ download[f] # Absent
               /\ Transferred(resume, f, version) = Len(download[f])
<1>1. download[f] \in Contents \cup {Absent}
  BY DEF FileTypeOK
<1>2. download[f] # Absent => Len(download[f]) \in Nat
  BY <1>1, ContentFacts
<1> QED
  BY <1>2 DEF Transferred

LEMMA OnDigestKeeps ==
  ASSUME FileTypeOK, FileInv, OnDigest
  PROVE  FileTypeOK' /\ FileInv'
<1> DEFINE m == Head(toWriter)
<1>0. toWriter # <<>> /\ m.type = "digest" /\ TakenByWriter
  BY DEF OnDigest, FromReader
<1>1. PICK id \in Jobs : id = m.id
  BY <1>0, WriterHead
<1>2. PICK f \in FileNums : f = m.file_num
  BY <1>0, WriterHead, MessageFacts
<1>3. PICK v \in 1 .. MaxVersion : v = m.version
  BY <1>0, WriterHead, MessageFacts
<1>4. PICK resumes \in BOOLEAN : resumes = m.is_resume
  BY <1>0, WriterHead, MessageFacts
<1> DEFINE w == write_jobs[id]
           known == [w EXCEPT !.digest = v]
<1>5. /\ toWriter' = Tail(toWriter)
      /\ UNCHANGED <<final, download, digest, misplaced, source, read_jobs, started, transfer>>
      /\ IF w = NoJob THEN UNCHANGED <<writeVars, toReader, asking, excused>>
         ELSE IF Upload THEN OnDigestUpload(m, w) ELSE OnDigestDownload(m, w)
  BY <1>0, <1>1 DEF OnDigest, diskVars, TakenByWriter, readVars, boundVars
<1>6. JobInv(id) /\ KindInv
  BY DEF FileInv
<1>7. /\ final' \in [FileNums -> Contents \cup {Absent}]
      /\ download' \in [FileNums -> Contents \cup {Absent}]
      /\ digest' \in [FileNums -> (0 .. MaxVersion) \cup {Absent}]
      /\ misplaced' \subseteq FileNums
  BY <1>5 DEF FileTypeOK
<1>8. DiskInv'
  BY <1>5, DiskStays DEF FileInv
<1>9. v \in 0 .. MaxVersion
  BY TransferFacts DEF FileTypeOK
<1>10. ~(m.type \in ClosingTypes)
  BY <1>0 DEF ClosingTypes
<1>11. CASE w = NoJob
  <2>1. UNCHANGED <<write_jobs, write_queue, toReader, asking, excused>>
    BY <1>5, <1>11 DEF writeVars
  <2>2. excused' \in [Jobs -> SUBSET FileNums]
    BY <2>1 DEF FileTypeOK
  <2> QED
    BY <2>1, <2>2, <1>0, <1>1, <1>5, <1>7, <1>8, <1>11, WriterLeaves
<1>12. CASE w # NoJob
  <2>1. w \in WriteJobs(transfer)
    BY <1>12 DEF FileTypeOK
  <2>2. /\ known \in WriteJobs(transfer) /\ known.digest = v /\ known.file_num = w.file_num
        /\ known.stream = w.stream /\ known.is_last_job = w.is_last_job
    BY <2>1, <1>9, WriteFacts
  <2> HIDE DEF m, known
  \* It is enough to say what becomes of the job, of the dialogs and of the answer.
  <2>3. ASSUME NEW s \in WriteJobs(transfer), SetWrite(id, s),
               s.is_last_job = w.is_last_job, s.digest = v,
               \/ s.file_num = w.file_num /\ s.stream = w.stream
               \/ s.stream = None
               \/ /\ s.file_num = f /\ download[f] # Absent /\ s.stream <= Len(download[f]) /\ digest[f] = v,
               \/ toReader' = toReader /\ asking' = asking \cup {<<id, f>>}
               \/ /\ asking' = asking
                  /\ \E a \in Messages :
                        /\ toReader' = Append(toReader, a) /\ a.id = id /\ a.type \in {"ask", "confirm"}
                        /\ a.type \in ReaderKinds /\ a.file_num = f
                        /\ a.type = "ask" => Ready(s, download[f], digest[f], a.transferred),
               excused' \in [Jobs -> SUBSET FileNums]
        PROVE  FileTypeOK' /\ FileInv'
    <3>1. /\ write_jobs' = [write_jobs EXCEPT ![id] = s] /\ write_jobs'[id] = s /\ s # NoJob
          /\ write_queue' \in Seq(Jobs) /\ ListedIn(write_queue', write_jobs')
      BY <2>3, <1>12, WriterSet
    <3>2. JobInv(id)'
      <4>1. /\ write_jobs[id] # NoJob /\ write_jobs'[id] # NoJob /\ write_jobs'[id] \in WriteJobs(transfer)
            /\ write_jobs'[id].is_last_job = write_jobs[id].is_last_job
            /\ write_jobs'[id].digest = Head(toWriter).version
            /\ \/ /\ write_jobs'[id].file_num = write_jobs[id].file_num
                  /\ write_jobs'[id].stream = write_jobs[id].stream
               \/ write_jobs'[id].stream = None
               \/ /\ write_jobs'[id].file_num = f /\ download[f] # Absent
                  /\ write_jobs'[id].stream <= Len(download[f]) /\ digest[f] = Head(toWriter).version
        BY <3>1, <2>3, <1>3, <1>12 DEF m
      <4>2. \/ toReader' = toReader /\ asking' = asking \cup {<<id, f>>}
            \/ /\ asking' = asking
               /\ \E a \in Messages :
                  /\ toReader' = Append(toReader, a) /\ a.id = id /\ a.type \in {"ask", "confirm"}
                  /\ a.file_num = f
                  /\ a.type = "ask" =>
                        Ready(write_jobs'[id], download[f], digest[f], a.transferred)
        BY <3>1, <2>3
      <4>3. /\ toWriter # <<>> /\ Head(toWriter).id = id /\ Head(toWriter).type = "digest"
            /\ Head(toWriter).file_num = f
        BY <1>0, <1>1, <1>2 DEF m
      <4> QED
        BY <4>1, <4>2, <4>3, <1>5, <1>6, WriterTold
    <3>3. /\ asking' \subseteq Jobs \X FileNums
          /\ \A j \in Jobs : \A g \in FileNums : j # id => (<<j, g>> \in asking' <=> <<j, g>> \in asking)
      BY <2>3 DEF FileTypeOK
    <3>4. \/ toReader' = toReader
          \/ \E a \in Messages : toReader' = Append(toReader, a) /\ a.id = id /\ a.type \in ReaderKinds
      BY <2>3
    <3>5. Head(toWriter).id = id /\ ~(Head(toWriter).type \in ClosingTypes)
      BY <1>1, <1>10 DEF m
    <3> QED
      BY <3>1, <3>2, <3>3, <3>4, <3>5, <2>3, <1>0, <1>5, <1>7, <1>8, <1>12, WriterStepMade
  <2>4. CASE Upload
    <3> DEFINE t == Transferred(resumes, f, v)
               a == IF NeedConfirm(t, f)
                    THEN [type |-> "ask", id |-> id, file_num |-> f, transferred |-> t]
                    ELSE ConfirmMessage(id, f, 0)
    <3>1. /\ SetWrite(id, known) /\ toReader' = Append(toReader, a) /\ UNCHANGED <<asking, excused>>
      BY <2>4, <1>1, <1>2, <1>3, <1>4, <1>5, <1>12 DEF OnDigestUpload, SendReader, known
    <3>2. t \in Nat /\ (t > 0 => digest[f] = v /\ download[f] # Absent /\ t = Len(download[f]))
      BY TransferredFacts
    <3> HIDE DEF t
    <3>3. /\ a \in Messages /\ a.id = id /\ a.type \in {"ask", "confirm"} /\ a.file_num = f
          /\ a.type = "ask" => a.transferred = t
      <4>1. /\ [type |-> "ask", id |-> id, file_num |-> f, transferred |-> t] \in Messages
            /\ ConfirmMessage(id, f, 0) \in Messages
        BY <3>2, MessageMade
      <4> QED
        BY <4>1 DEF ConfirmMessage
    <3> HIDE DEF a
    <3>4. a.type \in ReaderKinds
      BY <3>3, <2>4 DEF ReaderKinds
    <3>5. a.type = "ask" => Ready(known, download[f], digest[f], a.transferred)
      <4>1. digest[f] # Absent \/ ~(t > 0)
        BY <3>2, <1>9, ContentFacts
      <4> QED
        BY <4>1, <3>2, <3>3, <2>2 DEF Ready
    <3>6. excused' \in [Jobs -> SUBSET FileNums]
      BY <3>1 DEF FileTypeOK
    <3> QED
      BY <3>1, <3>3, <3>4, <3>5, <3>6, <2>2, <2>3
  <2>5. CASE ~Upload
    <3> DEFINE t == Transferred(w.is_resume, f, v)
               offset == IF t > 0 THEN OffsetOf(t) ELSE IF final[f] = Absent THEN 0 ELSE Answer(w.strategy)
    <3>1. IF t = 0 /\ final[f] # Absent /\ w.strategy = "ask"
          THEN /\ SetWrite(id, known) /\ asking' = asking \cup {<<id, f>>}
               /\ UNCHANGED <<toReader, excused>>
          ELSE /\ SetWrite(id, ConfirmWrite(known, f, offset))
               /\ toReader' = Append(toReader, ConfirmMessage(id, f, offset))
               /\ IF offset = Skip THEN Excuse(id, f) ELSE UNCHANGED excused
               /\ UNCHANGED asking
      <4>1. OnDigestDownload(m, w)
        BY <2>5, <1>5, <1>12
      <4> QED
        BY <4>1, <1>1, <1>2, <1>3 DEF OnDigestDownload, SendReader, known
    <3>2. t \in Nat /\ (t > 0 => digest[f] = v /\ download[f] # Absent /\ t = Len(download[f]))
      BY TransferredFacts
    <3> HIDE DEF t
    <3>3. offset \in Nat \cup {Skip} /\ (offset \in Nat /\ offset > 0 => t > 0 /\ offset <= t)
      <4>1. OffsetOf(t) \in Nat /\ OffsetOf(t) <= t
        BY <3>2, OffsetFacts
      <4>2. Answer(w.strategy) = 0 \/ Answer(w.strategy) = Skip
        BY DEF Answer
      <4>3. CASE t > 0
        BY <4>1, <4>3
      <4>4. CASE ~(t > 0)
        BY <4>2, <4>4 DEF Skip
      <4> QED
        BY <4>3, <4>4
    <3> HIDE DEF offset
    <3>4. CASE t = 0 /\ final[f] # Absent /\ w.strategy = "ask"
      <4>1. SetWrite(id, known) /\ asking' = asking \cup {<<id, f>>} /\ UNCHANGED <<toReader, excused>>
        BY <3>1, <3>4
      <4>2. excused' \in [Jobs -> SUBSET FileNums]
        BY <4>1 DEF FileTypeOK
      <4> QED
        BY <4>1, <4>2, <2>2, <2>3
    <3>5. CASE ~(t = 0 /\ final[f] # Absent /\ w.strategy = "ask")
      <4> DEFINE s == ConfirmWrite(known, f, offset)
                 c == ConfirmMessage(id, f, offset)
      <4>1. /\ SetWrite(id, s) /\ toReader' = Append(toReader, c)
            /\ IF offset = Skip THEN Excuse(id, f) ELSE UNCHANGED excused
            /\ asking' = asking
        BY <3>1, <3>5
      <4>2. /\ s \in WriteJobs(transfer) /\ s.is_last_job = known.is_last_job /\ s.digest = known.digest
            /\ \/ s.file_num = known.file_num /\ s.stream = known.stream
               \/ s.stream = None
               \/ /\ s.file_num = f /\ s.stream = offset /\ offset \in Nat /\ offset > 0
        BY <2>2, <3>3, ConfirmWriteFacts
      <4>3. c \in Messages /\ c.id = id /\ c.type = "confirm" /\ c.file_num = f
        <5>1. c \in Messages
          BY <3>3, MessageMade
        <5> QED
          BY <5>1 DEF ConfirmMessage
      <4> HIDE DEF s, c
      <4>4. \/ s.file_num = w.file_num /\ s.stream = w.stream
            \/ s.stream = None
            \/ /\ s.file_num = f /\ download[f] # Absent /\ s.stream <= Len(download[f]) /\ digest[f] = v
        BY <4>2, <3>2, <3>3, <2>2
      <4>5. c.type \in ReaderKinds
        BY <4>3, <2>5 DEF ReaderKinds
      <4>6. excused' \in [Jobs -> SUBSET FileNums]
        BY <4>1, ExcuseTypes DEF FileTypeOK
      <4>7. \E a \in Messages :
                        /\ toReader' = Append(toReader, a) /\ a.id = id /\ a.type \in {"ask", "confirm"}
                        /\ a.type \in ReaderKinds /\ a.file_num = f
                        /\ a.type = "ask" => Ready(s, download[f], digest[f], a.transferred)
        BY <4>1, <4>3, <4>5
      <4> QED
        BY <4>1, <4>2, <4>4, <4>6, <4>7, <2>2, <2>3
    <3> QED
      BY <3>4, <3>5
  <2> QED
    BY <2>4, <2>5
<1> QED
  BY <1>11, <1>12

LEMMA OnConfirmWriteKeeps ==
  ASSUME FileTypeOK, FileInv, OnConfirmWrite
  PROVE  FileTypeOK' /\ FileInv'
<1> DEFINE m == Head(toWriter)
<1>0. toWriter # <<>> /\ m.type = "confirm" /\ TakenByWriter
  BY DEF OnConfirmWrite, FromReader
<1>1. PICK id \in Jobs : id = m.id
  BY <1>0, WriterHead
<1>2. PICK f \in FileNums : f = m.file_num
  BY <1>0, WriterHead, MessageFacts
<1>3. PICK offset \in Nat \cup {Skip} : offset = m.offset
  BY <1>0, WriterHead, MessageFacts
<1> DEFINE w == write_jobs[id]
           s == ConfirmWrite(w, f, offset)
<1>4. /\ toWriter' = Tail(toWriter)
      /\ UNCHANGED <<final, download, digest, toReader, asking, excused, misplaced, source, read_jobs,
                     started, transfer>>
      /\ IF w = NoJob THEN UNCHANGED writeVars ELSE SetWrite(id, s)
  BY <1>0, <1>1, <1>2, <1>3 DEF OnConfirmWrite, diskVars, historyVars, TakenByWriter, readVars, boundVars
<1>5. JobInv(id) /\ KindInv
  BY DEF FileInv
<1>6. /\ final' \in [FileNums -> Contents \cup {Absent}]
      /\ download' \in [FileNums -> Contents \cup {Absent}]
      /\ digest' \in [FileNums -> (0 .. MaxVersion) \cup {Absent}]
      /\ misplaced' \subseteq FileNums /\ asking' \subseteq Jobs \X FileNums
      /\ excused' \in [Jobs -> SUBSET FileNums]
  BY <1>4 DEF FileTypeOK
<1>7. DiskInv'
  BY <1>4, DiskStays DEF FileInv
<1>8. CASE w = NoJob
  BY <1>0, <1>1, <1>4, <1>6, <1>7, <1>8, WriterLeaves DEF writeVars
<1>9. CASE w # NoJob
  <2>1. w \in WriteJobs(transfer)
    BY <1>9 DEF FileTypeOK
  <2>2. Ready(w, download[f], digest[f], offset)
    <3>1. 1 \in 1 .. Len(toWriter) /\ toWriter[1] = m
      BY <1>0, WriterHead
    <3> QED
      BY <3>1, <1>0, <1>1, <1>2, <1>3, <1>5 DEF JobInv, Confirms
  <2>3. /\ s \in WriteJobs(transfer) /\ s.is_last_job = w.is_last_job /\ s.digest = w.digest
        /\ \/ s.file_num = w.file_num /\ s.stream = w.stream
           \/ s.stream = None
           \/ s.file_num = f /\ s.stream = offset /\ offset > 0
    BY <2>1, ConfirmWriteFacts
  <2>4. SetWrite(id, s)
    BY <1>4, <1>9
  <2> HIDE DEF s, m
  <2>5. /\ write_jobs' = [write_jobs EXCEPT ![id] = s] /\ write_jobs'[id] = s /\ s # NoJob
        /\ write_queue' \in Seq(Jobs) /\ ListedIn(write_queue', write_jobs')
    BY <2>3, <2>4, <1>9, WriterSet
  <2>6. \/ s.file_num = w.file_num /\ s.stream = w.stream
        \/ s.stream = None
        \/ /\ s.file_num = f /\ download'[f] # Absent /\ s.stream <= Len(download'[f])
           /\ digest'[f] = w.digest
    BY <2>2, <2>3, <1>4, <1>9 DEF Ready
  <2>7. JobInv(id)'
    <3>1. /\ toWriter # <<>> /\ Head(toWriter).id = id /\ Head(toWriter).type = "confirm"
          /\ Head(toWriter).file_num = f
      BY <1>0, <1>1, <1>2 DEF m
    <3>2. \/ /\ Head(toWriter).type = "confirm"
             /\ write_jobs'[id].file_num = write_jobs[id].file_num
             /\ write_jobs'[id].stream = write_jobs[id].stream
             /\ UNCHANGED <<download, digest>>
          \/ write_jobs'[id].stream = None
          \/ write_jobs'[id].file_num = f /\ f \in Markers
          \/ /\ write_jobs'[id].file_num = f /\ download'[f] # Absent
             /\ write_jobs'[id].stream <= Len(download'[f])
             /\ digest'[f] = write_jobs[id].digest
      BY <2>5, <2>6, <3>1, <1>4
    <3> QED
      BY <3>1, <3>2, <2>3, <2>5, <1>4, <1>5, <1>9, WriterGoesOn
  <2>8. Head(toWriter).id = id /\ ~(Head(toWriter).type \in ClosingTypes)
    BY <1>0, <1>1 DEF m, ClosingTypes
  <2> QED
    BY <2>3, <2>5, <2>7, <2>8, <1>0, <1>4, <1>6, <1>7, <1>9, WriterStepMade
<1> QED
  BY <1>8, <1>9

LEMMA OnBlockKeeps ==
  ASSUME FileTypeOK, FileInv, OnBlock
  PROVE  FileTypeOK' /\ FileInv'
<1> DEFINE m == Head(toWriter)
<1>0. toWriter # <<>> /\ m.type = "block" /\ TakenByWriter
  BY DEF OnBlock, FromReader
<1>1. PICK id \in Jobs : id = m.id
  BY <1>0, WriterHead
<1>2. PICK f \in FileNums : f = m.file_num
  BY <1>0, WriterHead, MessageFacts
<1>3. PICK data \in Contents : data = m.data
  BY <1>0, WriterHead, MessageFacts
<1>4. PICK at \in Nat : at = m.at
  BY <1>0, WriterHead, MessageFacts
<1> DEFINE w == write_jobs[id]
<1>5. /\ toWriter' = Tail(toWriter)
      /\ UNCHANGED <<toReader, asking, excused, source, read_jobs, started, transfer>>
      /\ IF w = NoJob THEN UNCHANGED <<writeVars, diskVars, misplaced>>
         ELSE IF f \in Markers
         THEN /\ SetWrite(id, [w EXCEPT !.file_num = f])
              /\ UNCHANGED <<diskVars, misplaced>>
         ELSE IF StartsFile(w, m) THEN WriteFirst(m, w) ELSE WriteNext(m, w)
  BY <1>0, <1>1, <1>2 DEF OnBlock, TakenByWriter, readVars, boundVars
<1>6. JobInv(id) /\ KindInv /\ 1 \in 1 .. Len(toWriter) /\ toWriter[1] = m
  BY <1>0, WriterHead DEF FileInv
<1>7. asking' \subseteq Jobs \X FileNums /\ excused' \in [Jobs -> SUBSET FileNums]
  BY <1>5 DEF FileTypeOK
<1>8. Head(toWriter).id = id /\ ~(Head(toWriter).type \in ClosingTypes)
  BY <1>0, <1>1 DEF ClosingTypes
<1>9. CASE w = NoJob
  <2>1. UNCHANGED <<write_jobs, write_queue, final, download, digest, misplaced>>
    BY <1>5, <1>9 DEF writeVars, diskVars
  <2>2. DiskInv'
    BY <2>1, <1>5, DiskStays DEF FileInv
  <2>3. /\ final' \in [FileNums -> Contents \cup {Absent}]
        /\ download' \in [FileNums -> Contents \cup {Absent}]
        /\ digest' \in [FileNums -> (0 .. MaxVersion) \cup {Absent}]
    BY <2>1 DEF FileTypeOK
  <2> QED
    BY <2>1, <2>2, <2>3, <1>0, <1>1, <1>5, <1>7, <1>9, WriterLeaves
<1>10. CASE w # NoJob
  <2>1. w \in WriteJobs(transfer)
    BY <1>10 DEF FileTypeOK
  <2>2. Writing(id)
    <3>1. ~w.is_last_job
      BY <1>0, <1>1, <1>6, <1>10, NoTokens
    <3> QED
      BY <3>1, <1>10 DEF Writing
  \* It is enough to say what becomes of the job and of the disk.
  <2>3. ASSUME NEW s \in WriteJobs(transfer), SetWrite(id, s), s.is_last_job = w.is_last_job,
               s.digest = w.digest, s.file_num = f,
               \/ f \in Markers
               \/ /\ download'[f] # Absent /\ s.stream <= Len(download'[f])
                  /\ digest'[f] = w.digest,
               final' \in [FileNums -> Contents \cup {Absent}],
               download' \in [FileNums -> Contents \cup {Absent}],
               digest' \in [FileNums -> (0 .. MaxVersion) \cup {Absent}],
               misplaced' \subseteq FileNums,
               \A g \in FileNums : FileGood(g, download'[g], digest'[g], g \in misplaced')
        PROVE  FileTypeOK' /\ FileInv'
    <3>1. /\ write_jobs' = [write_jobs EXCEPT ![id] = s] /\ write_jobs'[id] = s /\ s # NoJob
          /\ write_queue' \in Seq(Jobs) /\ ListedIn(write_queue', write_jobs')
      BY <2>3, <1>10, WriterSet
    <3>2. DiskInv'
      BY <2>3, <1>5, DiskMoves
    <3>3. JobInv(id)'
      <4>1. \/ write_jobs'[id].file_num = f /\ f \in Markers
            \/ /\ write_jobs'[id].file_num = f /\ download'[f] # Absent
               /\ write_jobs'[id].stream <= Len(download'[f])
               /\ digest'[f] = write_jobs[id].digest
        BY <3>1, <2>3
      <4>2. /\ Head(toWriter).id = id /\ Head(toWriter).type = "block" /\ Head(toWriter).file_num = f
        BY <1>0, <1>1, <1>2
      <4> QED
        BY <4>1, <4>2, <3>1, <2>3, <1>0, <1>5, <1>6, <1>10, WriterGoesOn
    <3> QED
      BY <3>1, <3>2, <3>3, <2>2, <2>3, <1>0, <1>5, <1>7, <1>8, <1>10, WriterStepMade
  <2>4. CASE f \in Markers
    <3> DEFINE s == [w EXCEPT !.file_num = f]
    <3>1. SetWrite(id, s) /\ UNCHANGED <<final, download, digest, misplaced>>
      BY <1>5, <1>10, <2>4 DEF diskVars
    <3>2. s \in WriteJobs(transfer) /\ s.is_last_job = w.is_last_job /\ s.digest = w.digest /\ s.file_num = f
      <4>1. f \in 0 .. N
        BY TransferFacts DEF FileTypeOK
      <4> QED
        BY <4>1, <2>1 DEF WriteJobs, N
    <3> HIDE DEF s
    <3>3. \A g \in FileNums : FileGood(g, download'[g], digest'[g], g \in misplaced')
      BY <3>1, DiskFacts DEF FileInv
    <3>4. /\ final' \in [FileNums -> Contents \cup {Absent}]
          /\ download' \in [FileNums -> Contents \cup {Absent}]
          /\ digest' \in [FileNums -> (0 .. MaxVersion) \cup {Absent}]
          /\ misplaced' \subseteq FileNums
      BY <3>1 DEF FileTypeOK
    <3> QED
      BY <3>1, <3>2, <3>3, <3>4, <2>3, <2>4
  <2>5. CASE f \notin Markers
    <3>1. BlockGood(f, data, at, w.digest) /\ w.digest \in 0 .. MaxVersion
      <4>1. w.digest \in 0 .. MaxVersion
        BY <2>1, WriteFacts
      <4> QED
        BY <4>1, <2>5, <1>0, <1>1, <1>2, <1>3, <1>4, <1>6, <1>10 DEF JobInv, Blocks, BlockGood
    <3>2. Len(data) \in Nat /\ f \in 0 .. N
      BY ContentFacts, TransferFacts DEF FileTypeOK
    <3>3. CASE StartsFile(w, m)
      <4> DEFINE s == [w EXCEPT !.file_num = f, !.stream = Len(data)]
      <4>1. /\ SetWrite(id, s) /\ final' = FinalNamed(w)
            /\ download' = [DownloadNamed(w) EXCEPT ![f] = data]
            /\ digest' = [DigestNamed(w) EXCEPT ![f] = w.digest]
            /\ misplaced' = IF at = 0 THEN misplaced \ {f} ELSE misplaced \cup {f}
        BY <3>3, <2>5, <1>1, <1>2, <1>3, <1>4, <1>5, <1>10 DEF WriteFirst
      <4>2. /\ s \in WriteJobs(transfer) /\ s.is_last_job = w.is_last_job /\ s.digest = w.digest
            /\ s.file_num = f /\ s.stream = Len(data)
        BY <3>2, <2>1 DEF WriteJobs, N
      <4> HIDE DEF s
      <4>3. /\ DownloadNamed(w) \in [FileNums -> Contents \cup {Absent}]
            /\ DigestNamed(w) \in [FileNums -> (0 .. MaxVersion) \cup {Absent}]
            /\ FinalNamed(w) \in [FileNums -> Contents \cup {Absent}]
            /\ \A g \in FileNums : FileGood(g, DownloadNamed(w)[g], DigestNamed(w)[g], g \in misplaced)
        BY <2>1, NamedFacts DEF FileInv
      <4>4. FileGood(f, data, w.digest, at # 0) /\ data # Absent
        BY <3>1, FirstFacts
      <4>5. /\ final' \in [FileNums -> Contents \cup {Absent}]
            /\ download' \in [FileNums -> Contents \cup {Absent}]
            /\ digest' \in [FileNums -> (0 .. MaxVersion) \cup {Absent}]
            /\ misplaced' \subseteq FileNums
        BY <4>1, <4>3, <3>1 DEF FileTypeOK
      <4>6. download'[f] = data /\ digest'[f] = w.digest /\ (f \in misplaced' <=> at # 0)
        BY <4>1, <4>3
      <4>7. ASSUME NEW g \in FileNums PROVE FileGood(g, download'[g], digest'[g], g \in misplaced')
        <5>1. CASE g = f
          BY <5>1, <4>4, <4>6 DEF FileGood
        <5>2. CASE g # f
          <6>1. /\ download'[g] = DownloadNamed(w)[g] /\ digest'[g] = DigestNamed(w)[g]
                /\ g \in misplaced' <=> g \in misplaced
            BY <5>2, <4>1, <4>3
          <6> QED
            BY <6>1, <4>3 DEF FileGood
        <5> QED
          BY <5>1, <5>2
      <4>8. download'[f] # Absent /\ s.stream <= Len(download'[f])
        BY <4>2, <4>4, <4>6, <3>2
      <4> QED
        BY <4>1, <4>2, <4>5, <4>6, <4>7, <4>8, <2>3
    <3>4. CASE ~StartsFile(w, m)
      <4> DEFINE s == [w EXCEPT !.stream = @ + Len(data)]
                 content == download[f]
                 out == f \in misplaced
      <4>1. w.file_num = f /\ w.stream # None /\ w.stream \in Nat
        BY <3>4, <2>1, <1>2, WriteFacts DEF StartsFile
      <4>2. /\ SetWrite(id, s)
            /\ download' = [download EXCEPT ![f] = Put(content, w.stream, data)]
            /\ misplaced' = IF at = w.stream THEN misplaced ELSE misplaced \cup {f}
            /\ UNCHANGED <<final, digest>>
        BY <3>4, <2>5, <1>1, <1>2, <1>3, <1>4, <1>5, <1>10 DEF WriteNext
      <4>3. /\ s \in WriteJobs(transfer) /\ s.is_last_job = w.is_last_job /\ s.digest = w.digest
            /\ s.file_num = f /\ s.stream = w.stream + Len(data)
        BY <4>1, <3>2, <2>1 DEF WriteJobs
      <4> HIDE DEF s
      <4>4. content # Absent /\ w.stream <= Len(content) /\ digest[f] = w.digest
        <5>1. Open(id)
          BY <4>1, <2>5, <1>10 DEF Open
        <5>2. ~Passed(toWriter, read_jobs[id], id, f)
          BY <1>0, <1>1, <1>2, <1>6 DEF Passed
        <5> QED
          BY <5>1, <5>2, <4>1, <1>6 DEF JobInv, Opens
      <4>5. content \in Contents
        BY <4>4 DEF FileTypeOK
      <4>6. FileGood(f, content, w.digest, out)
        BY <4>4, DiskFacts DEF FileInv
      <4> HIDE DEF content, out
      <4>7. /\ FileGood(f, Put(content, w.stream, data), w.digest, out \/ at # w.stream)
            /\ Put(content, w.stream, data) \in Contents
            /\ w.stream + Len(data) <= Len(Put(content, w.stream, data))
        <5>1. out \in BOOLEAN
          BY DEF out
        <5> QED
          BY <5>1, <4>1, <4>4, <4>5, <4>6, <3>1, NextFacts
      <4>8. /\ download'[f] = Put(content, w.stream, data) /\ digest'[f] = w.digest
            /\ f \in misplaced' <=> out \/ at # w.stream
        BY <4>2, <4>4 DEF FileTypeOK, out
      <4>9. /\ final' \in [FileNums -> Contents \cup {Absent}]
            /\ download' \in [FileNums -> Contents \cup {Absent}]
            /\ digest' \in [FileNums -> (0 .. MaxVersion) \cup {Absent}]
            /\ misplaced' \subseteq FileNums
        BY <4>2, <4>7 DEF FileTypeOK
      <4>10. ASSUME NEW g \in FileNums PROVE FileGood(g, download'[g], digest'[g], g \in misplaced')
        <5>1. CASE g = f
          BY <5>1, <4>7, <4>8 DEF FileGood
        <5>2. CASE g # f
          <6>1. /\ download'[g] = download[g] /\ digest'[g] = digest[g]
                /\ g \in misplaced' <=> g \in misplaced
            BY <5>2, <4>2 DEF FileTypeOK
          <6> QED
            BY <6>1, DiskFacts DEF FileGood, FileInv
        <5> QED
          BY <5>1, <5>2
      <4>11. download'[f] # Absent /\ s.stream <= Len(download'[f])
        BY <4>3, <4>7, <4>8, ContentFacts
      <4> QED
        BY <4>2, <4>3, <4>8, <4>9, <4>10, <4>11, <2>3
    <3> QED
      BY <3>3, <3>4
  <2> QED
    BY <2>4, <2>5
<1> QED
  BY <1>9, <1>10

LEMMA FileStutters ==
  ASSUME FileTypeOK, FileInv, UNCHANGED fileVars
  PROVE  FileTypeOK' /\ FileInv'
<1>1. UNCHANGED <<source, final, download, digest, read_jobs, queue, write_jobs, write_queue, toReader,
                  toWriter, asking, started, saved, transfer, breaks, excused, misplaced>>
  BY DEF fileVars, diskVars, jobVars, readVars, writeVars, netVars, uiVars, boundVars, historyVars
<1>2. /\ Jobs' = Jobs
      /\ UNCHANGED <<N, FileNums, Size, Markers, MaxVersion, MaxBreaks, Upload, Contents, Messages>>
  BY <1>1, TransferSame DEF Jobs
<1>3. FileTypeOK'
  BY <1>1, TransferSame DEF FileTypeOK, Jobs
<1>4. ASSUME NEW j \in Jobs PROVE JobInv(j)'
  <2>1. Same(toReader, toReader', j, 0) /\ Same(toWriter, toWriter', j, 0)
    <3>1. Len(toReader) \in Nat /\ Len(toWriter) \in Nat
      BY LenProperties DEF FileTypeOK
    <3> QED
      BY <3>1, <1>1 DEF Same
  <2>2. 0 \in {0, 1} /\ JobInv(j)
    BY DEF FileInv
  <2> QED
    BY <2>1, <2>2, <1>1, Frame
<1>5. ListInv'
  BY <1>1 DEF FileInv, ListInv, ListedIn, Jobs
<1>6. KindInv'
  BY <1>1, <1>2 DEF FileInv, KindInv, ReaderKinds, WriterKinds
<1>7. SingleInv'
  BY <1>1, <1>2 DEF FileInv, SingleInv, Writing, LiveAt
<1>8. DiskInv'
  BY <1>1, DiskStays DEF FileInv
<1> QED
  BY <1>2, <1>3, <1>4, <1>5, <1>6, <1>7, <1>8 DEF FileInv

LEMMA FileStepKeeps ==
  ASSUME FileTypeOK, FileInv, [FileNext]_fileVars
  PROVE  FileTypeOK' /\ FileInv'
<1>1. CASE SendFiles
  BY <1>1, SendFilesKeeps
<1>2. CASE AnswerSome
  BY <1>2, AnswerDialogKeeps DEF AnswerSome
<1>3. CASE OnReader
  BY <1>3, OnSendKeeps, OnCancelReadKeeps, OnConfirmReadKeeps, OnAskKeeps DEF OnReader
<1>4. CASE OnWriter
  BY <1>4, OnReceiveKeeps, OnDirKeeps, OnDigestKeeps, OnConfirmWriteKeeps, OnBlockKeeps, OnDoneKeeps,
     OnErrorKeeps, OnCancelWriteKeeps DEF OnWriter
<1>5. ASSUME NEW id \in Jobs, ResumeJob(id) \/ CancelJob(id) \/ Read(id) \/ ReadFails(id)
      PROVE  FileTypeOK' /\ FileInv'
  BY <1>5, ResumeJobKeeps, CancelJobKeeps, FinishKeeps, ReadMarkerKeeps, SendDigestKeeps,
     ReadBlockKeeps, ReadEndKeeps, ReadFailsKeeps DEF Read
<1>6. CASE \E crash \in BOOLEAN : Reconnect(crash)
  BY <1>6, ReconnectKeeps
<1>7. CASE \E f \in FileNums : ChangeSource(f)
  BY <1>7, ChangeSourceKeeps
<1>8. CASE UNCHANGED fileVars
  BY <1>8, FileStutters
<1> QED
  BY <1>1, <1>2, <1>3, <1>4, <1>5, <1>6, <1>7, <1>8 DEF FileNext

LEMMA FileInductive == FileSpec => [](FileTypeOK /\ FileInv)
<1>1. FileInit => FileTypeOK /\ FileInv
  BY InitHolds
<1>2. FileTypeOK /\ FileInv /\ [FileNext]_fileVars => (FileTypeOK /\ FileInv)'
  BY FileStepKeeps
<1> QED
  BY <1>1, <1>2, PTL DEF FileSpec

\* Type correctness: the job lists of both sides, the messages between them
\* and the files of the writer stay what fs.rs and message.proto make them.
THEOREM FileTypeCorrect == FileSpec => []FileTypeOK
BY FileInductive, PTL

\* What an interrupted transfer left can be gone on with: the content of a
\* .download file is a prefix of the version its .digest file names, whatever
\* was cancelled, failed or was cut off by a reconnection before.
THEOREM ResumableTheorem == FileSpec => []Resumable
<1>1. FileInv => Resumable
  BY DEF FileInv, DiskInv
<1> QED
  BY <1>1, FileInductive, PTL

-----------------------------------------------------------------------------
(* What is still to come of the file a job has open.                       *)

\* No more of f comes: n pieces of it have come, or its job has failed.
Ends(m, f, n) == \/ m.type \in {"error", "cancel"}
                 \/ m.type = "block" /\ m.file_num = f /\ m.data = <<>> /\ m.at >= n
\* The writer does not leave f at m.
Before(m, f) == m.type # "done" /\ (m.type = "block" => m.file_num <= f)
\* What ends f, at place i of the queue q or later, comes before all that leaves f.
More(q, r, j, f, n, i) ==
    \/ r # NoJob /\ r.file_num = f
    \/ \E k \in i .. Len(q) : /\ q[k].id = j /\ Ends(q[k], f, n)
                              /\ \A l \in 1 .. k - 1 : q[l].id = j => Before(q[l], f)

\* The messages at which a file may be open.
Owes(m) == /\ m.type \in {"digest", "block", "confirm"} /\ m.file_num \notin Markers
           /\ m.type = "confirm" => m.offset # Skip

DoneAfter(q, r, j) ==
    \A i \in 1 .. Len(q) : q[i].id = j /\ q[i].type = "done" => r = NoJob
Rising(q, j) ==
    \A i, k \in 1 .. Len(q) :
        i < k /\ q[i].id = j /\ q[k].id = j /\ q[i].type \in {"block", "confirm"}
              /\ q[k].type = "block" => q[i].file_num <= q[k].file_num
Owed(q, r, j) ==
    \A i \in 1 .. Len(q) : q[i].id = j /\ Owes(q[i]) =>
        More(q, r, j, q[i].file_num, Size[q[i].file_num], i)
\* u: the job has a writer or, in an upload, may get one.
Queued(q, r, u, j) == DoneAfter(q, r, j) /\ Rising(q, j) /\ (u => Owed(q, r, j))

Dropped(j) ==
    \A i \in 1 .. Len(toReader) :
        toReader[i].id = j /\ toReader[i].type = "cancel" => write_jobs[j] = NoJob
\* A file that is open is none that may be skipped.
Unasked(j) ==
    Open(j) =>
        /\ <<j, write_jobs[j].file_num>> \notin asking
        /\ \A i \in 1 .. Len(toReader) :
              /\ toReader[i].id = j
              /\ toReader[i].type = "ask" \/ (toReader[i].type = "confirm" /\ toReader[i].offset = Skip)
              => toReader[i].file_num # write_jobs[j].file_num
Filling(j) ==
    Open(j) =>
        /\ \A i \in 1 .. Len(toWriter) :
              toWriter[i].id = j /\ toWriter[i].type = "block" =>
                  write_jobs[j].file_num <= toWriter[i].file_num
        /\ \/ write_jobs[j].file_num \in misplaced
           \/ write_jobs[j].stream >= Size[write_jobs[j].file_num]
           \/ More(toWriter, read_jobs[j], j, write_jobs[j].file_num,
                   Size[write_jobs[j].file_num], 1)

EndInv(j) == /\ Queued(toWriter, read_jobs[j], Upload \/ write_jobs[j] # NoJob, j)
             /\ Dropped(j) /\ Unasked(j) /\ Filling(j)

LEMMA MoreShift ==
  ASSUME NEW q \in Seq(Messages), NEW p \in Seq(Messages), NEW j, NEW e \in {0, 1}, Same(q, p, j, e),
         NEW r, NEW f, NEW n, NEW i \in Nat \ {0}, NEW h \in Nat \ {0}, h + e <= i \/ h = 1,
         More(q, r, j, f, n, i)
  PROVE  More(p, r, j, f, n, h)
<1>1. CASE r # NoJob /\ r.file_num = f
  BY <1>1 DEF More
<1>2. CASE ~(r # NoJob /\ r.file_num = f)
  <2>1. PICK k \in i .. Len(q) : /\ q[k].id = j /\ Ends(q[k], f, n)
                                 /\ \A l \in 1 .. k - 1 : q[l].id = j => Before(q[l], f)
    BY <1>2 DEF More
  <2>2. Len(q) \in Nat /\ Len(p) \in Nat
    BY LenProperties
  <2>3. k \in 1 .. Len(q) /\ k - e \in 1 .. Len(p) /\ p[k - e] = q[k]
    BY <2>1, <2>2 DEF Same
  <2>4. k - e \in h .. Len(p)
    BY <2>1, <2>3, <2>2
  <2>5. ASSUME NEW l \in 1 .. (k - e) - 1, p[l].id = j
        PROVE  Before(p[l], f)
    <3>1. l \in 1 .. Len(p)
      BY <2>2, <2>3
    <3>2. l + e \in 1 .. Len(q) /\ p[l] = q[l + e]
      BY <3>1, <2>5 DEF Same
    <3>3. l + e \in 1 .. k - 1
      BY <3>2, <2>3
    <3> QED
      BY <3>2, <3>3, <2>1, <2>5
  <2> QED
    BY <2>1, <2>3, <2>4, <2>5 DEF More
<1> QED
  BY <1>1, <1>2

LEMMA MoreTaken ==
  ASSUME NEW q \in Seq(Messages), q # <<>>, NEW j,
         NEW r, NEW f, NEW n, NEW i \in Nat \ {0}, NEW h \in Nat \ {0},
         h + 1 <= i \/ (h = 1 /\ ~(Head(q).id = j /\ Ends(Head(q), f, n))),
         More(q, r, j, f, n, i)
  PROVE  /\ More(Tail(q), r, j, f, n, h)
         /\ Head(q).id = j => (r # NoJob /\ r.file_num = f) \/ Before(Head(q), f)
                              \/ Ends(Head(q), f, n)
<1> DEFINE p == Tail(q)
<1>0. /\ Len(q) \in Nat \ {0} /\ Len(p) = Len(q) - 1 /\ Head(q) = q[1]
      /\ \A l \in 1 .. Len(q) - 1 : p[l] = q[l + 1]
  BY TailFacts
<1> HIDE DEF p
<1>1. CASE r # NoJob /\ r.file_num = f
  BY <1>1 DEF More, p
<1>2. CASE ~(r # NoJob /\ r.file_num = f)
  <2>1. PICK k \in i .. Len(q) : /\ q[k].id = j /\ Ends(q[k], f, n)
                                 /\ \A l \in 1 .. k - 1 : q[l].id = j => Before(q[l], f)
    BY <1>2 DEF More
  <2>2. k # 1
    BY <2>1, <1>0
  <2>3. k - 1 \in h .. Len(p) /\ p[k - 1] = q[k] /\ 1 \in 1 .. k - 1
    <3>1. k - 1 \in 1 .. Len(q) - 1 /\ k - 1 + 1 = k
      BY <2>1, <2>2, <1>0
    <3>2. p[k - 1] = q[k - 1 + 1]
      BY <3>1, <1>0
    <3> QED
      BY <3>1, <3>2, <2>1, <2>2, <1>0
  <2>4. ASSUME NEW l \in 1 .. (k - 1) - 1, p[l].id = j
        PROVE  Before(p[l], f)
    <3>1. l \in 1 .. Len(q) - 1 /\ l + 1 \in 1 .. k - 1
      BY <1>0, <2>1, <2>3
    <3>2. p[l] = q[l + 1]
      BY <3>1, <1>0
    <3> QED
      BY <3>1, <3>2, <2>1, <2>4
  <2>5. More(p, r, j, f, n, h)
    BY <2>1, <2>3, <2>4 DEF More
  <2>6. Head(q).id = j => Before(Head(q), f)
    BY <2>1, <2>3, <1>0
  <2> QED
    BY <2>5, <2>6 DEF p
<1> QED
  BY <1>1, <1>2

LEMMA MoreGrows ==
  ASSUME NEW q \in Seq(Messages), NEW m \in Messages, NEW j,
         NEW r, NEW s, NEW f, NEW n, NEW i \in Nat \ {0},
         More(q, r, j, f, n, i), r # NoJob /\ r.file_num = f => s # NoJob /\ s.file_num = f
  PROVE  More(Append(q, m), s, j, f, n, i) /\ More(q, s, j, f, n, i)
<1> DEFINE p == Append(q, m)
<1>0. Len(q) \in Nat /\ Len(p) = Len(q) + 1 /\ \A l \in 1 .. Len(q) : p[l] = q[l]
  BY AppendFacts
<1> HIDE DEF p
<1>1. CASE r # NoJob /\ r.file_num = f
  BY <1>1 DEF More, p
<1>2. CASE ~(r # NoJob /\ r.file_num = f)
  <2>1. PICK k \in i .. Len(q) : /\ q[k].id = j /\ Ends(q[k], f, n)
                                 /\ \A l \in 1 .. k - 1 : q[l].id = j => Before(q[l], f)
    BY <1>2 DEF More
  <2>2. k \in i .. Len(p) /\ k \in 1 .. Len(q) /\ \A l \in 1 .. k - 1 : l \in 1 .. Len(q)
    BY <2>1, <1>0
  <2>3. p[k] = q[k] /\ \A l \in 1 .. k - 1 : p[l] = q[l]
    BY <2>2, <1>0
  <2>4. More(p, s, j, f, n, i)
    BY <2>1, <2>2, <2>3 DEF More
  <2>5. More(q, s, j, f, n, i)
    BY <2>1 DEF More
  <2> QED
    BY <2>4, <2>5 DEF p
<1> QED
  BY <1>1, <1>2

\* The reader leaves f with m.
LEMMA MoreClosed ==
  ASSUME NEW q \in Seq(Messages), NEW m \in Messages, NEW j, m.id = j,
         NEW r, NEW f, NEW n, Ends(m, f, n), NEW i \in 1 .. Len(q) + 1,
         \A l \in 1 .. Len(q) : q[l].id = j => Before(q[l], f)
  PROVE  More(Append(q, m), r, j, f, n, i)
<1> DEFINE p == Append(q, m)
           k == Len(q) + 1
<1>0. /\ Len(q) \in Nat /\ Len(p) = Len(q) + 1 /\ \A l \in 1 .. Len(q) : p[l] = q[l]
      /\ p[Len(q) + 1] = m
  BY AppendFacts
<1> HIDE DEF p
<1>1. k \in i .. Len(p) /\ p[k] = m /\ \A l \in 1 .. k - 1 : l \in 1 .. Len(q)
  BY <1>0
<1> HIDE DEF k
<1>2. \A l \in 1 .. k - 1 : p[l].id = j => Before(p[l], f)
  BY <1>0, <1>1
<1>3. More(p, r, j, f, n, i)
  BY <1>1, <1>2 DEF More
<1> QED
  BY <1>3 DEF p

-----------------------------------------------------------------------------
(* What a step leaves to the other jobs of it.                             *)

LEMMA QueuedSame ==
  ASSUME NEW q \in Seq(Messages), NEW p \in Seq(Messages), NEW j, NEW e \in {0, 1}, Same(q, p, j, e),
         NEW r, NEW u, Queued(q, r, u, j)
  PROVE  Queued(p, r, u, j)
<1>0. Len(q) \in Nat /\ Len(p) \in Nat
  BY LenProperties
<1>1. ASSUME NEW i \in 1 .. Len(p), p[i].id = j
      PROVE  i + e \in 1 .. Len(q) /\ p[i] = q[i + e]
  BY <1>1 DEF Same
<1>2. DoneAfter(p, r, j)
  BY <1>1 DEF Queued, DoneAfter
<1>3. Rising(p, j)
  <2> SUFFICES ASSUME NEW i \in 1 .. Len(p), NEW k \in 1 .. Len(p), i < k,
                      p[i].id = j, p[k].id = j, p[i].type \in {"block", "confirm"}, p[k].type = "block"
               PROVE  p[i].file_num <= p[k].file_num
    BY DEF Rising
  <2>1. i + e \in 1 .. Len(q) /\ p[i] = q[i + e] /\ k + e \in 1 .. Len(q) /\ p[k] = q[k + e] /\ i + e < k + e
    BY <1>1
  <2> QED
    BY <2>1 DEF Queued, Rising
<1>4. ASSUME u PROVE Owed(p, r, j)
  <2> SUFFICES ASSUME NEW i \in 1 .. Len(p), p[i].id = j, Owes(p[i])
               PROVE  More(p, r, j, p[i].file_num, Size[p[i].file_num], i)
    BY DEF Owed
  <2>1. i + e \in 1 .. Len(q) /\ p[i] = q[i + e]
    BY <1>1
  <2>2. More(q, r, j, p[i].file_num, Size[p[i].file_num], i + e)
    BY <2>1, <1>4 DEF Queued, Owed
  <2>3. i \in Nat \ {0} /\ i + e \in Nat \ {0} /\ i + e <= i + e
    BY <1>0
  <2> QED
    BY <2>2, <2>3, MoreShift
<1> QED
  BY <1>2, <1>3, <1>4 DEF Queued

-----------------------------------------------------------------------------

LEMMA QueuedTaken ==
  ASSUME NEW q \in Seq(Messages), q # <<>>, NEW j, NEW r, NEW u, NEW v, v => u, Queued(q, r, u, j)
  PROVE  Queued(Tail(q), r, v, j)
<1> DEFINE p == Tail(q)
<1>0. Len(q) \in Nat \ {0} /\ Len(p) = Len(q) - 1 /\ \A l \in 1 .. Len(q) - 1 : p[l] = q[l + 1]
  BY TailFacts
<1>1. \A i \in 1 .. Len(p) : i + 1 \in 1 .. Len(q) /\ p[i] = q[i + 1]
  BY <1>0
<1>2. DoneAfter(p, r, j)
  BY <1>1 DEF Queued, DoneAfter
<1>3. Rising(p, j)
  <2> SUFFICES ASSUME NEW i \in 1 .. Len(p), NEW k \in 1 .. Len(p), i < k,
                      p[i].id = j, p[k].id = j, p[i].type \in {"block", "confirm"}, p[k].type = "block"
               PROVE  p[i].file_num <= p[k].file_num
    BY DEF Rising
  <2>1. i + 1 \in 1 .. Len(q) /\ p[i] = q[i + 1] /\ k + 1 \in 1 .. Len(q) /\ p[k] = q[k + 1] /\ i + 1 < k + 1
    BY <1>1
  <2> QED
    BY <2>1 DEF Queued, Rising
<1>4. ASSUME v PROVE Owed(p, r, j)
  <2> SUFFICES ASSUME NEW i \in 1 .. Len(p), p[i].id = j, Owes(p[i])
               PROVE  More(p, r, j, p[i].file_num, Size[p[i].file_num], i)
    BY DEF Owed
  <2>1. i + 1 \in 1 .. Len(q) /\ p[i] = q[i + 1]
    BY <1>1
  <2>2. More(q, r, j, p[i].file_num, Size[p[i].file_num], i + 1)
    BY <2>1, <1>4 DEF Queued, Owed
  <2>3. i \in Nat \ {0} /\ i + 1 \in Nat \ {0} /\ i + 1 <= i + 1
    BY <1>0
  <2> QED
    BY <2>2, <2>3, MoreTaken
<1> QED
  BY <1>2, <1>3, <1>4 DEF Queued

\* The reader, which becomes s, sends m.
LEMMA QueuedEmit ==
  ASSUME NEW q \in Seq(Messages), NEW m \in Messages, NEW j, m.id = j, NEW r, r # NoJob, NEW s, NEW u,
         Queued(q, r, u, j),
         \A i \in 1 .. Len(q) : q[i].id = j /\ q[i].type \in {"block", "confirm"} =>
             q[i].file_num <= r.file_num,
         m.type \in {"digest", "block", "confirm"} => m.file_num = r.file_num,
         m.type = "done" => s = NoJob,
         \/ s # NoJob /\ s.file_num = r.file_num
         \/ r.file_num \in Markers \/ r.file_num \notin FileNums
         \/ Ends(m, r.file_num, Size[r.file_num])
  PROVE  /\ Queued(Append(q, m), s, u, j)
         /\ \A f \in FileNums \ Markers :
               More(q, r, j, f, Size[f], 1) => More(Append(q, m), s, j, f, Size[f], 1)
<1> DEFINE p == Append(q, m)
<1>0. /\ Len(q) \in Nat /\ Len(p) = Len(q) + 1 /\ \A l \in 1 .. Len(q) : p[l] = q[l]
      /\ p[Len(q) + 1] = m /\ p \in Seq(Messages)
  BY AppendFacts
<1> HIDE DEF p
<1>1. \A i \in 1 .. Len(p) : (i \in 1 .. Len(q) /\ p[i] = q[i]) \/ (i = Len(q) + 1 /\ p[i] = m)
  BY <1>0
<1>2. \A l \in 1 .. Len(q) : q[l].id = j => q[l].type # "done" /\ Before(q[l], r.file_num)
  BY DEF Queued, DoneAfter, Before
<1>3. ASSUME NEW f \in FileNums \ Markers, NEW i \in Nat \ {0}, More(q, r, j, f, Size[f], i), i <= Len(q) + 1
      PROVE  More(p, s, j, f, Size[f], i)
  <2>1. CASE f # r.file_num \/ (s # NoJob /\ s.file_num = r.file_num)
    BY <2>1, <1>3, MoreGrows DEF p
  <2>2. CASE f = r.file_num /\ ~(s # NoJob /\ s.file_num = r.file_num)
    <3>1. Ends(m, f, Size[f])
      BY <2>2
    <3>2. i \in 1 .. Len(q) + 1
      BY <1>3, <1>0
    <3>3. \A l \in 1 .. Len(q) : q[l].id = j => Before(q[l], f)
      BY <1>2, <2>2
    <3> QED
      BY <3>1, <3>2, <3>3, MoreClosed DEF p
  <2> QED
    BY <2>1, <2>2
<1>4. DoneAfter(p, s, j)
  BY <1>1, <1>2 DEF DoneAfter
<1>5. Rising(p, j)
  <2> SUFFICES ASSUME NEW i \in 1 .. Len(p), NEW k \in 1 .. Len(p), i < k,
                      p[i].id = j, p[k].id = j, p[i].type \in {"block", "confirm"}, p[k].type = "block"
               PROVE  p[i].file_num <= p[k].file_num
    BY DEF Rising
  <2>1. i \in 1 .. Len(q) /\ p[i] = q[i]
    BY <1>1, <1>0
  <2>2. CASE k \in 1 .. Len(q) /\ p[k] = q[k]
    BY <2>1, <2>2 DEF Queued, Rising
  <2>3. CASE k = Len(q) + 1 /\ p[k] = m
    BY <2>1, <2>3
  <2> QED
    BY <1>1, <2>2, <2>3
<1>6. ASSUME u PROVE Owed(p, s, j)
  <2> SUFFICES ASSUME NEW i \in 1 .. Len(p), p[i].id = j, Owes(p[i])
               PROVE  More(p, s, j, p[i].file_num, Size[p[i].file_num], i)
    BY DEF Owed
  <2>1. p[i] \in Messages
    BY <1>0, ElementOfSeq
  <2>2. p[i].file_num \in FileNums \ Markers
    BY <2>1, MessageFacts DEF Owes
  <2>3. More(q, r, j, p[i].file_num, Size[p[i].file_num], i)
    <3>1. CASE i \in 1 .. Len(q) /\ p[i] = q[i]
      BY <3>1, <1>6 DEF Queued, Owed
    <3>2. CASE i = Len(q) + 1 /\ p[i] = m
      BY <3>2 DEF Owes, More
    <3> QED
      BY <1>1, <3>1, <3>2
  <2>4. i \in Nat \ {0} /\ i <= Len(q) + 1
    BY <1>0
  <2> QED
    BY <2>2, <2>3, <2>4, <1>3
<1>7. ASSUME NEW f \in FileNums \ Markers, More(q, r, j, f, Size[f], 1)
      PROVE  More(p, s, j, f, Size[f], 1)
  <2>1. 1 \in Nat \ {0} /\ 1 <= Len(q) + 1
    BY <1>0
  <2> QED
    BY <2>1, <1>3, <1>7
<1> QED
  BY <1>4, <1>5, <1>6, <1>7 DEF Queued, p

\* Nothing in the queue is of a file, but the answer about the one of s.
LEMMA QueuedAlone ==
  ASSUME NEW q, NEW j, NEW s, NEW u,
         \A i \in 1 .. Len(q) : q[i].id = j =>
             /\ q[i].type \notin {"done", "block"}
             /\ Owes(q[i]) => s # NoJob /\ s.file_num = q[i].file_num
  PROVE  Queued(q, s, u, j)
BY DEF Queued, DoneAfter, Rising, Owed, More

\* The next state's size of a file is this one's.
LEMMA QueuedNext ==
  ASSUME transfer' = transfer, NEW j, Queued(toWriter', read_jobs'[j], Upload \/ write_jobs'[j] # NoJob, j)
  PROVE  Queued(toWriter, read_jobs[j], Upload \/ write_jobs[j] # NoJob, j)'
<1>1. Size' = Size /\ Markers' = Markers /\ Upload' = Upload
  BY TransferSame
<1>2. Rising(toWriter, j)' /\ DoneAfter(toWriter, read_jobs[j], j)'
  BY DEF Queued, Rising, DoneAfter
<1>3. ASSUME (Upload \/ write_jobs[j] # NoJob)'
      PROVE  Owed(toWriter, read_jobs[j], j)'
  <2>1. Owed(toWriter', read_jobs'[j], j)
    BY <1>1, <1>3 DEF Queued
  <2> QED
    BY <2>1, <1>1 DEF Owed, Owes, More, Ends, Before
<1> QED
  BY <1>2, <1>3 DEF Queued

LEMMA EndFrame ==
  ASSUME FileTypeOK, FileTypeOK', transfer' = transfer,
         NEW j \in Jobs, EndInv(j), NEW d \in {0, 1}, NEW e \in {0, 1},
         Same(toReader, toReader', j, d), Same(toWriter, toWriter', j, e),
         read_jobs'[j] = read_jobs[j], write_jobs'[j] = write_jobs[j],
         \A f \in FileNums : <<j, f>> \in asking' => <<j, f>> \in asking,
         Open(j) => misplaced' = misplaced
  PROVE  EndInv(j)'
<1>0. /\ Size' = Size /\ Markers' = Markers /\ Upload' = Upload /\ FileNums' = FileNums
      /\ toWriter \in Seq(Messages) /\ toWriter' \in Seq(Messages)
  BY TransferSame DEF FileTypeOK
<1>1. Queued(toWriter, read_jobs[j], Upload \/ write_jobs[j] # NoJob, j)'
  <2>1. Queued(toWriter', read_jobs[j], Upload \/ write_jobs[j] # NoJob, j)
    BY <1>0, QueuedSame DEF EndInv
  <2> QED
    BY <2>1, QueuedNext
<1>2. ASSUME NEW i \in 1 .. Len(toReader'), toReader'[i].id = j
      PROVE  i + d \in 1 .. Len(toReader) /\ toReader'[i] = toReader[i + d]
  BY <1>2 DEF Same
<1>3. Dropped(j)'
  BY <1>2 DEF EndInv, Dropped
<1>4. Open(j)' <=> Open(j)
  BY <1>0 DEF Open
<1>5. Unasked(j)'
  <2> SUFFICES ASSUME Open(j)
               PROVE  /\ <<j, write_jobs[j].file_num>> \notin asking'
                      /\ \A i \in 1 .. Len(toReader') :
                            /\ toReader'[i].id = j
                            /\ \/ toReader'[i].type = "ask"
                               \/ toReader'[i].type = "confirm" /\ toReader'[i].offset = Skip
                            => toReader'[i].file_num # write_jobs[j].file_num
    BY <1>4 DEF Unasked
  <2>1. asking' \subseteq Jobs \X FileNums
    BY <1>0 DEF FileTypeOK, Jobs
  <2> QED
    BY <2>1, <1>2 DEF EndInv, Unasked
<1>6. Filling(j)'
  <2> SUFFICES ASSUME Open(j)
               PROVE  /\ \A i \in 1 .. Len(toWriter') :
                            toWriter'[i].id = j /\ toWriter'[i].type = "block" =>
                                write_jobs[j].file_num <= toWriter'[i].file_num
                      /\ \/ write_jobs[j].file_num \in misplaced'
                         \/ write_jobs[j].stream >= Size[write_jobs[j].file_num]
                         \/ More(toWriter', read_jobs[j], j, write_jobs[j].file_num,
                                 Size[write_jobs[j].file_num], 1)
    BY <1>0, <1>4 DEF Filling, More, Ends, Before
  <2>1. ASSUME NEW i \in 1 .. Len(toWriter'), toWriter'[i].id = j
        PROVE  i + e \in 1 .. Len(toWriter) /\ toWriter'[i] = toWriter[i + e]
    BY <2>1 DEF Same
  <2>2. /\ \/ write_jobs[j].file_num \in misplaced
           \/ write_jobs[j].stream >= Size[write_jobs[j].file_num]
           \/ More(toWriter, read_jobs[j], j, write_jobs[j].file_num,
                   Size[write_jobs[j].file_num], 1)
        /\ \A i \in 1 .. Len(toWriter) :
              toWriter[i].id = j /\ toWriter[i].type = "block" =>
                  write_jobs[j].file_num <= toWriter[i].file_num
    BY DEF EndInv, Filling
  <2>3. More(toWriter, read_jobs[j], j, write_jobs[j].file_num, Size[write_jobs[j].file_num], 1)
        => More(toWriter', read_jobs[j], j, write_jobs[j].file_num, Size[write_jobs[j].file_num], 1)
    BY <1>0, MoreShift
  <2> QED
    BY <2>1, <2>2, <2>3
<1> QED
  BY <1>1, <1>3, <1>5, <1>6 DEF EndInv

-----------------------------------------------------------------------------

AllEnd == \A j \in Jobs : EndInv(j)

\* It is enough to say what becomes of the job of the step.
LEMMA EndStep ==
  ASSUME FileTypeOK, FileTypeOK', FileInv, AllEnd, NEW id \in Jobs, transfer' = transfer,
         Moved(toReader, toReader', id), Moved(toWriter, toWriter', id), OthersSame(id),
         \A j \in Jobs : \A f \in FileNums : j # id => (<<j, f>> \in asking' => <<j, f>> \in asking),
         misplaced' = misplaced \/ Writing(id),
         EndInv(id)'
  PROVE  AllEnd'
<1>1. ASSUME NEW j \in Jobs, j # id PROVE EndInv(j)'
  <2>1. toReader \in Seq(Messages) /\ toWriter \in Seq(Messages)
    BY DEF FileTypeOK
  <2>2. PICK d \in {0, 1} : Same(toReader, toReader', j, d)
    BY <1>1, <2>1, MovedFacts
  <2>3. PICK e \in {0, 1} : Same(toWriter, toWriter', j, e)
    BY <1>1, <2>1, MovedFacts
  <2>4. Open(j) => misplaced' = misplaced
    <3>1. Open(j) => Writing(j)
      BY DEF FileInv, JobInv, Fresh, Open, Writing
    <3>2. Writing(id) /\ Writing(j) => j = id
      BY DEF FileInv, SingleInv
    <3> QED
      BY <3>1, <3>2, <1>1
  <2>5. read_jobs'[j] = read_jobs[j] /\ write_jobs'[j] = write_jobs[j]
    BY <1>1 DEF OthersSame
  <2>6. \A f \in FileNums : <<j, f>> \in asking' => <<j, f>> \in asking
    BY <1>1
  <2>7. EndInv(j)
    BY DEF AllEnd
  <2> QED
    BY <2>2, <2>3, <2>4, <2>5, <2>6, <2>7, EndFrame
<1>2. Jobs' = Jobs
  BY DEF Jobs
<1> QED
  BY <1>1, <1>2 DEF AllEnd

-----------------------------------------------------------------------------
(* The reader sends m, or ends with it.                                    *)

LEMMA EmitEnds ==
  ASSUME FileTypeOK, FileTypeOK', FileInv, AllEnd, NEW id \in Jobs, transfer' = transfer,
         NEW m \in Messages, m.id = id, toWriter' = Append(toWriter, m), toReader' = toReader,
         read_jobs[id] # NoJob, OthersSame(id), write_jobs' = write_jobs,
         asking' \subseteq asking, misplaced' = misplaced,
         m.type # "confirm", m.type \in {"digest", "block"} => m.file_num = read_jobs[id].file_num,
         m.type = "done" => read_jobs'[id] = NoJob,
         \/ read_jobs'[id] # NoJob /\ read_jobs'[id].file_num = read_jobs[id].file_num
         \/ read_jobs[id].file_num \in Markers \/ read_jobs[id].file_num \notin FileNums
         \/ Ends(m, read_jobs[id].file_num, Size[read_jobs[id].file_num])
  PROVE  AllEnd'
<1> DEFINE r == read_jobs[id]
           w == write_jobs[id]
<1>0. /\ Size' = Size /\ Markers' = Markers /\ Upload' = Upload /\ FileNums' = FileNums
      /\ toWriter \in Seq(Messages) /\ toReader \in Seq(Messages)
      /\ EndInv(id) /\ JobInv(id)
  BY TransferSame DEF FileTypeOK, AllEnd, FileInv
<1>1. \A i \in 1 .. Len(toWriter) :
         toWriter[i].id = id /\ toWriter[i].type \in {"block", "confirm"} =>
             toWriter[i].file_num <= r.file_num
  BY <1>0 DEF JobInv, Blocks, Confirms
<1>2. /\ Queued(Append(toWriter, m), read_jobs'[id], Upload \/ w # NoJob, id)
      /\ \A f \in FileNums \ Markers :
            More(toWriter, r, id, f, Size[f], 1) =>
                More(Append(toWriter, m), read_jobs'[id], id, f, Size[f], 1)
  <2>1. Queued(toWriter, r, Upload \/ w # NoJob, id)
    BY <1>0 DEF EndInv
  <2>2. m.type \in {"digest", "block", "confirm"} => m.file_num = r.file_num
    OBVIOUS
  <2> QED
    BY <2>1, <2>2, <1>0, <1>1, QueuedEmit
<1>3. Queued(toWriter, read_jobs[id], Upload \/ write_jobs[id] # NoJob, id)'
  BY <1>2, QueuedNext
<1>4. Dropped(id)' /\ Unasked(id)' /\ (Open(id)' <=> Open(id))
  BY <1>0 DEF EndInv, Dropped, Unasked, Open
<1>5. Filling(id)'
  <2> SUFFICES ASSUME Open(id)
               PROVE  /\ \A i \in 1 .. Len(toWriter') :
                            toWriter'[i].id = id /\ toWriter'[i].type = "block" =>
                                w.file_num <= toWriter'[i].file_num
                      /\ \/ w.file_num \in misplaced
                         \/ w.stream >= Size[w.file_num]
                         \/ More(toWriter', read_jobs'[id], id, w.file_num, Size[w.file_num], 1)
    BY <1>0, <1>4 DEF Filling, More, Ends, Before
  <2>1. /\ \A i \in 1 .. Len(toWriter) :
              toWriter[i].id = id /\ toWriter[i].type = "block" => w.file_num <= toWriter[i].file_num
        /\ \/ w.file_num \in misplaced
           \/ w.stream >= Size[w.file_num]
           \/ More(toWriter, r, id, w.file_num, Size[w.file_num], 1)
    BY <1>0 DEF EndInv, Filling
  <2>2. w.file_num <= r.file_num
    BY <1>0 DEF JobInv, Opens
  <2>3. /\ Len(toWriter) \in Nat /\ Len(toWriter') = Len(toWriter) + 1
        /\ \A i \in 1 .. Len(toWriter) : toWriter'[i] = toWriter[i]
        /\ toWriter'[Len(toWriter) + 1] = m
    BY <1>0, AppendFacts
  <2>4. \A i \in 1 .. Len(toWriter') : i \in 1 .. Len(toWriter) \/ i = Len(toWriter) + 1
    BY <2>3
  <2>5. \A i \in 1 .. Len(toWriter') :
           toWriter'[i].id = id /\ toWriter'[i].type = "block" => w.file_num <= toWriter'[i].file_num
    BY <2>1, <2>2, <2>3, <2>4
  <2>6. w.file_num \in FileNums \ Markers
    <3>1. w \in WriteJobs(transfer) /\ w.file_num < N
      BY <1>0 DEF JobInv, Opens, Open, FileTypeOK
    <3>2. w.file_num \in 0 .. N
      BY <3>1, WriteFacts
    <3>3. N \in Nat
      BY TransferFacts DEF FileTypeOK
    <3>4. w.file_num \notin Markers
      BY DEF Open
    <3> QED
      BY <3>1, <3>2, <3>3, <3>4 DEF FileNums
  <2> QED
    BY <2>1, <2>5, <2>6, <1>2
<1>6. EndInv(id)'
  BY <1>3, <1>4, <1>5 DEF EndInv
<1>7. Moved(toReader, toReader', id) /\ Moved(toWriter, toWriter', id)
  BY DEF Moved
<1> QED
  BY <1>6, <1>7, EndStep

LEMMA ReaderStepEnds ==
  ASSUME FileTypeOK, FileTypeOK', FileInv, AllEnd, NEW id \in Jobs, First(id),
         NEW s \in ReadJobs(transfer), NEW m \in Messages, m.id = id, ReaderStep(id, s, m),
         m.type \in {"digest", "block", "error"},
         m.type \in {"digest", "block"} => m.file_num = read_jobs[id].file_num,
         \/ s.file_num = read_jobs[id].file_num
         \/ read_jobs[id].file_num \in Markers
         \/ Ends(m, read_jobs[id].file_num, Size[read_jobs[id].file_num])
  PROVE  AllEnd'
<1>1. /\ transfer' = transfer /\ toWriter' = Append(toWriter, m) /\ toReader' = toReader
      /\ read_jobs'[id] = s /\ UNCHANGED <<write_jobs, asking>>
  BY ReaderUnpacked
<1>2. misplaced' = misplaced
  BY DEF ReaderStep, ReaderSends
<1>3. read_jobs' = [read_jobs EXCEPT ![id] = s]
  BY DEF ReaderStep, SetRead
<1>4. OthersSame(id)
  BY <1>1, <1>3 DEF OthersSame, FileTypeOK
<1>5. read_jobs[id] # NoJob /\ s # NoJob
  BY FirstReads, ReadFacts
<1> QED
  BY <1>1, <1>2, <1>4, <1>5, EmitEnds

LEMMA ReadEnds ==
  ASSUME FileTypeOK, FileTypeOK', FileInv, AllEnd, NEW id \in Jobs,
         ReadMarker(id) \/ SendDigest(id) \/ ReadFails(id) \/ ReadBlock(id) \/ ReadEnd(id)
  PROVE  AllEnd'
<1> DEFINE r == read_jobs[id]
<1>0. First(id) /\ r.file_num \in FileNums
  BY TransferFacts DEF ReadMarker, SendDigest, ReadFails, ReadBlock, ReadEnd, Reading, FileTypeOK
<1>1. r \in ReadJobs(transfer) /\ JobInv(id)
  BY <1>0, FirstReads
<1>2. /\ r.stream \in Nat \cup {None} /\ r.is_resume \in BOOLEAN
      /\ NextFile(r) \in ReadJobs(transfer) /\ [NextFile(r) EXCEPT !.error = TRUE] \in ReadJobs(transfer)
      /\ Size[r.file_num] \in Nat /\ source[r.file_num] \in 1 .. MaxVersion
      /\ 1 .. MaxVersion \subseteq 0 .. MaxVersion
  <2>1. /\ r.stream \in Nat \cup {None} /\ r.is_resume \in BOOLEAN
        /\ NextFile(r) \in ReadJobs(transfer) /\ [NextFile(r) EXCEPT !.error = TRUE] \in ReadJobs(transfer)
    BY <1>0, <1>1, ReadFacts
  <2>2. /\ Size \in [FileNums -> Nat] /\ MaxVersion \in Nat
        /\ source \in [FileNums -> 1 .. MaxVersion]
    BY TransferFacts DEF FileTypeOK
  <2>3. Size[r.file_num] \in Nat /\ source[r.file_num] \in 1 .. MaxVersion
    BY <2>2, <1>0
  <2>4. 1 .. MaxVersion \subseteq 0 .. MaxVersion
    BY <2>2
  <2> QED
    BY <2>1, <2>3, <2>4
<1>3. CASE ReadMarker(id)
  <2> DEFINE m == BlockMessage(id, r.file_num, <<>>, 0)
  <2>1. r.file_num \in Markers /\ ReaderStep(id, NextFile(r), m)
    BY <1>3 DEF ReadMarker
  <2>2. m \in Messages /\ m.id = id /\ m.type = "block" /\ m.file_num = r.file_num
    BY <1>0, MessageMade, ContentFacts DEF BlockMessage
  <2> HIDE DEF m
  <2> QED
    BY <2>1, <2>2, <1>0, <1>2, ReaderStepEnds
<1>4. CASE SendDigest(id)
  <2> DEFINE s == [r EXCEPT !.stream = IF @ = None THEN 0 ELSE @, !.confirmed = FALSE, !.waiting = TRUE]
             m == [type |-> "digest", id |-> id, file_num |-> r.file_num,
                   version |-> source[r.file_num], is_resume |-> r.is_resume]
  <2>1. ReaderStep(id, s, m)
    BY <1>4 DEF SendDigest
  <2>2. m \in Messages /\ m.id = id /\ m.type = "digest" /\ m.file_num = r.file_num
    BY <1>0, <1>2, MessageMade
  <2>3. s \in ReadJobs(transfer) /\ s.file_num = r.file_num
    BY <1>1, <1>2 DEF ReadJobs
  <2> HIDE DEF m, s
  <2> QED
    BY <2>1, <2>2, <2>3, <1>0, ReaderStepEnds
<1>5. CASE ReadFails(id)
  <2> DEFINE m == [type |-> "error", id |-> id]
  <2>1. ReaderStep(id, [NextFile(r) EXCEPT !.error = TRUE], m)
    BY <1>5 DEF ReadFails
  <2>2. m \in Messages /\ m.id = id /\ m.type = "error"
    BY MessageMade
  <2>3. Ends(m, r.file_num, Size[r.file_num])
    BY <2>2 DEF Ends
  <2> HIDE DEF m
  <2> QED
    BY <2>1, <2>2, <2>3, <1>0, <1>2, ReaderStepEnds
<1>6. CASE ReadBlock(id)
  <2> DEFINE s == [r EXCEPT !.stream = @ + 1]
             d == << <<source[r.file_num], r.stream + 1>> >>
             m == BlockMessage(id, r.file_num, d, r.stream)
  <2>1. ReaderStep(id, s, m) /\ r.stream # None
    BY <1>6 DEF ReadBlock
  <2>2. r.stream \in Nat /\ r.stream + 1 \in Nat
    BY <2>1, <1>2
  <2>3. d \in Contents
    <3>1. source[r.file_num] \in 0 .. MaxVersion
      BY <1>2
    <3> QED
      BY <3>1, <2>2, ContentFacts
  <2> HIDE DEF d
  <2>4. m \in Messages /\ m.id = id /\ m.type = "block" /\ m.file_num = r.file_num
    BY <1>0, <2>2, <2>3, MessageMade DEF BlockMessage
  <2>5. s \in ReadJobs(transfer) /\ s.file_num = r.file_num
    BY <1>1, <2>2 DEF ReadJobs
  <2> HIDE DEF m, s
  <2> QED
    BY <2>1, <2>4, <2>5, <1>0, ReaderStepEnds
<1>7. CASE ReadEnd(id)
  <2> DEFINE m == BlockMessage(id, r.file_num, <<>>, r.stream)
  <2>1. ReaderStep(id, NextFile(r), m) /\ r.stream # None /\ r.stream >= Size[r.file_num]
    BY <1>7 DEF ReadEnd
  <2>2. r.stream \in Nat
    BY <2>1, <1>2
  <2>3. /\ m \in Messages /\ m.id = id /\ m.type = "block" /\ m.file_num = r.file_num
        /\ m.data = <<>> /\ m.at = r.stream
    BY <1>0, <2>2, MessageMade, ContentFacts DEF BlockMessage
  <2> HIDE DEF m
  <2>4. Ends(m, r.file_num, Size[r.file_num])
    BY <2>1, <2>3 DEF Ends
  <2> QED
    BY <2>1, <2>3, <2>4, <1>0, <1>2, ReaderStepEnds
<1> QED
  BY <1>3, <1>4, <1>5, <1>6, <1>7

LEMMA FinishEnds ==
  ASSUME FileTypeOK, FileTypeOK', FileInv, AllEnd, NEW id \in Jobs, Finish(id)
  PROVE  AllEnd'
<1> DEFINE r == read_jobs[id]
           m == [type |-> IF r.error \/ (r.skipped /\ N = 1) THEN "error" ELSE "done", id |-> id]
<1>1. /\ First(id) /\ r.file_num >= N
      /\ read_jobs' = [read_jobs EXCEPT ![id] = NoJob]
      /\ toWriter' = Append(toWriter, m) /\ toReader' = toReader
      /\ UNCHANGED <<writeVars, uiVars, misplaced>>
  BY DEF Finish, RemoveRead, ReaderSends, SendWriter
<1>2. transfer' = transfer /\ UNCHANGED <<write_jobs, asking>>
  BY <1>1 DEF uiVars, writeVars, boundVars, Finish, ReaderSends
<1>3. read_jobs'[id] = NoJob /\ OthersSame(id)
  BY <1>1, <1>2 DEF OthersSame, FileTypeOK
<1>4. m \in Messages /\ m.id = id /\ m.type \in {"done", "error"}
  <2>1. m.id = id /\ m.type \in {"done", "error"} /\ m = [type |-> m.type, id |-> id]
    OBVIOUS
  <2> QED
    BY <2>1, MessageMade
<1>5. read_jobs[id] \in ReadJobs(transfer) /\ read_jobs[id] # NoJob
  BY <1>1, FirstReads
<1>6. read_jobs[id].file_num \notin FileNums
  <2>1. N \in Nat
    BY TransferFacts DEF FileTypeOK
  <2>2. r.file_num \in 0 .. N
    BY <1>5, ReadFacts
  <2> HIDE DEF m
  <2> QED
    BY <2>1, <2>2, <1>1 DEF FileNums
<1> HIDE DEF m, r
<1> QED
  BY <1>1, <1>2, <1>3, <1>4, <1>5, <1>6, EmitEnds

-----------------------------------------------------------------------------
(* What a step makes of its own job.                                       *)

\* A step of id.
StepOf(id) == /\ transfer' = transfer /\ OthersSame(id)
              /\ Moved(toReader, toReader', id) /\ Moved(toWriter, toWriter', id)
              /\ \A j \in Jobs : \A f \in FileNums : j # id => (<<j, f>> \in asking' => <<j, f>> \in asking)

\* What EndInv says of f when it is open, of which n pieces are there.
FileEnds(f, n, r, q, p, pairs, out, j) ==
    /\ <<j, f>> \notin pairs
    /\ \A i \in 1 .. Len(p) :
          p[i].id = j /\ (p[i].type = "ask" \/ (p[i].type = "confirm" /\ p[i].offset = Skip)) => p[i].file_num # f
    /\ \A i \in 1 .. Len(q) : q[i].id = j /\ q[i].type = "block" => f <= q[i].file_num
    /\ f \in out \/ n >= Size[f] \/ More(q, r, j, f, Size[f], 1)

LEMMA FileEndsNow ==
  ASSUME NEW j, EndInv(j), Open(j)
  PROVE  FileEnds(write_jobs[j].file_num, write_jobs[j].stream, read_jobs[j], toWriter, toReader,
                  asking, misplaced, j)
BY DEF EndInv, Unasked, Filling, FileEnds

LEMMA EndMade ==
  ASSUME FileTypeOK, FileTypeOK', FileInv, AllEnd, NEW id \in Jobs, StepOf(id),
         misplaced' = misplaced \/ Writing(id),
         Queued(toWriter', read_jobs'[id], Upload \/ write_jobs'[id] # NoJob, id),
         \A i \in 1 .. Len(toReader') :
             toReader'[i].id = id /\ toReader'[i].type = "cancel" => write_jobs'[id] = NoJob,
         Open(id)' => FileEnds(write_jobs'[id].file_num, write_jobs'[id].stream, read_jobs'[id],
                               toWriter', toReader', asking', misplaced', id)
  PROVE  AllEnd'
<1>1. Size' = Size /\ transfer' = transfer
  BY TransferSame DEF StepOf
<1>2. Queued(toWriter, read_jobs[id], Upload \/ write_jobs[id] # NoJob, id)'
  BY <1>1, QueuedNext
<1>3. Dropped(id)'
  BY DEF Dropped
<1>4. Unasked(id)' /\ Filling(id)'
  BY <1>1 DEF Unasked, Filling, FileEnds, More, Ends, Before
<1>5. EndInv(id)'
  BY <1>2, <1>3, <1>4 DEF EndInv
<1> QED
  BY <1>5, EndStep DEF StepOf

\* A job starts.
LEMMA StartEnds ==
  ASSUME FileTypeOK, FileTypeOK', FileInv, AllEnd, NEW id \in Jobs, StepOf(id), misplaced' = misplaced,
         \A i \in 1 .. Len(toWriter') :
             toWriter'[i].id = id => toWriter'[i].type \notin {"done", "digest", "block", "confirm"},
         \A i \in 1 .. Len(toReader') :
             toReader'[i].id = id /\ toReader'[i].type = "cancel" => write_jobs'[id] = NoJob,
         ~Open(id)'
  PROVE  AllEnd'
<1>1. Queued(toWriter', read_jobs'[id], Upload \/ write_jobs'[id] # NoJob, id)
  BY QueuedAlone DEF Owes
<1> QED
  BY <1>1, EndMade

\* Nothing is open: the job ends, or has nothing to write to.
LEMMA CloseEnds ==
  ASSUME FileTypeOK, FileTypeOK', FileInv, AllEnd, NEW id \in Jobs, StepOf(id), misplaced' = misplaced,
         \/ /\ toWriter' = toWriter /\ ~Upload /\ write_jobs'[id] = NoJob
            /\ read_jobs'[id] \in {read_jobs[id], NoJob}
         \/ toWriter # <<>> /\ toWriter' = Tail(toWriter) /\ read_jobs'[id] = read_jobs[id],
         write_jobs'[id] # NoJob => Upload \/ write_jobs[id] # NoJob,
         \A i \in 1 .. Len(toReader') :
             toReader'[i].id = id /\ toReader'[i].type = "cancel" => write_jobs'[id] = NoJob,
         ~Open(id)'
  PROVE  AllEnd'
<1>0. toWriter \in Seq(Messages) /\ Queued(toWriter, read_jobs[id], Upload \/ write_jobs[id] # NoJob, id)
  BY DEF FileTypeOK, AllEnd, EndInv
<1>1. CASE /\ toWriter' = toWriter /\ ~Upload /\ write_jobs'[id] = NoJob
           /\ read_jobs'[id] \in {read_jobs[id], NoJob}
  <2>1. Queued(toWriter', read_jobs'[id], Upload \/ write_jobs'[id] # NoJob, id)
    BY <1>0, <1>1 DEF Queued, DoneAfter, Rising
  <2> QED
    BY <2>1, EndMade
<1>2. CASE toWriter # <<>> /\ toWriter' = Tail(toWriter) /\ read_jobs'[id] = read_jobs[id]
  <2>1. (Upload \/ write_jobs'[id] # NoJob) => (Upload \/ write_jobs[id] # NoJob)
    OBVIOUS
  <2>2. Queued(Tail(toWriter), read_jobs[id], Upload \/ write_jobs'[id] # NoJob, id)
    BY <2>1, <1>0, <1>2, QueuedTaken
  <2> QED
    BY <2>2, <1>2, EndMade
<1> QED
  BY <1>1, <1>2

\* The job writes nothing, or goes on with the file it has open.
LEMMA KeepEnds ==
  ASSUME FileTypeOK, FileTypeOK', FileInv, AllEnd, NEW id \in Jobs, StepOf(id), misplaced' = misplaced,
         write_jobs[id] # NoJob, write_jobs'[id] # NoJob, read_jobs'[id] = read_jobs[id],
         Open(id)' => /\ write_jobs'[id].file_num = write_jobs[id].file_num
                      /\ write_jobs'[id].stream = write_jobs[id].stream,
         \/ toWriter' = toWriter
         \/ /\ toWriter # <<>> /\ toWriter' = Tail(toWriter) /\ Head(toWriter).id = id
            /\ Open(id)' => Head(toWriter).type \in {"dir", "digest", "confirm"},
         \/ toReader' = toReader
         \/ \E m \in Messages :
               /\ toReader' = Append(toReader, m) /\ m.id = id /\ m.type \in {"ask", "confirm"}
               /\ Open(id)' /\ (m.type = "ask" \/ m.offset = Skip) => m.file_num # write_jobs'[id].file_num,
         \A g \in FileNums : <<id, g>> \in asking' =>
             <<id, g>> \in asking \/ (Open(id)' => g # write_jobs'[id].file_num)
  PROVE  AllEnd'
<1>0. /\ toWriter \in Seq(Messages) /\ toReader \in Seq(Messages) /\ EndInv(id) /\ JobInv(id)
      /\ Queued(toWriter, read_jobs[id], Upload \/ write_jobs[id] # NoJob, id)
      /\ Markers' = Markers /\ transfer' = transfer /\ FileNums' = FileNums /\ Size' = Size
  BY TransferSame DEF FileTypeOK, AllEnd, EndInv, FileInv, StepOf
<1>1. Queued(toWriter', read_jobs'[id], Upload \/ write_jobs'[id] # NoJob, id)
  <2>1. CASE toWriter' = toWriter
    <3>1. (Upload \/ write_jobs[id] # NoJob) <=> (Upload \/ write_jobs'[id] # NoJob)
      OBVIOUS
    <3> QED
      BY <3>1, <2>1, <1>0 DEF Queued
  <2>2. CASE toWriter # <<>> /\ toWriter' = Tail(toWriter)
    <3>1. (Upload \/ write_jobs'[id] # NoJob) => (Upload \/ write_jobs[id] # NoJob)
      OBVIOUS
    <3>2. Queued(Tail(toWriter), read_jobs[id], Upload \/ write_jobs'[id] # NoJob, id)
      BY <3>1, <1>0, <2>2, QueuedTaken
    <3> QED
      BY <3>2, <2>2
  <2> QED
    BY <2>1, <2>2
<1>2. \A i \in 1 .. Len(toReader') :
         \/ i \in 1 .. Len(toReader) /\ toReader'[i] = toReader[i]
         \/ /\ toReader'[i].type \in {"ask", "confirm"}
            /\ Open(id)' /\ (toReader'[i].type = "ask" \/ toReader'[i].offset = Skip) =>
                  toReader'[i].file_num # write_jobs'[id].file_num
  <2>1. CASE toReader' = toReader
    BY <2>1
  <2>2. CASE toReader' # toReader
    <3>1. PICK m \in Messages :
               /\ toReader' = Append(toReader, m) /\ m.type \in {"ask", "confirm"}
               /\ Open(id)' /\ (m.type = "ask" \/ m.offset = Skip) => m.file_num # write_jobs'[id].file_num
      BY <2>2
    <3>2. /\ Len(toReader) \in Nat /\ Len(toReader') = Len(toReader) + 1
          /\ \A i \in 1 .. Len(toReader) : toReader'[i] = toReader[i]
          /\ toReader'[Len(toReader) + 1] = m
      BY <3>1, <1>0, AppendFacts
    <3>3. \A i \in 1 .. Len(toReader') : i \in 1 .. Len(toReader) \/ i = Len(toReader) + 1
      BY <3>2
    <3> QED
      BY <3>1, <3>2, <3>3
  <2> QED
    BY <2>1, <2>2
<1>3. ASSUME NEW i \in 1 .. Len(toReader'), toReader'[i].id = id
      PROVE  toReader'[i].type # "cancel"
  BY <1>0, <1>2, <1>3 DEF EndInv, Dropped
<1>4. ASSUME Open(id)'
      PROVE  FileEnds(write_jobs'[id].file_num, write_jobs'[id].stream, read_jobs'[id],
                      toWriter', toReader', asking', misplaced', id)
  <2> DEFINE f == write_jobs[id].file_num
             n == write_jobs[id].stream
             r == read_jobs[id]
  <2>1. /\ Open(id) /\ write_jobs'[id].file_num = f /\ write_jobs'[id].stream = n
        /\ read_jobs'[id] = r /\ misplaced' = misplaced
    BY <1>0, <1>4 DEF Open
  <2>2. FileEnds(f, n, r, toWriter, toReader, asking, misplaced, id)
    BY <2>1, <1>0, FileEndsNow
  <2> HIDE DEF f, n, r
  <2>3. <<id, f>> \notin asking'
    <3>1. asking' \subseteq Jobs \X FileNums
      BY <1>0 DEF FileTypeOK, Jobs
    <3>2. ASSUME <<id, f>> \in asking' PROVE f \in FileNums
      BY <3>1, <3>2
    <3> QED
      BY <3>2, <2>1, <2>2, <1>4 DEF FileEnds
  <2>4. \A i \in 1 .. Len(toReader') :
           toReader'[i].id = id
           /\ (toReader'[i].type = "ask" \/ (toReader'[i].type = "confirm" /\ toReader'[i].offset = Skip))
           => toReader'[i].file_num # f
    BY <1>2, <1>4, <2>1, <2>2 DEF FileEnds
  <2>5. CASE toWriter' = toWriter
    BY <2>1, <2>2, <2>3, <2>4, <2>5 DEF FileEnds
  <2>6. CASE /\ toWriter # <<>> /\ toWriter' = Tail(toWriter) /\ Head(toWriter).id = id
             /\ Head(toWriter).type \in {"dir", "digest", "confirm"}
    <3>1. /\ Len(toWriter) \in Nat \ {0} /\ Len(toWriter') = Len(toWriter) - 1
          /\ \A i \in 1 .. Len(toWriter) - 1 : toWriter'[i] = toWriter[i + 1]
      BY <1>0, <2>6, TailFacts
    <3>2. \A i \in 1 .. Len(toWriter') : i + 1 \in 1 .. Len(toWriter) /\ toWriter'[i] = toWriter[i + 1]
      BY <3>1
    <3>3. \A i \in 1 .. Len(toWriter') :
             toWriter'[i].id = id /\ toWriter'[i].type = "block" => f <= toWriter'[i].file_num
      BY <3>2, <2>2 DEF FileEnds
    <3>4. More(toWriter, r, id, f, Size[f], 1) => More(toWriter', r, id, f, Size[f], 1)
      <4>1. ~Ends(Head(toWriter), f, Size[f])
        BY <2>6 DEF Ends
      <4> QED
        BY <4>1, <2>6, <1>0, MoreTaken
    <3> QED
      BY <3>3, <3>4, <2>1, <2>2, <2>3, <2>4 DEF FileEnds
  <2> QED
    BY <2>5, <2>6, <1>4
<1> QED
  BY <1>1, <1>3, <1>4, EndMade

-----------------------------------------------------------------------------

\* The writer opens the file of the message it takes, or writes on in it.
LEMMA OpenEnds ==
  ASSUME FileTypeOK, FileTypeOK', FileInv, AllEnd, NEW id \in Jobs, StepOf(id),
         misplaced' = misplaced \/ Writing(id),
         toWriter # <<>>, toWriter' = Tail(toWriter), Head(toWriter).id = id,
         NEW f \in FileNums, Owes(Head(toWriter)), Head(toWriter).file_num = f,
         write_jobs[id] # NoJob, write_jobs'[id] # NoJob, read_jobs'[id] = read_jobs[id],
         write_jobs'[id].file_num = f,
         Ends(Head(toWriter), f, Size[f]) => f \in misplaced' \/ write_jobs'[id].stream >= Size[f],
         asking' = asking,
         \/ toReader' = toReader
         \/ \E m \in Messages : /\ toReader' = Append(toReader, m) /\ m.id = id
                                /\ m.type = "confirm" /\ m.offset # Skip
  PROVE  AllEnd'
<1> DEFINE r == read_jobs[id]
<1>0. /\ toWriter \in Seq(Messages) /\ toReader \in Seq(Messages) /\ EndInv(id) /\ JobInv(id) /\ KindInv
      /\ Queued(toWriter, r, Upload \/ write_jobs[id] # NoJob, id)
  BY DEF FileTypeOK, AllEnd, EndInv, FileInv
<1>1. /\ Len(toWriter) \in Nat \ {0} /\ 1 \in 1 .. Len(toWriter) /\ toWriter[1] = Head(toWriter)
      /\ \A i \in 1 .. Len(toWriter') : i + 1 \in 1 .. Len(toWriter) /\ toWriter'[i] = toWriter[i + 1]
                                         /\ 1 < i + 1
  <2>1. /\ Len(toWriter) \in Nat \ {0} /\ Len(toWriter') = Len(toWriter) - 1 /\ Head(toWriter) = toWriter[1]
        /\ \A i \in 1 .. Len(toWriter) - 1 : toWriter'[i] = toWriter[i + 1]
    BY <1>0, TailFacts
  <2> QED
    BY <2>1
<1>2. toWriter[1].id = id /\ toWriter[1].type \in {"digest", "block", "confirm"} /\ toWriter[1].file_num = f
  BY <1>1 DEF Owes
<1>3. /\ ~Asked(id)
      /\ \A k \in 1 .. Len(toReader) :
            toReader[k].id = id => toReader[k].type \notin {"send", "ask", "confirm"}
  <2>1. toWriter[1].type # "cancel"
    BY <1>2
  <2> QED
    BY <2>1, <1>0, <1>1, <1>2, NoTokens
<1>4. Queued(toWriter', read_jobs'[id], Upload \/ write_jobs'[id] # NoJob, id)
  <2>1. (Upload \/ write_jobs'[id] # NoJob) => (Upload \/ write_jobs[id] # NoJob)
    OBVIOUS
  <2>2. Queued(Tail(toWriter), r, Upload \/ write_jobs'[id] # NoJob, id)
    BY <2>1, <1>0, QueuedTaken
  <2> QED
    BY <2>2
<1>5. \A i \in 1 .. Len(toReader') :
         \/ i \in 1 .. Len(toReader) /\ toReader'[i] = toReader[i]
         \/ toReader'[i].type = "confirm" /\ toReader'[i].offset # Skip
  <2>1. CASE toReader' = toReader
    BY <2>1
  <2>2. CASE toReader' # toReader
    <3>1. PICK m \in Messages : toReader' = Append(toReader, m) /\ m.type = "confirm" /\ m.offset # Skip
      BY <2>2
    <3>2. /\ Len(toReader) \in Nat /\ Len(toReader') = Len(toReader) + 1
          /\ \A i \in 1 .. Len(toReader) : toReader'[i] = toReader[i]
          /\ toReader'[Len(toReader) + 1] = m
      BY <3>1, <1>0, AppendFacts
    <3>3. \A i \in 1 .. Len(toReader') : i \in 1 .. Len(toReader) \/ i = Len(toReader) + 1
      BY <3>2
    <3> QED
      BY <3>1, <3>2, <3>3
  <2> QED
    BY <2>1, <2>2
<1>6. ASSUME NEW i \in 1 .. Len(toReader'), toReader'[i].id = id
      PROVE  toReader'[i].type # "cancel"
  BY <1>0, <1>5, <1>6 DEF EndInv, Dropped
<1>7. \A i \in 1 .. Len(toReader') :
         toReader'[i].id = id
         /\ (toReader'[i].type = "ask" \/ (toReader'[i].type = "confirm" /\ toReader'[i].offset = Skip))
         => toReader'[i].file_num # f
  BY <1>3, <1>5
<1>8. \A i \in 1 .. Len(toWriter') :
         toWriter'[i].id = id /\ toWriter'[i].type = "block" => f <= toWriter'[i].file_num
  <2> SUFFICES ASSUME NEW i \in 1 .. Len(toWriter'), toWriter'[i].id = id, toWriter'[i].type = "block"
               PROVE  f <= toWriter'[i].file_num
    OBVIOUS
  <2>1. /\ i + 1 \in 1 .. Len(toWriter) /\ 1 < i + 1
        /\ toWriter[i + 1].id = id /\ toWriter[i + 1].type = "block" /\ toWriter'[i] = toWriter[i + 1]
    BY <1>1
  <2> DEFINE k == i + 1
  <2>2. k \in 1 .. Len(toWriter) /\ 1 < k /\ k > 1 /\ toWriter[k].id = id /\ toWriter[k].type = "block"
    BY <2>1
  <2> HIDE DEF k
  <2>3. CASE toWriter[1].type = "digest"
    BY <2>2, <2>3, <1>0, <1>1, <1>2 DEF JobInv, Digests
  <2>4. CASE toWriter[1].type \in {"block", "confirm"}
    <3>1. toWriter[1].file_num <= toWriter[k].file_num
      BY <2>2, <2>4, <1>0, <1>1, <1>2 DEF Queued, Rising
    <3> QED
      BY <3>1, <2>1, <1>2 DEF k
  <2> QED
    BY <2>3, <2>4, <1>2
<1>9. f \in misplaced' \/ write_jobs'[id].stream >= Size[f] \/ More(toWriter', r, id, f, Size[f], 1)
  <2>1. More(toWriter, r, id, f, Size[f], 1)
    BY <1>0, <1>1, <1>2 DEF Queued, Owed
  <2>2. CASE ~Ends(Head(toWriter), f, Size[f])
    BY <2>1, <2>2, <1>0, MoreTaken
  <2>3. CASE Ends(Head(toWriter), f, Size[f])
    BY <2>3
  <2> QED
    BY <2>2, <2>3
<1>10. <<id, f>> \notin asking'
  BY <1>3 DEF Asked
<1>11. FileEnds(write_jobs'[id].file_num, write_jobs'[id].stream, read_jobs'[id],
                toWriter', toReader', asking', misplaced', id)
  BY <1>7, <1>8, <1>9, <1>10 DEF FileEnds
<1> QED
  BY <1>4, <1>6, <1>11, EndMade

\* The reader is answered.
LEMMA AnswerEnds ==
  ASSUME FileTypeOK, FileTypeOK', FileInv, AllEnd, NEW id \in Jobs, StepOf(id), misplaced' = misplaced,
         write_jobs'[id] = write_jobs[id], Taken(toReader, toReader'),
         \A i \in 1 .. Len(toWriter) : toWriter[i].id = id => toWriter[i].type = "cancel",
         \/ toWriter' = toWriter
         \/ \E m \in Messages :
               /\ toWriter' = Append(toWriter, m) /\ m.id = id /\ m.type = "confirm"
               /\ m.offset # Skip => read_jobs'[id] # NoJob /\ read_jobs'[id].file_num = m.file_num,
         Open(id) /\ read_jobs[id] # NoJob /\ read_jobs[id].file_num = write_jobs[id].file_num =>
             read_jobs'[id] # NoJob /\ read_jobs'[id].file_num = read_jobs[id].file_num,
         \A g \in FileNums : <<id, g>> \in asking' =>
             <<id, g>> \in asking \/ (Open(id) => g # write_jobs[id].file_num)
  PROVE  AllEnd'
<1> DEFINE r == read_jobs[id]
           w == write_jobs[id]
           s == read_jobs'[id]
<1>0. /\ toWriter \in Seq(Messages) /\ toReader \in Seq(Messages) /\ EndInv(id)
      /\ Markers' = Markers /\ transfer' = transfer /\ FileNums' = FileNums
  BY TransferSame DEF FileTypeOK, AllEnd, StepOf
<1>1. \A i \in 1 .. Len(toWriter') : toWriter'[i].id = id =>
         \/ toWriter'[i].type = "cancel"
         \/ /\ toWriter'[i].type = "confirm"
            /\ toWriter'[i].offset # Skip => s # NoJob /\ s.file_num = toWriter'[i].file_num
  <2>1. CASE toWriter' = toWriter
    BY <2>1
  <2>2. CASE toWriter' # toWriter
    <3>1. PICK m \in Messages :
               /\ toWriter' = Append(toWriter, m) /\ m.type = "confirm"
               /\ m.offset # Skip => s # NoJob /\ s.file_num = m.file_num
      BY <2>2
    <3>2. /\ Len(toWriter) \in Nat /\ Len(toWriter') = Len(toWriter) + 1
          /\ \A i \in 1 .. Len(toWriter) : toWriter'[i] = toWriter[i]
          /\ toWriter'[Len(toWriter) + 1] = m
      BY <3>1, <1>0, AppendFacts
    <3>3. \A i \in 1 .. Len(toWriter') : i \in 1 .. Len(toWriter) \/ i = Len(toWriter) + 1
      BY <3>2
    <3> QED
      BY <3>1, <3>2, <3>3
  <2> QED
    BY <2>1, <2>2
<1>2. Queued(toWriter', s, Upload \/ write_jobs'[id] # NoJob, id)
  <2>1. \A i \in 1 .. Len(toWriter') : toWriter'[i].id = id =>
           /\ toWriter'[i].type \notin {"done", "block"}
           /\ Owes(toWriter'[i]) => s # NoJob /\ s.file_num = toWriter'[i].file_num
    BY <1>1 DEF Owes
  <2> QED
    BY <2>1, QueuedAlone
<1>3. PICK d \in {0, 1} :
         \A i \in 1 .. Len(toReader') : i + d \in 1 .. Len(toReader) /\ toReader'[i] = toReader[i + d]
  <2>1. toReader \in Seq(Messages) /\ Taken(toReader, toReader')
    BY <1>0
  <2>2. \E d \in {0, 1} :
           \A i \in 1 .. Len(toReader') : i + d \in 1 .. Len(toReader) /\ toReader'[i] = toReader[i + d]
    BY <2>1, TakenFacts
  <2> QED
    BY <2>2
<1>4. \A i \in 1 .. Len(toReader') :
         toReader'[i].id = id /\ toReader'[i].type = "cancel" => write_jobs'[id] = NoJob
  BY <1>0, <1>3 DEF EndInv, Dropped
<1>5. ASSUME Open(id)'
      PROVE  FileEnds(write_jobs'[id].file_num, write_jobs'[id].stream, read_jobs'[id],
                      toWriter', toReader', asking', misplaced', id)
  <2> DEFINE f == w.file_num
  <2>1. Open(id)
    BY <1>0, <1>5 DEF Open
  <2>2. FileEnds(f, w.stream, r, toWriter, toReader, asking, misplaced, id)
    BY <2>1, <1>0, FileEndsNow
  <2>3. <<id, f>> \notin asking'
    <3>1. asking' \subseteq Jobs \X FileNums
      BY <1>0 DEF FileTypeOK, Jobs
    <3>2. ASSUME <<id, f>> \in asking' PROVE f \in FileNums
      BY <3>1, <3>2
    <3> QED
      BY <3>2, <2>1, <2>2 DEF FileEnds
  <2>4. \A i \in 1 .. Len(toReader') :
           toReader'[i].id = id
           /\ (toReader'[i].type = "ask" \/ (toReader'[i].type = "confirm" /\ toReader'[i].offset = Skip))
           => toReader'[i].file_num # f
    BY <1>3, <2>2 DEF FileEnds
  <2>5. \A i \in 1 .. Len(toWriter') :
           toWriter'[i].id = id /\ toWriter'[i].type = "block" => f <= toWriter'[i].file_num
    BY <1>1
  <2>6. ASSUME More(toWriter, r, id, f, Size[f], 1) PROVE More(toWriter', s, id, f, Size[f], 1)
    <3>1. r # NoJob /\ r.file_num = f => s # NoJob /\ s.file_num = f
      BY <2>1
    <3> HIDE DEF f, r, s
    <3>2. 1 \in Nat \ {0}
      OBVIOUS
    <3>3. /\ \A m \in Messages : More(Append(toWriter, m), s, id, f, Size[f], 1)
          /\ toWriter' = toWriter => More(toWriter, s, id, f, Size[f], 1)
      <4>1. ASSUME NEW m \in Messages
            PROVE  More(Append(toWriter, m), s, id, f, Size[f], 1) /\ More(toWriter, s, id, f, Size[f], 1)
        BY <3>1, <3>2, <2>6, <1>0, MoreGrows
      <4>2. [type |-> "cancel", id |-> id] \in Messages
        BY MessageMade
      <4> QED
        BY <4>1, <4>2
    <3> QED
      BY <3>3
  <2> HIDE DEF f
  <2>7. FileEnds(f, w.stream, s, toWriter', toReader', asking', misplaced', id)
    BY <2>2, <2>3, <2>4, <2>5, <2>6 DEF FileEnds
  <2> QED
    BY <2>7 DEF f
<1> QED
  BY <1>2, <1>4, <1>5, EndMade

-----------------------------------------------------------------------------
(* Every action keeps it.                                                  *)

\* A message is added to a queue, or none.
LEMMA GrownFacts ==
  ASSUME NEW q \in Seq(Messages), NEW p, NEW m \in Messages, p = q \/ p = Append(q, m)
  PROVE  /\ \A i \in 1 .. Len(p) : (i \in 1 .. Len(q) /\ p[i] = q[i]) \/ p[i] = m
         /\ \A j : m.id = j => Moved(q, p, j)
<1>1. CASE p = q
  BY <1>1 DEF Moved
<1>2. CASE p = Append(q, m)
  <2>1. /\ Len(q) \in Nat /\ Len(p) = Len(q) + 1 /\ \A l \in 1 .. Len(q) : p[l] = q[l]
        /\ p[Len(q) + 1] = m
    BY <1>2, AppendFacts
  <2>2. \A i \in 1 .. Len(p) : i \in 1 .. Len(q) \/ i = Len(q) + 1
    BY <2>1
  <2>3. \A j : m.id = j => Moved(q, p, j)
    BY <1>2 DEF Moved
  <2> QED
    BY <2>1, <2>2, <2>3
<1> QED
  BY <1>1, <1>2

\* The user starts a job.
LEMMA StartedEnds ==
  ASSUME FileTypeOK, FileTypeOK', FileInv, AllEnd, NEW id \in Jobs, transfer' = transfer,
         OthersSame(id), asking' = asking, misplaced' = misplaced, Untouched(id), NEW m \in Messages,
         m.id = id, m.type \in {"receive", "send"},
         toReader' = toReader \/ toReader' = Append(toReader, m),
         toWriter' = toWriter \/ toWriter' = Append(toWriter, m),
         ~Open(id)'
  PROVE  AllEnd'
<1>1. toReader \in Seq(Messages) /\ toWriter \in Seq(Messages)
  BY DEF FileTypeOK
<1>2. /\ \A i \in 1 .. Len(toWriter') : (i \in 1 .. Len(toWriter) /\ toWriter'[i] = toWriter[i]) \/ toWriter'[i] = m
      /\ Moved(toWriter, toWriter', id)
  BY <1>1, GrownFacts
<1>3. /\ \A i \in 1 .. Len(toReader') : (i \in 1 .. Len(toReader) /\ toReader'[i] = toReader[i]) \/ toReader'[i] = m
      /\ Moved(toReader, toReader', id)
  BY <1>1, GrownFacts
<1>4. StepOf(id)
  BY <1>2, <1>3 DEF StepOf
<1>5. /\ \A i \in 1 .. Len(toWriter') :
            toWriter'[i].id = id => toWriter'[i].type \notin {"done", "digest", "block", "confirm"}
      /\ \A i \in 1 .. Len(toReader') :
            toReader'[i].id = id /\ toReader'[i].type = "cancel" => write_jobs'[id] = NoJob
  BY <1>2, <1>3 DEF Untouched, Mentions
<1> QED
  BY <1>4, <1>5, StartEnds

LEMMA SendFilesEnds ==
  ASSUME FileTypeOK, FileTypeOK', FileInv, AllEnd, SendFiles
  PROVE  AllEnd'
<1>1. started \in 0 .. MaxJobs /\ started < transfer.jobs /\ transfer.jobs \in 0 .. MaxJobs /\ MaxJobs \in Nat
  BY TransferFacts DEF SendFiles, FileTypeOK
<1>2. PICK id \in Jobs : id = started + 1
  BY <1>1 DEF Jobs
<1>3. /\ IF Upload
         THEN /\ read_jobs' = [read_jobs EXCEPT ![id] = NewRead(0, FALSE)]
              /\ toWriter' = Append(toWriter, [type |-> "receive", id |-> id, file_num |-> 0])
              /\ UNCHANGED <<write_jobs, toReader>>
         ELSE /\ write_jobs' = [write_jobs EXCEPT ![id] = NewWrite(0, FALSE)]
              /\ toReader' = Append(toReader, [type |-> "send", id |-> id, file_num |-> 0])
              /\ UNCHANGED <<read_jobs, toWriter>>
      /\ UNCHANGED <<asking, transfer, misplaced>>
  BY <1>2 DEF SendFiles, PushRead, PushWrite, SendWriter, SendReader, writeVars, readVars, boundVars
<1>4. write_jobs[id] = NoJob /\ Untouched(id)
  <2>1. id > started
    BY <1>1, <1>2
  <2> QED
    BY <2>1 DEF FileInv, JobInv, Fresh
<1>5. 0 \in 0 .. N /\ FALSE \in BOOLEAN
  BY TransferFacts DEF FileTypeOK
<1>6. OthersSame(id)
  BY <1>3 DEF OthersSame, FileTypeOK
<1>7. ~Open(id)'
  <2>1. CASE Upload
    BY <2>1, <1>3, <1>4 DEF Open
  <2>2. CASE ~Upload
    <3>1. NewWrite(0, FALSE).stream = None
      BY <1>5, NewFacts
    <3>2. write_jobs'[id] = NewWrite(0, FALSE)
      BY <2>2, <1>3 DEF FileTypeOK
    <3> QED
      BY <3>1, <3>2 DEF Open
  <2> QED
    BY <2>1, <2>2
<1> DEFINE m == [type |-> IF Upload THEN "receive" ELSE "send", id |-> id, file_num |-> 0]
<1>8. m \in Messages /\ m.id = id /\ m.type \in {"receive", "send"}
  BY <1>5, MessageMade
<1>9. /\ toReader' = toReader \/ toReader' = Append(toReader, m)
      /\ toWriter' = toWriter \/ toWriter' = Append(toWriter, m)
  BY <1>3
<1> HIDE DEF m
<1> QED
  BY <1>3, <1>4, <1>6, <1>7, <1>8, <1>9, StartedEnds

LEMMA ResumeJobEnds ==
  ASSUME FileTypeOK, FileTypeOK', FileInv, AllEnd, NEW id \in Jobs, ResumeJob(id)
  PROVE  AllEnd'
<1>1. UNCHANGED <<asking, transfer, misplaced>>
  BY DEF ResumeJob, uiVars, boundVars
<1>2. JobInv(id)
  BY DEF FileInv
<1>3. CASE Upload
  <2> DEFINE r == read_jobs[id]
             m == [type |-> "receive", id |-> id, file_num |-> r.file_num]
  <2>1. /\ r # NoJob /\ r.is_last_job
        /\ read_jobs' = [read_jobs EXCEPT ![id] = [r EXCEPT !.is_last_job = FALSE, !.is_resume = TRUE]]
        /\ toWriter' = Append(toWriter, m) /\ UNCHANGED <<write_jobs, toReader>>
    BY <1>3 DEF ResumeJob, SetRead, SendWriter, writeVars
  <2>2. r \in ReadJobs(transfer)
    BY <2>1 DEF FileTypeOK
  <2>3. write_jobs[id] = NoJob /\ Untouched(id)
    BY <2>1, <1>2 DEF JobInv, Fresh
  <2>4. m \in Messages /\ m.id = id /\ m.type \in {"receive", "send"}
    BY <2>2, ReadFacts, MessageMade
  <2> HIDE DEF m
  <2>5. OthersSame(id) /\ ~Open(id)'
    BY <2>1, <2>3 DEF OthersSame, FileTypeOK, Open
  <2> QED
    BY <2>1, <2>3, <2>4, <2>5, <1>1, StartedEnds
<1>4. CASE ~Upload
  <2> DEFINE w == write_jobs[id]
             s == [w EXCEPT !.is_last_job = FALSE, !.is_resume = TRUE]
             m == [type |-> "send", id |-> id, file_num |-> w.file_num]
  <2>1. /\ w # NoJob /\ w.is_last_job /\ write_jobs' = [write_jobs EXCEPT ![id] = s]
        /\ toReader' = Append(toReader, m) /\ UNCHANGED <<read_jobs, toWriter>>
    BY <1>4 DEF ResumeJob, SetWrite, SendReader, readVars
  <2>2. w \in WriteJobs(transfer)
    BY <2>1 DEF FileTypeOK
  <2>3. Untouched(id) /\ w.stream = None
    BY <2>1, <1>2 DEF JobInv, Fresh
  <2>4. s.stream = None
    BY <2>2, <2>3 DEF WriteJobs
  <2>5. m \in Messages /\ m.id = id /\ m.type \in {"receive", "send"}
    BY <2>2, WriteFacts, MessageMade
  <2> HIDE DEF s, m
  <2>6. OthersSame(id) /\ ~Open(id)'
    BY <2>1, <2>4 DEF OthersSame, FileTypeOK, Open
  <2> QED
    BY <2>1, <2>3, <2>5, <2>6, <1>1, StartedEnds
<1> QED
  BY <1>3, <1>4

LEMMA OnSendEnds ==
  ASSUME FileTypeOK, FileTypeOK', FileInv, AllEnd, OnSend
  PROVE  AllEnd'
<1>0. toReader # <<>> /\ Head(toReader).type = "send"
  BY DEF OnSend, FromWriter
<1>1. PICK id \in Jobs : id = Head(toReader).id
  BY <1>0, ReaderHead
<1>2. /\ toReader' = Tail(toReader) /\ UNCHANGED <<write_jobs, transfer, asking, misplaced>>
      /\ \E t \in {"dir", "error"} : toWriter' = Append(toWriter, [type |-> t, id |-> id])
      /\ \A j \in Jobs : j # id => read_jobs'[j] = read_jobs[j]
  BY <1>1 DEF OnSend, TakenByReader, SendWriter, PushRead, writeVars, readVars, uiVars, boundVars,
              historyVars, FileTypeOK
<1>3. PICK t \in {"dir", "error"} : toWriter' = Append(toWriter, [type |-> t, id |-> id])
  BY <1>2
<1> DEFINE m == [type |-> t, id |-> id]
<1>4. m \in Messages /\ m.id = id /\ m.type \in {"dir", "error"} /\ toWriter' = Append(toWriter, m)
  BY <1>3, MessageMade
<1> HIDE DEF m
<1>5. JobInv(id) /\ EndInv(id) /\ toReader \in Seq(Messages) /\ toWriter \in Seq(Messages)
  BY DEF FileInv, AllEnd, FileTypeOK
<1>6. 1 \in 1 .. Len(toReader) /\ toReader[1] = Head(toReader) /\ Taken(toReader, toReader')
      /\ Moved(toReader, toReader', id)
  BY <1>0, <1>1, <1>2, ReaderHead
<1>7. ~Mentions(toWriter, id) /\ (write_jobs[id] # NoJob => write_jobs[id].stream = None)
  BY <1>0, <1>1, <1>5, <1>6 DEF JobInv, Sends
<1>8. /\ \A i \in 1 .. Len(toWriter') : (i \in 1 .. Len(toWriter) /\ toWriter'[i] = toWriter[i]) \/ toWriter'[i] = m
      /\ Moved(toWriter, toWriter', id)
  <2>1. toWriter \in Seq(Messages) /\ m \in Messages /\ m.id = id /\ toWriter' = Append(toWriter, m)
    BY <1>4, <1>5
  <2>2. /\ \A i \in 1 .. Len(toWriter') :
              (i \in 1 .. Len(toWriter) /\ toWriter'[i] = toWriter[i]) \/ toWriter'[i] = m
        /\ \A j : m.id = j => Moved(toWriter, toWriter', j)
    BY <2>1, GrownFacts
  <2> QED
    BY <2>1, <2>2
<1>9. StepOf(id)
  BY <1>2, <1>6, <1>8 DEF StepOf, OthersSame
<1>10. \A i \in 1 .. Len(toWriter') :
          toWriter'[i].id = id => toWriter'[i].type \notin {"done", "digest", "block", "confirm"}
  BY <1>4, <1>7, <1>8 DEF Mentions
<1>11. \A i \in 1 .. Len(toReader') :
          toReader'[i].id = id /\ toReader'[i].type = "cancel" => write_jobs'[id] = NoJob
  <2>1. PICK d \in {0, 1} :
           \A i \in 1 .. Len(toReader') : i + d \in 1 .. Len(toReader) /\ toReader'[i] = toReader[i + d]
    BY <1>5, <1>6, TakenFacts
  <2> QED
    BY <2>1, <1>2, <1>5 DEF EndInv, Dropped
<1>12. ~Open(id)'
  BY <1>2, <1>7 DEF Open
<1> QED
  BY <1>2, <1>9, <1>10, <1>11, <1>12, StartEnds

LEMMA OnCancelReadEnds ==
  ASSUME FileTypeOK, FileTypeOK', FileInv, AllEnd, OnCancelRead
  PROVE  AllEnd'
<1>0. toReader # <<>> /\ Head(toReader).type = "cancel"
  BY DEF OnCancelRead, FromWriter
<1>1. PICK id \in Jobs : id = Head(toReader).id
  BY <1>0, ReaderHead
<1>2. /\ toReader' = Tail(toReader) /\ read_jobs' = [read_jobs EXCEPT ![id] = NoJob]
      /\ UNCHANGED <<write_jobs, toWriter, asking, transfer, misplaced>>
  BY <1>1 DEF OnCancelRead, TakenByReader, RemoveRead, writeVars, uiVars, boundVars, historyVars
<1>3. EndInv(id) /\ toReader \in Seq(Messages) /\ toWriter \in Seq(Messages)
  BY DEF AllEnd, FileTypeOK
<1>4. /\ 1 \in 1 .. Len(toReader) /\ toReader[1] = Head(toReader) /\ Moved(toReader, toReader', id)
      /\ Moved(toWriter, toWriter', id)
  BY <1>0, <1>1, <1>2, ReaderHead DEF Moved
<1>5. write_jobs'[id] = NoJob
  BY <1>0, <1>1, <1>2, <1>3, <1>4 DEF EndInv, Dropped
<1>6. ~Upload
  BY <1>0, ReaderHead DEF ReaderKinds
<1>7. read_jobs'[id] = NoJob /\ StepOf(id)
  BY <1>2, <1>4 DEF StepOf, OthersSame, FileTypeOK
<1>8. ~Open(id)'
  BY <1>5 DEF Open
<1> QED
  BY <1>2, <1>5, <1>6, <1>7, <1>8, CloseEnds

LEMMA CancelJobEnds ==
  ASSUME FileTypeOK, FileTypeOK', FileInv, AllEnd, NEW id \in Jobs, CancelJob(id)
  PROVE  AllEnd'
<1> DEFINE m == [type |-> "cancel", id |-> id]
<1>1. asking' = {a \in asking : a[1] # id} /\ UNCHANGED <<transfer, misplaced>>
  BY DEF CancelJob, boundVars, historyVars
<1>2. asking' \subseteq asking
  BY <1>1
<1>3. m \in Messages /\ m.id = id /\ m.type = "cancel"
  BY MessageMade
<1> HIDE DEF m
<1>4. toReader \in Seq(Messages) /\ toWriter \in Seq(Messages)
  BY DEF FileTypeOK
<1>5. CASE Upload
  <2>1. /\ read_jobs[id] # NoJob /\ read_jobs' = [read_jobs EXCEPT ![id] = NoJob]
        /\ toWriter' = Append(toWriter, m) /\ UNCHANGED <<write_jobs, toReader>>
    BY <1>5 DEF CancelJob, RemoveRead, SendWriter, writeVars, m
  <2>2. OthersSame(id)
    BY <2>1 DEF OthersSame, FileTypeOK
  <2>3. Ends(m, read_jobs[id].file_num, Size[read_jobs[id].file_num])
    BY <1>3 DEF Ends
  <2> QED
    BY <2>1, <2>2, <2>3, <1>1, <1>2, <1>3, EmitEnds
<1>6. CASE ~Upload
  <2>1. /\ write_jobs' = [write_jobs EXCEPT ![id] = NoJob]
        /\ toReader' = Append(toReader, m) /\ UNCHANGED <<read_jobs, toWriter>>
    BY <1>6 DEF CancelJob, RemoveWrite, SendReader, readVars, m
  <2>2. OthersSame(id) /\ write_jobs'[id] = NoJob
    BY <2>1 DEF OthersSame, FileTypeOK
  <2>3. StepOf(id)
    BY <2>1, <2>2, <1>1, <1>2, <1>3 DEF StepOf, Moved
  <2>4. ~Open(id)'
    BY <2>2 DEF Open
  <2> QED
    BY <2>1, <2>2, <2>3, <2>4, <1>1, <1>6, CloseEnds
<1> QED
  BY <1>5, <1>6

-----------------------------------------------------------------------------

\* The reader stays at the file it is told to send.
LEMMA ReadStays ==
  ASSUME NEW r \in ReadJobs(transfer), NEW offset, offset # Skip
  PROVE  ConfirmRead(r, r.file_num, offset).file_num = r.file_num
<1>1. CASE offset > 0
  BY <1>1 DEF ConfirmRead, ReadJobs
<1>2. CASE ~(offset > 0)
  BY <1>2 DEF ConfirmRead, ReadJobs
<1> QED
  BY <1>1, <1>2

LEMMA OnConfirmReadEnds ==
  ASSUME FileTypeOK, FileTypeOK', FileInv, AllEnd, OnConfirmRead
  PROVE  AllEnd'
<1>0. toReader # <<>> /\ Head(toReader).type = "confirm"
  BY DEF OnConfirmRead, FromWriter
<1>1. PICK id \in Jobs : id = Head(toReader).id
  BY <1>0, ReaderHead
<1>2. PICK f \in FileNums : f = Head(toReader).file_num
  BY <1>0, ReaderHead, MessageFacts
<1>3. PICK offset \in Nat \cup {Skip} : offset = Head(toReader).offset
  BY <1>0, ReaderHead, MessageFacts
<1> DEFINE r == read_jobs[id]
           s == ConfirmRead(r, f, offset)
<1>4. /\ toReader' = Tail(toReader) /\ UNCHANGED <<write_jobs, toWriter, asking, transfer, misplaced>>
      /\ read_jobs' = IF r = NoJob THEN read_jobs ELSE [read_jobs EXCEPT ![id] = s]
  BY <1>1, <1>2, <1>3 DEF OnConfirmRead, TakenByReader, SetRead, writeVars, readVars, uiVars, boundVars,
                          historyVars
<1>5. JobInv(id) /\ KindInv /\ EndInv(id)
  BY DEF FileInv, AllEnd
<1>6. /\ 1 \in 1 .. Len(toReader) /\ toReader[1] = Head(toReader) /\ Taken(toReader, toReader')
      /\ Moved(toReader, toReader', id) /\ Moved(toWriter, toWriter', id)
  BY <1>0, <1>1, <1>4, ReaderHead DEF Moved
<1>7. AnswerComes(id, f)
  BY <1>0, <1>1, <1>2, <1>4 DEF AnswerComes
<1>8. /\ r # NoJob => r.file_num = f
      /\ \A i \in 1 .. Len(toWriter) : toWriter[i].id = id => toWriter[i].type = "cancel"
  BY <1>4, <1>5, <1>7, AnswerFacts
<1>9. r # NoJob => r \in ReadJobs(transfer)
  BY DEF FileTypeOK
<1>10. r # NoJob => read_jobs'[id] = s /\ s # NoJob
  <2>1. ASSUME r # NoJob PROVE s # NoJob
    BY <2>1, <1>9, ConfirmReadFacts, ReadFacts
  <2> QED
    BY <2>1, <1>4 DEF FileTypeOK
<1>11. Open(id) /\ r # NoJob /\ r.file_num = write_jobs[id].file_num =>
          read_jobs'[id] # NoJob /\ read_jobs'[id].file_num = r.file_num
  <2> SUFFICES ASSUME Open(id), r # NoJob, r.file_num = write_jobs[id].file_num
               PROVE  read_jobs'[id] # NoJob /\ read_jobs'[id].file_num = r.file_num
    OBVIOUS
  <2>1. offset # Skip
    BY <1>0, <1>1, <1>2, <1>3, <1>5, <1>6, <1>8 DEF EndInv, Unasked
  <2>2. ConfirmRead(r, r.file_num, offset).file_num = r.file_num
    BY <2>1, <1>9, ReadStays
  <2>3. s.file_num = f
    BY <2>2, <1>8
  <2> QED
    BY <2>3, <1>8, <1>10
<1> HIDE DEF s
<1>12. StepOf(id)
  BY <1>4, <1>6 DEF StepOf, OthersSame
<1> QED
  BY <1>4, <1>6, <1>8, <1>11, <1>12, AnswerEnds

LEMMA OnAskEnds ==
  ASSUME FileTypeOK, FileTypeOK', FileInv, AllEnd, OnAsk
  PROVE  AllEnd'
<1> DEFINE m == Head(toReader)
<1>0. toReader # <<>> /\ m.type = "ask"
  BY DEF OnAsk, FromWriter
<1>1. PICK id \in Jobs : id = m.id
  BY <1>0, ReaderHead
<1>2. PICK f \in FileNums : f = m.file_num
  BY <1>0, ReaderHead, MessageFacts
<1>3. PICK t \in Nat : t = m.transferred
  BY <1>0, ReaderHead, MessageFacts
<1> DEFINE r == read_jobs[id]
           resume == t > 0 /\ r.is_resume
           offset == IF resume THEN OffsetOf(t) ELSE Answer(r.strategy)
           s == ConfirmRead(r, f, offset)
           c == ConfirmMessage(id, f, offset)
<1>4. /\ toReader' = Tail(toReader) /\ UNCHANGED <<write_jobs, transfer, misplaced>>
      /\ IF r = NoJob THEN UNCHANGED <<read_jobs, toWriter, asking>>
         ELSE IF ~resume /\ r.strategy = "ask"
         THEN asking' = asking \cup {<<id, f>>} /\ UNCHANGED <<read_jobs, toWriter>>
         ELSE /\ read_jobs' = [read_jobs EXCEPT ![id] = s]
              /\ toWriter' = Append(toWriter, c) /\ UNCHANGED asking
  BY <1>1, <1>2, <1>3 DEF OnAsk, TakenByReader, SendWriter, SetRead, writeVars, readVars, boundVars
<1>5. JobInv(id) /\ KindInv /\ EndInv(id) /\ toWriter \in Seq(Messages)
  BY DEF FileInv, AllEnd, FileTypeOK
<1>6. /\ 1 \in 1 .. Len(toReader) /\ toReader[1] = Head(toReader) /\ Taken(toReader, toReader')
      /\ Moved(toReader, toReader', id)
  BY <1>0, <1>1, <1>4, ReaderHead
<1>7. /\ r # NoJob => r.file_num = f
      /\ \A i \in 1 .. Len(toWriter) : toWriter[i].id = id => toWriter[i].type = "cancel"
  <2>1. \E i \in 1 .. Len(toReader) :
           /\ toReader[i].id = id /\ toReader[i].type \in {"ask", "confirm"}
           /\ toReader[i].file_num = f
    BY <1>0, <1>1, <1>2, <1>6
  <2> QED
    BY <2>1, <1>5, TokenFacts
<1>8. Open(id) => f # write_jobs[id].file_num
  BY <1>0, <1>1, <1>2, <1>5, <1>6 DEF EndInv, Unasked
<1>9. r # NoJob => r \in ReadJobs(transfer)
  BY DEF FileTypeOK
<1>10. offset \in Nat \cup {Skip}
  BY OffsetFacts DEF Answer
<1> HIDE DEF resume, offset
<1>11. c \in Messages /\ c.id = id /\ c.type = "confirm" /\ c.file_num = f /\ c.offset = offset
  <2>1. c \in Messages
    BY <1>10, MessageMade
  <2> QED
    BY <2>1 DEF ConfirmMessage
<1>12. r # NoJob => s # NoJob /\ (offset # Skip => s.file_num = f)
  <2>1. ASSUME r # NoJob PROVE s # NoJob
    BY <2>1, <1>9, <1>10, ConfirmReadFacts, ReadFacts
  <2>2. ASSUME r # NoJob, offset # Skip PROVE s.file_num = f
    <3>1. ConfirmRead(r, r.file_num, offset).file_num = r.file_num
      BY <2>2, <1>9, ReadStays
    <3> QED
      BY <3>1, <2>2, <1>7
  <2> QED
    BY <2>1, <2>2
<1> HIDE DEF s, c, m
<1>13. /\ Moved(toWriter, toWriter', id) /\ OthersSame(id)
       /\ \A j \in Jobs : \A g \in FileNums : <<j, g>> \in asking' => <<j, g>> \in asking \/ (j = id /\ g = f)
  <2>1. Moved(toWriter, toWriter', id)
    BY <1>4, <1>11 DEF Moved
  <2>2. OthersSame(id)
    BY <1>4 DEF OthersSame, FileTypeOK
  <2>3. \A j \in Jobs : \A g \in FileNums : <<j, g>> \in asking' => <<j, g>> \in asking \/ (j = id /\ g = f)
    BY <1>4
  <2> QED
    BY <2>1, <2>2, <2>3
<1>14. StepOf(id)
  BY <1>4, <1>6, <1>13 DEF StepOf
<1>15. \/ toWriter' = toWriter
       \/ /\ toWriter' = Append(toWriter, c)
          /\ c.offset # Skip => read_jobs'[id] # NoJob /\ read_jobs'[id].file_num = c.file_num
  <2>1. ASSUME toWriter' # toWriter
        PROVE  r # NoJob /\ toWriter' = Append(toWriter, c) /\ read_jobs'[id] = s
    BY <2>1, <1>4 DEF FileTypeOK
  <2> QED
    BY <2>1, <1>11, <1>12
<1>16. Open(id) /\ r # NoJob /\ r.file_num = write_jobs[id].file_num =>
          read_jobs'[id] # NoJob /\ read_jobs'[id].file_num = r.file_num
  BY <1>7, <1>8
<1>17. \A g \in FileNums : <<id, g>> \in asking' =>
           <<id, g>> \in asking \/ (Open(id) => g # write_jobs[id].file_num)
  BY <1>8, <1>13
<1>18. \/ toWriter' = toWriter
       \/ \E k \in Messages :
             /\ toWriter' = Append(toWriter, k) /\ k.id = id /\ k.type = "confirm"
             /\ k.offset # Skip => read_jobs'[id] # NoJob /\ read_jobs'[id].file_num = k.file_num
  BY <1>11, <1>15
<1> QED
  BY <1>4, <1>6, <1>7, <1>14, <1>16, <1>17, <1>18, AnswerEnds

LEMMA AnswerDialogEnds ==
  ASSUME FileTypeOK, FileTypeOK', FileInv, AllEnd, NEW id \in Jobs, NEW f \in FileNums,
         NEW strategy \in {"overwrite", "skip"}, NEW remember \in BOOLEAN,
         AnswerDialog(id, f, strategy, remember)
  PROVE  AllEnd'
<1> DEFINE offset == Answer(strategy)
           Remembered(job) == IF remember THEN [job EXCEPT !.strategy = strategy] ELSE job
<1>1. /\ <<id, f>> \in asking /\ asking' = asking \ {<<id, f>>}
      /\ UNCHANGED <<toWriter, transfer, misplaced>>
  BY DEF AnswerDialog, boundVars
<1>2. JobInv(id) /\ KindInv /\ EndInv(id) /\ toReader \in Seq(Messages)
  BY DEF FileInv, AllEnd, FileTypeOK
<1>3. offset \in Nat \cup {Skip} /\ (offset = 0 \/ offset = Skip)
  BY DEF Answer
<1>4. /\ read_jobs[id] # NoJob => read_jobs[id].file_num = f
      /\ \A i \in 1 .. Len(toWriter) : toWriter[i].id = id => toWriter[i].type = "cancel"
  BY <1>1, <1>2, TokenFacts
<1>5. Open(id) => f # write_jobs[id].file_num
  BY <1>1, <1>2 DEF EndInv, Unasked
<1>6. CASE Upload
  <2>1. /\ UNCHANGED <<write_jobs, toReader>>
        /\ \E s : read_jobs' = [read_jobs EXCEPT ![id] = s]
    BY <1>6 DEF AnswerDialog, SetRead, writeVars
  <2>2. OthersSame(id)
    BY <2>1 DEF OthersSame, FileTypeOK
  <2>3. StepOf(id) /\ Taken(toReader, toReader')
    BY <2>1, <2>2, <1>1 DEF StepOf, Moved, Taken
  <2> QED
    BY <2>1, <2>3, <1>1, <1>4, <1>5, AnswerEnds
<1>7. CASE ~Upload
  <2> DEFINE w == write_jobs[id]
             s == ConfirmWrite(Remembered(w), f, offset)
             m == ConfirmMessage(id, f, offset)
  <2>1. /\ w # NoJob /\ write_jobs' = [write_jobs EXCEPT ![id] = s]
        /\ toReader' = Append(toReader, m) /\ UNCHANGED read_jobs
    BY <1>7 DEF AnswerDialog, readVars, SendReader, SetWrite
  <2>2. w \in WriteJobs(transfer)
    BY <2>1 DEF FileTypeOK
  <2>3. /\ Remembered(w) \in WriteJobs(transfer) /\ Remembered(w).file_num = w.file_num
        /\ Remembered(w).stream = w.stream
    BY <2>2 DEF WriteJobs, Strategies
  <2> HIDE DEF offset, Remembered
  <2>4. /\ s \in WriteJobs(transfer)
        /\ \/ s.file_num = w.file_num /\ s.stream = w.stream
           \/ s.stream = None
    <3>1. ~(offset \in Nat /\ offset > 0)
      BY <1>3 DEF Skip
    <3>2. \A x \in WriteJobs(transfer) :
             /\ ConfirmWrite(x, f, offset) \in WriteJobs(transfer)
             /\ \/ /\ ConfirmWrite(x, f, offset).file_num = x.file_num
                   /\ ConfirmWrite(x, f, offset).stream = x.stream
                \/ ConfirmWrite(x, f, offset).stream = None
                \/ offset \in Nat /\ offset > 0
      <4> HIDE DEF s, m, w
      <4> QED
        BY <1>3, ConfirmWriteFacts
    <3>3. s = ConfirmWrite(Remembered(w), f, offset)
      OBVIOUS
    <3> HIDE DEF s
    <3> QED
      BY <3>1, <3>2, <3>3, <2>3
  <2>5. m \in Messages /\ m.id = id /\ m.type = "confirm" /\ m.file_num = f
    <3>1. m \in Messages
      BY <1>3, MessageMade
    <3> QED
      BY <3>1 DEF ConfirmMessage
  <2> HIDE DEF s, m
  <2>6. write_jobs'[id] = s /\ s # NoJob /\ OthersSame(id)
    BY <2>1, <2>4, WriteFacts DEF FileTypeOK, OthersSame
  <2>7. StepOf(id)
    BY <2>1, <2>5, <2>6, <1>1 DEF StepOf, Moved
  <2>8. Open(id)' => /\ write_jobs'[id].file_num = w.file_num /\ write_jobs'[id].stream = w.stream
                     /\ f # write_jobs'[id].file_num
    <3>1. Markers' = Markers
      BY <1>1, TransferSame
    <3> QED
      BY <3>1, <2>1, <2>4, <2>6, <1>5 DEF Open
  <2>9. \/ toReader' = toReader
        \/ \E k \in Messages :
              /\ toReader' = Append(toReader, k) /\ k.id = id /\ k.type \in {"ask", "confirm"}
              /\ Open(id)' /\ (k.type = "ask" \/ k.offset = Skip) => k.file_num # write_jobs'[id].file_num
    BY <2>1, <2>5, <2>8
  <2>10. \A g \in FileNums : <<id, g>> \in asking' =>
             <<id, g>> \in asking \/ (Open(id)' => g # write_jobs'[id].file_num)
    BY <1>1
  <2> QED
    BY <2>1, <2>6, <2>7, <2>8, <2>9, <2>10, <1>1, KeepEnds
<1> QED
  BY <1>6, <1>7

-----------------------------------------------------------------------------

\* The writer takes a message, and its job has no file open then.
LEMMA ClosedEnds ==
  ASSUME FileTypeOK, FileTypeOK', FileInv, AllEnd, NEW id \in Jobs, toWriter # <<>>,
         Head(toWriter).id = id, TakenByWriter, NEW s, write_jobs' = [write_jobs EXCEPT ![id] = s],
         UNCHANGED <<toReader, asking, misplaced>>,
         s # NoJob => /\ s.stream = None /\ (Upload \/ write_jobs[id] # NoJob)
                      /\ write_jobs[id] # NoJob \/ ~Mentions(toReader, id)
  PROVE  AllEnd'
<1>1. toWriter' = Tail(toWriter) /\ UNCHANGED <<read_jobs, transfer>>
  BY DEF TakenByWriter, readVars, boundVars
<1>2. write_jobs'[id] = s /\ OthersSame(id)
  BY <1>1 DEF OthersSame, FileTypeOK
<1>3. EndInv(id)
  BY DEF AllEnd
<1>4. StepOf(id)
  BY <1>1, <1>2 DEF StepOf, Moved
<1>5. \A i \in 1 .. Len(toReader') :
         toReader'[i].id = id /\ toReader'[i].type = "cancel" => write_jobs'[id] = NoJob
  BY <1>2, <1>3 DEF EndInv, Dropped, Mentions
<1>6. ~Open(id)'
  BY <1>2 DEF Open
<1> QED
  BY <1>1, <1>2, <1>4, <1>5, <1>6, CloseEnds

\* A message for a job that writes no more.
LEMMA WriterDeaf ==
  ASSUME FileTypeOK, FileTypeOK', FileInv, AllEnd, toWriter # <<>>, TakenByWriter,
         write_jobs[Head(toWriter).id] = NoJob, write_jobs' = write_jobs,
         UNCHANGED <<toReader, asking, misplaced>>
  PROVE  AllEnd'
<1>1. PICK id \in Jobs : id = Head(toWriter).id
  BY WriterHead
<1>2. write_jobs' = [write_jobs EXCEPT ![id] = NoJob]
  BY <1>1 DEF FileTypeOK
<1> QED
  BY <1>1, <1>2, ClosedEnds

LEMMA RemovedEnds ==
  ASSUME FileTypeOK, FileTypeOK', FileInv, AllEnd, OnDone \/ OnError \/ OnCancelWrite
  PROVE  AllEnd'
<1>1. /\ toWriter # <<>> /\ TakenByWriter /\ UNCHANGED <<toReader, asking, misplaced>>
      /\ write_jobs' = [write_jobs EXCEPT ![Head(toWriter).id] = NoJob]
  BY DEF OnDone, OnError, OnCancelWrite, FromReader, RemoveWrite, historyVars
<1>2. PICK id \in Jobs : id = Head(toWriter).id
  BY <1>1, WriterHead
<1> QED
  BY <1>1, <1>2, ClosedEnds

LEMMA OnReceiveEnds ==
  ASSUME FileTypeOK, FileTypeOK', FileInv, AllEnd, OnReceive
  PROVE  AllEnd'
<1>0. toWriter # <<>> /\ Head(toWriter).type = "receive" /\ TakenByWriter
  BY DEF OnReceive, FromReader
<1>1. PICK id \in Jobs : id = Head(toWriter).id
  BY <1>0, WriterHead
<1>2. PICK f \in 0 .. N : f = Head(toWriter).file_num
  BY <1>0, WriterHead, MessageFacts
<1> DEFINE s == NewWrite(f, FALSE)
<1>3. /\ write_jobs' = [write_jobs EXCEPT ![id] = s]
      /\ UNCHANGED <<toReader, asking, misplaced>>
  BY <1>1, <1>2 DEF OnReceive, PushWrite, historyVars
<1>4. s.stream = None
  BY NewFacts
<1> HIDE DEF s
<1>5. Upload /\ ~Mentions(toReader, id)
  <2>1. JobInv(id) /\ 1 \in 1 .. Len(toWriter) /\ toWriter[1].id = id /\ toWriter[1].type = "receive" /\ Upload
    BY <1>0, <1>1, WriterHead DEF FileInv, WriterKinds
  <2> QED
    BY <2>1 DEF JobInv, Receives
<1> QED
  BY <1>0, <1>1, <1>3, <1>4, <1>5, ClosedEnds

\* The writer takes a message, and goes on with the file it has open, if any.
LEMMA GoneOnEnds ==
  ASSUME FileTypeOK, FileTypeOK', FileInv, AllEnd, NEW id \in Jobs, toWriter # <<>>,
         Head(toWriter).id = id, TakenByWriter, write_jobs[id] # NoJob,
         NEW s, s # NoJob, write_jobs' = [write_jobs EXCEPT ![id] = s], misplaced' = misplaced,
         \/ /\ s.file_num = write_jobs[id].file_num /\ s.stream = write_jobs[id].stream
            /\ Head(toWriter).type \in {"dir", "digest", "confirm"}
         \/ s.stream = None \/ s.file_num \in Markers,
         \/ toReader' = toReader /\ asking' = asking
         \/ /\ Head(toWriter).type = "digest"
            /\ \/ toReader' = toReader /\ asking' = asking \cup {<<id, Head(toWriter).file_num>>}
               \/ /\ asking' = asking
                  /\ \E m \in Messages :
                        /\ toReader' = Append(toReader, m) /\ m.id = id
                        /\ m.type \in {"ask", "confirm"} /\ m.file_num = Head(toWriter).file_num
  PROVE  AllEnd'
<1>1. toWriter' = Tail(toWriter) /\ UNCHANGED <<read_jobs, transfer>>
  BY DEF TakenByWriter, readVars, boundVars
<1>2. write_jobs'[id] = s /\ OthersSame(id)
  BY <1>1 DEF OthersSame, FileTypeOK
<1>3. JobInv(id) /\ 1 \in 1 .. Len(toWriter) /\ toWriter[1] = Head(toWriter) /\ Markers' = Markers
  BY <1>1, WriterHead, TransferSame DEF FileInv
<1>4. Open(id)' => /\ s.file_num = write_jobs[id].file_num /\ s.stream = write_jobs[id].stream
                   /\ Head(toWriter).type \in {"dir", "digest", "confirm"} /\ Open(id)
  BY <1>2, <1>3 DEF Open
<1>5. Head(toWriter).type = "digest" /\ Open(id)' => Head(toWriter).file_num # s.file_num
  <2> SUFFICES ASSUME Head(toWriter).type = "digest", Open(id)' PROVE Head(toWriter).file_num # s.file_num
    OBVIOUS
  <2>1. write_jobs[id].file_num < Head(toWriter).file_num
    BY <1>3, <1>4 DEF JobInv, Digests
  <2>2. write_jobs[id].file_num \in Nat
    <3>1. write_jobs[id] \in WriteJobs(transfer)
      BY DEF FileTypeOK
    <3> QED
      BY <3>1 DEF WriteJobs
  <2>3. Head(toWriter).file_num \in Nat
    BY WriterHead, MessageFacts DEF FileNums
  <2> QED
    BY <2>1, <2>2, <2>3, <1>4
<1>6. \A j \in Jobs : \A f \in FileNums : <<j, f>> \in asking' =>
         <<j, f>> \in asking \/ (j = id /\ Head(toWriter).type = "digest" /\ f = Head(toWriter).file_num)
  OBVIOUS
<1>7. Moved(toReader, toReader', id) /\ Moved(toWriter, toWriter', id)
  BY <1>1 DEF Moved
<1>8. StepOf(id)
  BY <1>1, <1>2, <1>6, <1>7 DEF StepOf
<1>9. \/ toReader' = toReader
      \/ \E m \in Messages :
            /\ toReader' = Append(toReader, m) /\ m.id = id /\ m.type \in {"ask", "confirm"}
            /\ Open(id)' /\ (m.type = "ask" \/ m.offset = Skip) => m.file_num # write_jobs'[id].file_num
  BY <1>2, <1>5
<1>10. \A g \in FileNums : <<id, g>> \in asking' =>
          <<id, g>> \in asking \/ (Open(id)' => g # write_jobs'[id].file_num)
  BY <1>2, <1>5, <1>6
<1>11. Open(id)' => /\ write_jobs'[id].file_num = write_jobs[id].file_num
                    /\ write_jobs'[id].stream = write_jobs[id].stream
                    /\ Head(toWriter).type \in {"dir", "digest", "confirm"}
  BY <1>2, <1>4
<1> QED
  BY <1>1, <1>2, <1>8, <1>9, <1>10, <1>11, KeepEnds

LEMMA OnDirEnds ==
  ASSUME FileTypeOK, FileTypeOK', FileInv, AllEnd, OnDir
  PROVE  AllEnd'
<1>0. toWriter # <<>> /\ Head(toWriter).type = "dir" /\ TakenByWriter
  BY DEF OnDir, FromReader
<1>1. PICK id \in Jobs : id = Head(toWriter).id
  BY <1>0, WriterHead
<1> DEFINE w == write_jobs[id]
           s == [w EXCEPT !.listed = TRUE]
<1>2. /\ write_jobs' = IF w = NoJob THEN write_jobs ELSE [write_jobs EXCEPT ![id] = s]
      /\ UNCHANGED <<toReader, asking, misplaced>>
  BY <1>1 DEF OnDir, SetWrite, writeVars, historyVars
<1>3. CASE w = NoJob
  BY <1>0, <1>1, <1>2, <1>3, WriterDeaf
<1>4. CASE w # NoJob
  <2>1. w \in WriteJobs(transfer)
    BY <1>4 DEF FileTypeOK
  <2>2. s \in WriteJobs(transfer) /\ s.file_num = w.file_num /\ s.stream = w.stream
    BY <2>1 DEF WriteJobs
  <2>3. s # NoJob
    BY <2>2, WriteFacts
  <2> HIDE DEF s
  <2> QED
    BY <2>2, <2>3, <1>0, <1>1, <1>2, <1>4, GoneOnEnds
<1> QED
  BY <1>3, <1>4

-----------------------------------------------------------------------------

LEMMA OnDigestEnds ==
  ASSUME FileTypeOK, FileTypeOK', FileInv, AllEnd, OnDigest
  PROVE  AllEnd'
<1> DEFINE m == Head(toWriter)
<1>0. toWriter # <<>> /\ m.type = "digest" /\ TakenByWriter
  BY DEF OnDigest, FromReader
<1>1. PICK id \in Jobs : id = m.id
  BY <1>0, WriterHead
<1>2. PICK f \in FileNums : f = m.file_num
  BY <1>0, WriterHead, MessageFacts
<1>3. PICK v \in 1 .. MaxVersion : v = m.version
  BY <1>0, WriterHead, MessageFacts
<1>4. PICK resumes \in BOOLEAN : resumes = m.is_resume
  BY <1>0, WriterHead, MessageFacts
<1> DEFINE w == write_jobs[id]
           known == [w EXCEPT !.digest = v]
<1>5. /\ UNCHANGED <<misplaced, read_jobs, transfer>> /\ toWriter' = Tail(toWriter)
      /\ IF w = NoJob THEN UNCHANGED <<writeVars, toReader, asking, excused>>
         ELSE IF Upload THEN OnDigestUpload(m, w) ELSE OnDigestDownload(m, w)
  BY <1>0, <1>1 DEF OnDigest, TakenByWriter, readVars, boundVars
<1>6. CASE w = NoJob
  <2>1. UNCHANGED <<write_jobs, toReader, asking>>
    BY <1>5, <1>6 DEF writeVars
  <2> QED
    BY <2>1, <1>0, <1>1, <1>5, <1>6, WriterDeaf
<1>7. CASE w # NoJob
  <2>1. w \in WriteJobs(transfer) /\ v \in 0 .. MaxVersion
    BY <1>7, TransferFacts DEF FileTypeOK
  <2>2. /\ known \in WriteJobs(transfer) /\ known.file_num = w.file_num /\ known.stream = w.stream
    BY <2>1, WriteFacts
  <2>3. known # NoJob
    BY <2>2, WriteFacts
  <2> HIDE DEF m, known
  <2>4. toWriter # <<>> /\ Head(toWriter).id = id /\ Head(toWriter).type = "digest" /\ Head(toWriter).file_num = f
    BY <1>0, <1>1, <1>2 DEF m
  <2>5. CASE Upload
    <3> DEFINE t == Transferred(resumes, f, v)
               a == IF NeedConfirm(t, f)
                    THEN [type |-> "ask", id |-> id, file_num |-> f, transferred |-> t]
                    ELSE ConfirmMessage(id, f, 0)
    <3>1. /\ write_jobs' = [write_jobs EXCEPT ![id] = known] /\ toReader' = Append(toReader, a)
          /\ UNCHANGED asking
      BY <2>5, <1>1, <1>2, <1>3, <1>4, <1>5, <1>7 DEF OnDigestUpload, SendReader, SetWrite, known
    <3>2. t \in Nat
      BY TransferredFacts
    <3> HIDE DEF t
    <3>3. a \in Messages /\ a.id = id /\ a.type \in {"ask", "confirm"} /\ a.file_num = f
      <4>1. /\ [type |-> "ask", id |-> id, file_num |-> f, transferred |-> t] \in Messages
            /\ ConfirmMessage(id, f, 0) \in Messages
        BY <3>2, MessageMade
      <4> QED
        BY <4>1 DEF ConfirmMessage
    <3> HIDE DEF a
    <3> QED
      BY <3>1, <3>3, <2>2, <2>3, <2>4, <1>0, <1>5, <1>7, GoneOnEnds
  <2>6. CASE ~Upload
    <3> DEFINE t == Transferred(w.is_resume, f, v)
               offset == IF t > 0 THEN OffsetOf(t) ELSE IF final[f] = Absent THEN 0 ELSE Answer(w.strategy)
    <3>1. IF t = 0 /\ final[f] # Absent /\ w.strategy = "ask"
          THEN /\ write_jobs' = [write_jobs EXCEPT ![id] = known] /\ asking' = asking \cup {<<id, f>>}
               /\ UNCHANGED toReader
          ELSE /\ write_jobs' = [write_jobs EXCEPT ![id] = ConfirmWrite(known, f, offset)]
               /\ toReader' = Append(toReader, ConfirmMessage(id, f, offset))
               /\ UNCHANGED asking
      <4>1. OnDigestDownload(m, w)
        BY <2>6, <1>5, <1>7
      <4> QED
        BY <4>1, <1>1, <1>2, <1>3 DEF OnDigestDownload, SendReader, SetWrite, known
    <3>2. t \in Nat /\ OffsetOf(t) \in Nat
      BY TransferredFacts, OffsetFacts
    <3> HIDE DEF t
    <3>3. offset \in Nat \cup {Skip}
      BY <3>2 DEF Answer
    <3> HIDE DEF offset
    <3>4. CASE t = 0 /\ final[f] # Absent /\ w.strategy = "ask"
      <4>1. /\ write_jobs' = [write_jobs EXCEPT ![id] = known] /\ asking' = asking \cup {<<id, f>>}
            /\ UNCHANGED toReader
        BY <3>1, <3>4
      <4> QED
        BY <4>1, <2>2, <2>3, <2>4, <1>0, <1>5, <1>7, GoneOnEnds
    <3>5. CASE ~(t = 0 /\ final[f] # Absent /\ w.strategy = "ask")
      <4> DEFINE s == ConfirmWrite(known, f, offset)
                 c == ConfirmMessage(id, f, offset)
      <4>1. /\ write_jobs' = [write_jobs EXCEPT ![id] = s] /\ toReader' = Append(toReader, c)
            /\ asking' = asking
        BY <3>1, <3>5
      <4>2. /\ s \in WriteJobs(transfer)
            /\ \/ s.file_num = known.file_num /\ s.stream = known.stream
               \/ s.stream = None
               \/ s.file_num = f /\ s.stream = offset /\ offset \in Nat /\ offset > 0
        BY <2>2, <3>3, ConfirmWriteFacts
      <4>3. c \in Messages /\ c.id = id /\ c.type = "confirm" /\ c.file_num = f /\ c.offset = offset
        <5>1. c \in Messages
          BY <3>3, MessageMade
        <5> QED
          BY <5>1 DEF ConfirmMessage
      <4> HIDE DEF s, c
      <4>4. s # NoJob
        BY <4>2, WriteFacts
      <4>5. CASE (s.file_num = w.file_num /\ s.stream = w.stream) \/ s.stream = None
        <5>1. \E a \in Messages : /\ toReader' = Append(toReader, a) /\ a.id = id
                                  /\ a.type \in {"ask", "confirm"} /\ a.file_num = Head(toWriter).file_num
          BY <4>1, <4>3, <2>4
        <5> QED
          BY <5>1, <4>1, <4>4, <4>5, <2>4, <1>0, <1>5, <1>7, GoneOnEnds
      <4>6. CASE s.file_num = f /\ s.stream = offset /\ offset \in Nat /\ offset > 0
        <5>1. f \notin Markers
          <6>1. JobInv(id) /\ 1 \in 1 .. Len(toWriter) /\ toWriter[1] = Head(toWriter)
            BY <2>4, WriterHead DEF FileInv
          <6> QED
            BY <6>1, <2>4 DEF JobInv, Digests
        <5>2. Owes(Head(toWriter)) /\ ~Ends(Head(toWriter), f, Size[f])
          BY <5>1, <2>4 DEF Owes, Ends
        <5>3. write_jobs'[id] = s /\ OthersSame(id)
          BY <4>1, <1>5 DEF OthersSame, FileTypeOK
        <5>4. Moved(toReader, toReader', id) /\ Moved(toWriter, toWriter', id)
          BY <4>1, <4>3, <2>4, <1>5 DEF Moved
        <5>5. StepOf(id)
          BY <5>3, <5>4, <4>1, <1>5 DEF StepOf
        <5>6. offset # Skip
          BY <4>6 DEF Skip
        <5>7. \E a \in Messages : /\ toReader' = Append(toReader, a) /\ a.id = id
                                  /\ a.type = "confirm" /\ a.offset # Skip
          BY <5>6, <4>1, <4>3
        <5> QED
          BY <5>2, <5>3, <5>5, <5>7, <4>1, <4>4, <4>6, <2>4, <1>5, <1>7, OpenEnds
      <4> QED
        BY <4>2, <4>5, <4>6, <2>2
    <3> QED
      BY <3>4, <3>5
  <2> QED
    BY <2>5, <2>6
<1> QED
  BY <1>6, <1>7

LEMMA OnConfirmWriteEnds ==
  ASSUME FileTypeOK, FileTypeOK', FileInv, AllEnd, OnConfirmWrite
  PROVE  AllEnd'
<1> DEFINE m == Head(toWriter)
<1>0. toWriter # <<>> /\ m.type = "confirm" /\ TakenByWriter
  BY DEF OnConfirmWrite, FromReader
<1>1. PICK id \in Jobs : id = m.id
  BY <1>0, WriterHead
<1>2. PICK f \in FileNums : f = m.file_num
  BY <1>0, WriterHead, MessageFacts
<1>3. PICK offset \in Nat \cup {Skip} : offset = m.offset
  BY <1>0, WriterHead, MessageFacts
<1> DEFINE w == write_jobs[id]
           s == ConfirmWrite(w, f, offset)
<1>4. /\ toWriter' = Tail(toWriter) /\ UNCHANGED <<toReader, asking, misplaced, read_jobs, transfer>>
      /\ write_jobs' = IF w = NoJob THEN write_jobs ELSE [write_jobs EXCEPT ![id] = s]
  BY <1>0, <1>1, <1>2, <1>3 DEF OnConfirmWrite, SetWrite, historyVars, writeVars, TakenByWriter, readVars,
                                boundVars
<1>5. CASE w = NoJob
  BY <1>0, <1>1, <1>4, <1>5, WriterDeaf
<1>6. CASE w # NoJob
  <2>1. w \in WriteJobs(transfer)
    BY <1>6 DEF FileTypeOK
  <2>2. /\ s \in WriteJobs(transfer)
        /\ \/ s.file_num = w.file_num /\ s.stream = w.stream
           \/ s.stream = None
           \/ s.file_num = f /\ s.stream = offset /\ offset \in Nat /\ offset > 0
    BY <2>1, ConfirmWriteFacts
  <2> HIDE DEF s
  <2>3. s # NoJob /\ write_jobs' = [write_jobs EXCEPT ![id] = s]
    BY <2>2, <1>4, <1>6, WriteFacts
  <2>4. CASE (s.file_num = w.file_num /\ s.stream = w.stream) \/ s.stream = None
    BY <2>3, <2>4, <1>0, <1>1, <1>4, <1>6, GoneOnEnds
  <2>5. CASE s.file_num = f /\ s.stream = offset /\ offset \in Nat /\ offset > 0
    <3>1. f \notin Markers
      <4>1. JobInv(id) /\ 1 \in 1 .. Len(toWriter) /\ toWriter[1] = Head(toWriter)
        BY <1>0, WriterHead DEF FileInv
      <4> QED
        BY <4>1, <1>0, <1>1, <1>2 DEF JobInv, Confirms
    <3>2. Owes(Head(toWriter)) /\ ~Ends(Head(toWriter), f, Size[f])
      BY <3>1, <2>5, <1>0, <1>2, <1>3 DEF Owes, Ends, Skip
    <3>3. write_jobs'[id] = s /\ OthersSame(id)
      BY <2>3, <1>4 DEF OthersSame, FileTypeOK
    <3>4. StepOf(id)
      BY <3>3, <1>0, <1>1, <1>4 DEF StepOf, Moved
    <3> QED
      BY <3>2, <3>3, <3>4, <2>3, <2>5, <1>0, <1>1, <1>2, <1>4, <1>6, OpenEnds
  <2> QED
    BY <2>2, <2>4, <2>5
<1> QED
  BY <1>5, <1>6

LEMMA OnBlockEnds ==
  ASSUME FileTypeOK, FileTypeOK', FileInv, AllEnd, OnBlock
  PROVE  AllEnd'
<1> DEFINE m == Head(toWriter)
<1>0. toWriter # <<>> /\ m.type = "block" /\ TakenByWriter
  BY DEF OnBlock, FromReader
<1>1. PICK id \in Jobs : id = m.id
  BY <1>0, WriterHead
<1>2. PICK f \in FileNums : f = m.file_num
  BY <1>0, WriterHead, MessageFacts
<1>3. PICK data \in Contents : data = m.data
  BY <1>0, WriterHead, MessageFacts
<1>4. PICK at \in Nat : at = m.at
  BY <1>0, WriterHead, MessageFacts
<1> DEFINE w == write_jobs[id]
<1>5. /\ toWriter' = Tail(toWriter) /\ UNCHANGED <<toReader, asking, read_jobs, transfer>>
      /\ IF w = NoJob THEN UNCHANGED <<writeVars, diskVars, misplaced>>
         ELSE IF f \in Markers
         THEN /\ SetWrite(id, [w EXCEPT !.file_num = f])
              /\ UNCHANGED <<diskVars, misplaced>>
         ELSE IF StartsFile(w, m) THEN WriteFirst(m, w) ELSE WriteNext(m, w)
  BY <1>0, <1>1, <1>2 DEF OnBlock, TakenByWriter, readVars, boundVars
<1>6. CASE w = NoJob
  <2>1. UNCHANGED <<write_jobs, misplaced>>
    BY <1>5, <1>6 DEF writeVars
  <2> QED
    BY <2>1, <1>0, <1>1, <1>5, <1>6, WriterDeaf
<1>7. CASE w # NoJob
  <2>1. w \in WriteJobs(transfer) /\ f \in 0 .. N /\ Len(data) \in Nat
    BY <1>7, TransferFacts, ContentFacts DEF FileTypeOK
  <2>2. Writing(id)
    <3>1. JobInv(id) /\ KindInv /\ 1 \in 1 .. Len(toWriter) /\ toWriter[1] = m
      BY <1>0, WriterHead DEF FileInv
    <3>2. ~w.is_last_job
      BY <3>1, <1>0, <1>1, <1>7, NoTokens
    <3> QED
      BY <3>2, <1>7 DEF Writing
  <2>3. CASE f \in Markers
    <3> DEFINE s == [w EXCEPT !.file_num = f]
    <3>1. write_jobs' = [write_jobs EXCEPT ![id] = s] /\ misplaced' = misplaced
      BY <1>5, <1>7, <2>3 DEF SetWrite
    <3>2. s \in WriteJobs(transfer) /\ s.file_num = f
      BY <2>1 DEF WriteJobs, N
    <3>3. s # NoJob
      BY <3>2, WriteFacts
    <3> HIDE DEF s
    <3> QED
      BY <3>1, <3>2, <3>3, <2>3, <1>0, <1>1, <1>5, <1>7, GoneOnEnds
  <2>4. CASE f \notin Markers
    \* It is enough to say what becomes of the job.
    <3>1. ASSUME NEW s \in WriteJobs(transfer), SetWrite(id, s), s.file_num = f,
                 data = <<>> /\ at >= Size[f] => f \in misplaced' \/ s.stream >= Size[f]
          PROVE  AllEnd'
      <4>1. s # NoJob
        BY <3>1, WriteFacts
      <4>2. write_jobs'[id] = s /\ OthersSame(id)
        BY <3>1, <1>5 DEF OthersSame, FileTypeOK, SetWrite
      <4>3. StepOf(id)
        BY <4>2, <1>0, <1>1, <1>5 DEF StepOf, Moved
      <4>4. Owes(Head(toWriter))
        BY <2>4, <1>0, <1>2 DEF Owes
      <4>5. Ends(Head(toWriter), f, Size[f]) => f \in misplaced' \/ write_jobs'[id].stream >= Size[f]
        BY <3>1, <4>2, <1>0, <1>3, <1>4 DEF Ends
      <4> QED
        BY <3>1, <4>1, <4>2, <4>3, <4>4, <4>5, <2>2, <1>0, <1>1, <1>2, <1>5, <1>7, OpenEnds
    <3>2. Size[f] \in Nat /\ (data = <<>> => Len(data) = 0)
      BY TransferFacts DEF FileTypeOK
    <3>3. CASE StartsFile(w, m)
      <4> DEFINE s == [w EXCEPT !.file_num = f, !.stream = Len(data)]
      <4>1. /\ SetWrite(id, s)
            /\ misplaced' = IF at = 0 THEN misplaced \ {f} ELSE misplaced \cup {f}
        BY <3>3, <2>4, <1>1, <1>2, <1>3, <1>4, <1>5, <1>7 DEF WriteFirst
      <4>2. s \in WriteJobs(transfer) /\ s.file_num = f /\ s.stream = Len(data)
        BY <2>1 DEF WriteJobs, N
      <4> HIDE DEF s
      <4> QED
        BY <4>1, <4>2, <3>1, <3>2
    <3>4. CASE ~StartsFile(w, m)
      <4> DEFINE s == [w EXCEPT !.stream = @ + Len(data)]
      <4>1. w.file_num = f /\ w.stream \in Nat
        BY <3>4, <2>1, <1>2, WriteFacts DEF StartsFile
      <4>2. /\ SetWrite(id, s)
            /\ misplaced' = IF at = w.stream THEN misplaced ELSE misplaced \cup {f}
        BY <3>4, <2>4, <1>1, <1>2, <1>3, <1>4, <1>5, <1>7 DEF WriteNext
      <4>3. s \in WriteJobs(transfer) /\ s.file_num = f /\ s.stream = w.stream + Len(data)
        BY <4>1, <2>1 DEF WriteJobs
      <4> HIDE DEF s
      <4>4. data = <<>> /\ at >= Size[f] => f \in misplaced' \/ s.stream >= Size[f]
        BY <4>1, <4>2, <4>3, <3>2
      <4> QED
        BY <4>2, <4>3, <4>4, <3>1
    <3> QED
      BY <3>3, <3>4
  <2> QED
    BY <2>3, <2>4
<1> QED
  BY <1>6, <1>7

-----------------------------------------------------------------------------

LEMMA InitEnds ==
  ASSUME FileInit
  PROVE  AllEnd
<1> SUFFICES ASSUME NEW j \in Jobs
             PROVE  EndInv(j)
  BY DEF AllEnd
<1>1. Len(toReader) = 0 /\ Len(toWriter) = 0 /\ ~Open(j)
  BY DEF FileInit, Open
<1>2. Queued(toWriter, read_jobs[j], Upload \/ write_jobs[j] # NoJob, j)
  BY <1>1 DEF Queued, DoneAfter, Rising, Owed
<1> QED
  BY <1>1, <1>2 DEF EndInv, Dropped, Unasked, Filling

LEMMA ReconnectEnds ==
  ASSUME FileTypeOK, FileInv, NEW crash \in BOOLEAN, Reconnect(crash)
  PROVE  AllEnd'
<1> DEFINE metas == IF crash THEN saved ELSE Metas
           n == Len(metas)
<1>1. /\ toReader' = <<>> /\ toWriter' = <<>>
      /\ write_jobs' = [id \in Jobs |-> IF ~Upload /\ id <= n
                                        THEN NewWrite(metas[id].file_num, TRUE) ELSE NoJob]
  BY DEF Reconnect
<1> HIDE DEF metas, n
<1> SUFFICES ASSUME NEW j \in Jobs
             PROVE  EndInv(j)'
  BY DEF AllEnd, Jobs
<1>2. write_jobs'[j] # NoJob => write_jobs'[j].stream = None
  BY <1>1 DEF NewWrite
<1>3. ~Open(j)'
  BY <1>2 DEF Open
<1>4. Len(toReader') = 0 /\ Len(toWriter') = 0
  BY <1>1
<1>5. Queued(toWriter, read_jobs[j], Upload \/ write_jobs[j] # NoJob, j)'
  BY <1>4 DEF Queued, DoneAfter, Rising, Owed
<1> QED
  BY <1>3, <1>4, <1>5 DEF EndInv, Dropped, Unasked, Filling

LEMMA QuietEnds ==
  ASSUME FileTypeOK, FileTypeOK', AllEnd,
         UNCHANGED <<transfer, toReader, toWriter, read_jobs, write_jobs, asking, misplaced>>
  PROVE  AllEnd'
<1> SUFFICES ASSUME NEW j \in Jobs
             PROVE  EndInv(j)'
  BY DEF AllEnd, Jobs
<1>1. Same(toReader, toReader', j, 0) /\ Same(toWriter, toWriter', j, 0)
  <2>1. Len(toReader) \in Nat /\ Len(toWriter) \in Nat
    BY LenProperties DEF FileTypeOK
  <2> QED
    BY <2>1 DEF Same
<1>2. 0 \in {0, 1} /\ EndInv(j)
  BY DEF AllEnd
<1> QED
  BY <1>1, <1>2, EndFrame

LEMMA FileStepEnds ==
  ASSUME FileTypeOK, FileTypeOK', FileInv, AllEnd, [FileNext]_fileVars
  PROVE  AllEnd'
<1>1. CASE SendFiles
  BY <1>1, SendFilesEnds
<1>2. CASE AnswerSome
  BY <1>2, AnswerDialogEnds DEF AnswerSome
<1>3. CASE OnReader
  BY <1>3, OnSendEnds, OnCancelReadEnds, OnConfirmReadEnds, OnAskEnds DEF OnReader
<1>4. CASE OnWriter
  BY <1>4, OnReceiveEnds, OnDirEnds, OnDigestEnds, OnConfirmWriteEnds, OnBlockEnds, RemovedEnds DEF OnWriter
<1>5. ASSUME NEW id \in Jobs, ResumeJob(id) \/ CancelJob(id) \/ Read(id) \/ ReadFails(id)
      PROVE  AllEnd'
  BY <1>5, ResumeJobEnds, CancelJobEnds, FinishEnds, ReadEnds DEF Read
<1>6. CASE \E crash \in BOOLEAN : Reconnect(crash)
  BY <1>6, ReconnectEnds
<1>7. CASE \E f \in FileNums : ChangeSource(f)
  <2>1. UNCHANGED <<transfer, toReader, toWriter, read_jobs, write_jobs, asking, misplaced>>
    BY <1>7 DEF ChangeSource, jobVars, readVars, writeVars, netVars, uiVars, boundVars, historyVars
  <2> QED
    BY <2>1, QuietEnds
<1>8. CASE UNCHANGED fileVars
  <2>1. UNCHANGED <<transfer, toReader, toWriter, read_jobs, write_jobs, asking, misplaced>>
    BY <1>8 DEF fileVars, jobVars, readVars, writeVars, netVars, uiVars, boundVars, historyVars
  <2> QED
    BY <2>1, QuietEnds
<1> QED
  BY <1>1, <1>2, <1>3, <1>4, <1>5, <1>6, <1>7, <1>8 DEF FileNext

LEMMA EndInductive == FileSpec => [](FileTypeOK /\ FileInv /\ AllEnd)
<1>1. FileInit => FileTypeOK /\ FileInv /\ AllEnd
  BY InitHolds, InitEnds
<1>2. FileTypeOK /\ FileInv /\ AllEnd /\ [FileNext]_fileVars => (FileTypeOK /\ FileInv /\ AllEnd)'
  BY FileStepKeeps, FileStepEnds
<1> QED
  BY <1>1, <1>2, PTL DEF FileSpec

-----------------------------------------------------------------------------
(* What gets a final name.                                                 *)

\* All the pieces of a version make up the file.
LEMMA WholeCopied ==
  ASSUME FileTypeOK, NEW f \in FileNums, NEW content \in Contents, NEW v \in 1 .. MaxVersion,
         FileGood(f, content, v, FALSE), Len(content) >= Size[f]
  PROVE  IsWhole(f, content)
<1>1. Size[f] \in Nat /\ content # Absent
  BY TransferFacts, ContentFacts DEF FileTypeOK
<1>2. PICK n \in 0 .. Size[f] : content = SubSeq(Whole(f, v), 1, n)
  BY <1>1 DEF FileGood, Prefix
<1>3. Whole(f, v) = [i \in 1 .. Size[f] |-> <<v, i>>] /\ Whole(f, v) \in Seq(Nat \X Nat)
  <2>1. v \in Nat
    BY TransferFacts DEF FileTypeOK
  <2> QED
    BY <2>1, <1>1 DEF Whole
<1>4. Len(Whole(f, v)) = Size[f]
  BY <1>1, <1>3
<1>5. Len(content) = n
  BY <1>1, <1>2, <1>3, <1>4, SubSeqProperties
<1>6. n = Size[f]
  BY <1>1, <1>5
<1>7. SubSeq(Whole(f, v), 1, Size[f]) = Whole(f, v)
  BY <1>1, <1>3, <1>4
<1>8. content = Whole(f, v)
  BY <1>2, <1>6, <1>7
<1> QED
  BY <1>8 DEF IsWhole

\* The job of the message gives a file its final name.
LEMMA FinalGiven ==
  ASSUME FileTypeOK, FileInv, AllEnd, toWriter # <<>>, NEW id \in Jobs, Head(toWriter).id = id,
         write_jobs[id] # NoJob,
         \/ Head(toWriter).type = "done"
         \/ /\ Head(toWriter).type = "block"
            /\ StartsFile(write_jobs[id], Head(toWriter)),
         final' = FinalNamed(write_jobs[id]), NEW f \in FileNums, final'[f] # final[f]
  PROVE  IsWhole(f, final'[f]) \/ f \in misplaced \/ LeftoverNamed(f)
<1> DEFINE w == write_jobs[id]
           m == Head(toWriter)
           r == read_jobs[id]
<1>1. w \in WriteJobs(transfer)
  BY DEF FileTypeOK
<1>2. Renames(w) /\ f = w.file_num /\ final'[f] = download[f]
  <2>1. Renames(w)
    BY DEF FinalNamed
  <2>2. final' = [final EXCEPT ![w.file_num] = download[w.file_num]]
    BY <2>1 DEF FinalNamed
  <2> QED
    BY <2>1, <2>2 DEF FileTypeOK
<1>3. CASE w.stream = None
  BY <1>2, <1>3 DEF LeftoverNamed
<1>4. CASE w.stream # None /\ f \notin misplaced
  <2>1. Open(id)
    BY <1>2, <1>4 DEF Open, Renames, Names
  <2>2. JobInv(id) /\ EndInv(id) /\ DiskInv
    BY DEF FileInv, AllEnd
  <2>3. /\ m \in Messages /\ 1 \in 1 .. Len(toWriter) /\ toWriter[1] = m
        /\ toWriter \in Seq(Messages)
    BY WriterHead DEF FileTypeOK
  \* No more of f is to come: it would have to come before the message.
  <2>4. ~More(toWriter, r, id, f, Size[f], 1)
    <3>1. f \in Nat
      BY TransferFacts DEF FileTypeOK
    <3>2. CASE m.type = "done"
      <4>1. r = NoJob
        BY <2>2, <2>3, <3>2 DEF EndInv, Queued, DoneAfter
      <4>2. ~Ends(m, f, Size[f]) /\ ~Before(m, f)
        BY <3>2 DEF Ends, Before
      <4>3. 1 \in Nat \ {0}
        OBVIOUS
      <4> HIDE DEF m, r
      <4>4. ASSUME More(toWriter, r, id, f, Size[f], 1) PROVE FALSE
        BY <4>1, <4>2, <4>3, <4>4, <2>3, MoreTaken DEF m
      <4> QED
        BY <4>4
    <3>3. CASE m.type = "block"
      <4>1. PICK g \in FileNums : g = m.file_num
        BY <2>3, <3>3, MessageFacts
      <4>2. g # f /\ f <= g /\ g \in Nat
        <5>1. g # f
          BY <1>2, <1>4, <4>1, <3>3 DEF StartsFile
        <5>2. f <= g
          BY <1>2, <2>1, <2>2, <2>3, <3>3, <4>1 DEF EndInv, Filling
        <5>3. g \in Nat
          BY TransferFacts DEF FileTypeOK
        <5> QED
          BY <5>1, <5>2, <5>3
      <4>3. ~(g <= f)
        BY <4>2, <3>1
      <4>4. r # NoJob => g <= r.file_num
        BY <2>2, <2>3, <3>3, <4>1 DEF JobInv, Blocks
      <4>5. ~(r # NoJob /\ r.file_num = f)
        BY <4>3, <4>4
      <4>6. ~Ends(m, f, Size[f]) /\ ~Before(m, f)
        BY <3>3, <4>1, <4>2, <4>3 DEF Ends, Before
      <4>7. 1 \in Nat \ {0}
        OBVIOUS
      <4> HIDE DEF m, r
      <4>8. ASSUME More(toWriter, r, id, f, Size[f], 1) PROVE FALSE
        BY <4>5, <4>6, <4>7, <4>8, <2>3, MoreTaken DEF m
      <4> QED
        BY <4>8
    <3> QED
      BY <3>2, <3>3
  <2>5. w.stream >= Size[f]
    BY <1>2, <1>4, <2>1, <2>2, <2>4 DEF EndInv, Filling
  <2>6. download[f] \in Contents /\ w.stream <= Len(download[f])
    BY <1>2, <2>1, <2>2 DEF JobInv, Opens, FileTypeOK
  <2>7. FileGood(f, download[f], digest[f], FALSE)
    BY <1>4, <2>2, DiskFacts DEF FileGood
  <2>8. digest[f] \in 1 .. MaxVersion
    <3>1. digest[f] # Absent /\ digest[f] \in 0 .. MaxVersion
      BY <2>6, <2>7, ContentFacts DEF FileGood, FileTypeOK
    <3> QED
      BY <3>1, <2>2, TransferFacts DEF DiskInv, FileTypeOK
  <2>9. Len(download[f]) >= Size[f]
    <3>1. w.stream \in Nat /\ Size[f] \in Nat /\ Len(download[f]) \in Nat
      <4>1. w.stream \in Nat
        BY <1>1, <1>4, WriteFacts
      <4>2. Size[f] \in Nat
        BY TransferFacts DEF FileTypeOK
      <4> QED
        BY <4>1, <4>2, <2>6, ContentFacts
    <3> QED
      BY <3>1, <2>5, <2>6
  <2> QED
    BY <1>2, <2>6, <2>7, <2>8, <2>9, WholeCopied
<1> QED
  BY <1>3, <1>4

\* No other step changes a file under its final name.
LEMMA FinalStep ==
  ASSUME FileTypeOK, FileInv, AllEnd, [FileNext]_fileVars, NEW f \in FileNums, final'[f] # final[f]
  PROVE  IsWhole(f, final'[f]) \/ f \in misplaced \/ LeftoverNamed(f)
<1>1. CASE OnBlock
  <2>1. PICK id \in Jobs : id = Head(toWriter).id
    BY <1>1, WriterHead DEF OnBlock, FromReader
  <2>2. toWriter # <<>> /\ Head(toWriter).type = "block"
    BY <1>1 DEF OnBlock, FromReader
  <2>3. /\ write_jobs[id] # NoJob /\ StartsFile(write_jobs[id], Head(toWriter))
        /\ WriteFirst(Head(toWriter), write_jobs[id])
    BY <1>1, <2>1 DEF OnBlock, diskVars, WriteNext
  <2>4. final' = FinalNamed(write_jobs[id])
    BY <2>3 DEF WriteFirst
  <2> QED
    BY <2>1, <2>2, <2>3, <2>4, FinalGiven
<1>2. CASE OnDone
  <2>1. PICK id \in Jobs : id = Head(toWriter).id
    BY <1>2, WriterHead DEF OnDone, FromReader
  <2>2. toWriter # <<>> /\ Head(toWriter).type = "done"
    BY <1>2 DEF OnDone, FromReader
  <2>3. write_jobs[id] # NoJob /\ final' = FinalNamed(write_jobs[id])
    BY <1>2, <2>1 DEF OnDone, diskVars, ModifyTime
  <2> QED
    BY <2>1, <2>2, <2>3, FinalGiven
<1>3. CASE OnReceive \/ OnDir \/ OnDigest \/ OnConfirmWrite \/ OnError \/ OnCancelWrite
  <2>1. final' = final
    BY <1>3 DEF OnReceive, OnDir, OnDigest, OnConfirmWrite, OnError, OnCancelWrite, diskVars, RemoveDownloadFile
  <2> QED
    BY <2>1
<1>4. CASE OnReader
  <2>1. final' = final
    BY <1>4 DEF OnReader, OnSend, OnCancelRead, OnConfirmRead, OnAsk, diskVars
  <2> QED
    BY <2>1
<1>5. CASE SendFiles \/ AnswerSome
  <2>1. final' = final
    BY <1>5 DEF SendFiles, AnswerSome, AnswerDialog, diskVars
  <2> QED
    BY <2>1
<1>6. ASSUME NEW id \in Jobs, ResumeJob(id) \/ CancelJob(id) \/ Read(id) \/ ReadFails(id)
      PROVE  final' = final
  BY <1>6 DEF ResumeJob, CancelJob, RemoveDownloadFile, Read, Finish, ReadMarker, SendDigest, ReadBlock, ReadEnd,
              ReadFails, ReaderStep, ReaderSends, diskVars
<1>7. CASE \/ \E crash \in BOOLEAN : Reconnect(crash)
           \/ \E g \in FileNums : ChangeSource(g)
           \/ UNCHANGED fileVars
  <2>1. final' = final
    BY <1>7 DEF Reconnect, ChangeSource, fileVars, diskVars
  <2> QED
    BY <2>1
<1> QED
  BY <1>1, <1>2, <1>3, <1>4, <1>5, <1>6, <1>7 DEF FileNext, OnWriter

\* A file under its final name is replaced by a complete copy of a version of
\* the source or not at all, whatever is cancelled, fails, is cut off or
\* crashes, but for the exceptions FinalReplaced names.
THEOREM FinalReplacedTheorem == FileSpec => FinalReplaced
<1>1. FileTypeOK /\ FileInv /\ AllEnd /\ [FileNext]_fileVars =>
        [\A f \in FileNums :
           final'[f] # final[f] => IsWhole(f, final'[f]) \/ f \in misplaced \/ LeftoverNamed(f)]_fileVars
  BY FinalStep
<1> QED
  BY <1>1, EndInductive, PTL DEF FinalReplaced, FileSpec
=============================================================================
