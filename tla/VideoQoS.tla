------------------------------ MODULE VideoQoS ------------------------------
(***************************************************************************)
(* The controller of frame rate and quality (server/video_qos.rs), shared  *)
(* under one lock by the connections, which report what their peers ask    *)
(* for and how late they answer, and by the capture threads, which report  *)
(* once a second and take the rate and the ratio from it.                  *)
(*                                                                         *)
(* A delay is what avg_delay gives after it was added: the mean of three   *)
(* less the estimated round trip, so any value may follow any.  Ratios are *)
(* in hundredths, and of the factors of adjust_ratio only the direction    *)
(* and the bounds are kept.                                                *)
(*                                                                         *)
(* Bug_ definitions are the definition that follows them with a mistake.   *)
(***************************************************************************)
EXTENDS Naturals, FiniteSets, FiniteSetsExt

CONSTANTS Users,     \* connections that watch a display or a camera
          Displays,  \* names of the video services
          Delays,    \* averages a report may lead to
          FpsAsked,  \* values peers ask for, valid or not
          Qualities, \* qualities peers ask for
          Linux,     \* the build's target
          AbrOptions, \* values of the option enable-abr
          Rises,     \* ratios the adjustment steps through
          MaxTimes   \* bound: joins and requests

FPS == 30
MIN_FPS == 1
MAX_FPS == 120
INIT_FPS == 15
DELAY_THRESHOLD_150MS == 150
BR_MIN_HIGH_RESOLUTION == 10
BR_MAX == 4000
BR_BEST == 150
BR_BALANCED == 67

\* Quality::ratio.  A custom quality is one of its own.
Ratio == [Low |-> 50, Balanced |-> BR_BALANCED, Best |-> BR_BEST, Custom |-> 20]

ASSUME QoSAssumption ==
    /\ IsFiniteSet(Users) /\ IsFiniteSet(Displays)
    /\ Delays \subseteq Nat \ {0} /\ FpsAsked \subseteq Nat
    /\ Qualities \subseteq DOMAIN Ratio
    /\ Linux \in BOOLEAN /\ AbrOptions \subseteq BOOLEAN
    /\ Rises \subseteq BR_MIN_HIGH_RESOLUTION..BR_MAX
    /\ MaxTimes \in Nat

VARIABLES users,        \* connections with a record
          custom_fps,   \* what their peers ask for; 0 is None
          auto_adjust_fps,
          quality,      \* [time, of]; time 0 is None
          user_fps,     \* UserDelay::fps; 0 is None
          avg_delay,
          quick,        \* quick_increase_fps_count
          stable,       \* increase_fps_count
          response_delayed,
          fps,
          ratio,
          abr_config,
          new_user,     \* a user came less than a second ago
          displays,     \* names of the displays with a record
          supports,     \* their support_changing_quality
          capture,      \* the capture threads: where they are
          encoder,      \* whether their encoder can change its quality
          times         \* number of joins and requests: the clock of latest_quality

\* History, read by properties only.
VARIABLE orphans        \* capture threads that ran when the table was reset

userVars == <<users, custom_fps, auto_adjust_fps, quality, user_fps, avg_delay, quick, stable,
              response_delayed>>
displayVars == <<displays, supports, capture, encoder, orphans>>
qosVars == <<userVars, displayVars, fps, ratio, abr_config, new_user, times>>

QosTypeOK ==
    /\ users \subseteq Users /\ response_delayed \subseteq users
    /\ custom_fps \in [Users -> {0} \cup MIN_FPS..MAX_FPS]
    /\ auto_adjust_fps \in [Users -> {0} \cup MIN_FPS..MAX_FPS]
    /\ quality \in [Users -> [time : 0..MaxTimes, of : DOMAIN Ratio]]
    /\ user_fps \in [Users -> 0..MAX_FPS]
    /\ avg_delay \in [Users -> Nat \ {0}]
    /\ quick \in [Users -> 0..2] /\ stable \in [Users -> 0..2]
    /\ fps \in MIN_FPS..MAX_FPS
    /\ ratio \in BR_MIN_HIGH_RESOLUTION..BR_MAX
    /\ abr_config \in BOOLEAN /\ new_user \in BOOLEAN
    /\ displays \subseteq Displays /\ supports \subseteq displays
    /\ capture \in [Displays -> {"off", "starting", "on"}]
    /\ encoder \in [Displays -> BOOLEAN]
    /\ times \in 0..MaxTimes
    /\ orphans \subseteq Displays

None == [time |-> 0, of |-> "Balanced"]
\* UserData::default, also of those without a record.
Default(f, u, d) == [f EXCEPT ![u] = d]

QosInit ==
    /\ users = {} /\ response_delayed = {}
    /\ custom_fps = [u \in Users |-> 0] /\ auto_adjust_fps = [u \in Users |-> 0]
    /\ quality = [u \in Users |-> None]
    /\ user_fps = [u \in Users |-> 0]
    /\ avg_delay = [u \in Users |-> DELAY_THRESHOLD_150MS]
    /\ quick = [u \in Users |-> 0] /\ stable = [u \in Users |-> 0]
    /\ fps = FPS /\ ratio = BR_BALANCED /\ abr_config = TRUE
    /\ new_user = FALSE
    /\ displays = {} /\ supports = {}
    /\ capture = [d \in Displays |-> "off"] /\ encoder = [d \in Displays |-> FALSE]
    /\ times = 0
    /\ orphans = {}

-----------------------------------------------------------------------------
(* What the adjustments are made of.                                       *)

Smaller(a, b) == IF a < b THEN a ELSE b
Larger(a, b) == IF a < b THEN b ELSE a
Clamp(x, low, high) == Larger(low, Smaller(x, high))

\* The least of a set of numbers, or what stands for none.
LeastOr(S, default) == IF S = {} THEN default ELSE Min(S)

UserLimit(u) ==
    LET asked == IF custom_fps[u] = 0 THEN FPS ELSE custom_fps[u]
    IN  IF auto_adjust_fps[u] = 0 THEN asked ELSE Smaller(asked, auto_adjust_fps[u])
highest_fps == Clamp(LeastOr({UserLimit(u) : u \in users}, FPS), MIN_FPS, MAX_FPS)

\* What the user asked last, of those who asked.
latest_quality ==
    LET asked == {u \in users : quality[u].time > 0}
    IN  IF asked = {} THEN "Balanced"
        ELSE quality[CHOOSE u \in asked : \A v \in asked : quality[v].time <= quality[u].time].of
target_ratio == Ratio[latest_quality]

\* all() of an empty table is true.
in_vbr_state == abr_config /\ displays = supports

\* The rates below which good networks do not stay, and above which they climb
\* slowly.
min_fps == IF target_ratio >= BR_BEST THEN 8 ELSE IF target_ratio >= BR_BALANCED THEN 10 ELSE 12
normal_fps == 2 * min_fps

\* adjust_fps with the records of the users as they will be.
RealFps(newFps, delayed, new) ==
    LET least == LeastOr({IF newFps[u] = 0 THEN INIT_FPS ELSE newFps[u] : u \in users}, INIT_FPS)
        answered == IF delayed # {} THEN Smaller(least, MIN_FPS + 1) ELSE least
    IN  Clamp(IF new THEN Smaller(answered, INIT_FPS) ELSE answered, MIN_FPS, highest_fps)

\* The least ratio of a quality; with a known bitrate it is what 1 Mbps takes,
\* if that is less.
Lows(q) ==
    CASE q = "Best" -> {20, 60}
      [] q = "Balanced" -> {10, 33}
      [] OTHER -> {BR_MIN_HIGH_RESOLUTION}

\* adjust_ratio: the ratios it may lead to.
Adjusted(dynamic, delays) ==
    LET worst == Max({delays[u] : u \in users})
        moved == IF worst >= DELAY_THRESHOLD_150MS THEN {r \in Rises : r < ratio} \cup {ratio}
                 ELSE IF dynamic THEN {r \in Rises : r > ratio} \cup {ratio}
                 ELSE {ratio}
    IN  {Clamp(v, low, target_ratio) : v \in moved, low \in Lows(latest_quality)}
AdjustRatio(dynamic, delays) ==
    IF in_vbr_state /\ users # {}
    THEN ratio' \in Adjusted(dynamic, delays) ELSE UNCHANGED ratio

-----------------------------------------------------------------------------
(* Connections.                                                            *)

on_connection_open(u, abr) ==
    /\ u \notin users /\ users' = users \cup {u}
    /\ times < MaxTimes /\ times' = times + 1
    /\ abr_config' = abr /\ new_user' = TRUE
    /\ UNCHANGED <<custom_fps, auto_adjust_fps, quality, user_fps, avg_delay, quick, stable,
                   response_delayed, displayVars, fps, ratio>>

\* The last one to leave takes everything back to its defaults, the records of
\* the displays with it.
on_connection_close(u) ==
    /\ u \in users /\ users' = users \ {u}
    /\ custom_fps' = Default(custom_fps, u, 0)
    /\ auto_adjust_fps' = Default(auto_adjust_fps, u, 0)
    /\ quality' = Default(quality, u, None)
    /\ user_fps' = Default(user_fps, u, 0)
    /\ avg_delay' = Default(avg_delay, u, DELAY_THRESHOLD_150MS)
    /\ quick' = Default(quick, u, 0) /\ stable' = Default(stable, u, 0)
    /\ response_delayed' = response_delayed \ {u}
    /\ IF users = {u}
       THEN /\ fps' = FPS /\ ratio' = BR_BALANCED /\ abr_config' = TRUE
            /\ new_user' = TRUE
            /\ displays' = {} /\ supports' = {}
            /\ orphans' = {d \in Displays : capture[d] # "off"}
       ELSE UNCHANGED <<fps, ratio, abr_config, new_user, displays, supports, orphans>>
    /\ UNCHANGED <<capture, encoder, times>>

\* Requests of the peer; a rate out of bounds is ignored.
Valid(f) == f \in MIN_FPS..MAX_FPS
user_custom_fps(u, f) ==
    /\ u \in users /\ Valid(f)
    /\ custom_fps' = [custom_fps EXCEPT ![u] = f]
    /\ times < MaxTimes /\ times' = times + 1
    /\ UNCHANGED <<users, auto_adjust_fps, quality, user_fps, avg_delay, quick, stable,
                   response_delayed, displayVars, fps, ratio, abr_config, new_user>>
user_auto_adjust_fps(u, f) ==
    /\ u \in users /\ Valid(f)
    /\ auto_adjust_fps' = [auto_adjust_fps EXCEPT ![u] = f]
    /\ times < MaxTimes /\ times' = times + 1
    /\ UNCHANGED <<users, custom_fps, quality, user_fps, avg_delay, quick, stable,
                   response_delayed, displayVars, fps, ratio, abr_config, new_user>>
user_image_quality(u, q) ==
    /\ u \in users /\ times < MaxTimes
    /\ times' = times + 1
    /\ quality' = [quality EXCEPT ![u] = [time |-> times + 1, of |-> q]]
    /\ ratio' = Ratio[q]    \* it is the latest
    /\ UNCHANGED <<users, custom_fps, auto_adjust_fps, user_fps, avg_delay, quick, stable,
                   response_delayed, displayVars, fps, abr_config, new_user>>

\* What a report makes of the rate, starting from the rate of all.
NewFps(u, avg, quickNow) ==
    LET step == IF avg < 50 THEN (IF quickNow = 3 THEN 5 ELSE IF fps < normal_fps THEN 1 ELSE 0)
                ELSE IF avg < 100 /\ avg < avg_delay[u] /\ fps < normal_fps THEN 1 ELSE 0
        divided == (fps * DELAY_THRESHOLD_150MS + avg - 1) \div avg
        share == (DELAY_THRESHOLD_150MS * min_fps) \div avg
    IN  IF avg < DELAY_THRESHOLD_150MS THEN Larger(min_fps, fps + step)
        ELSE IF avg < 200 THEN Larger(min_fps, divided)
        ELSE IF avg < 300 THEN Smaller(min_fps, divided)
        ELSE IF avg < 600 THEN share
        ELSE Smaller(share, divided)

\* The peer answered a TestDelay.  Its first answer also adjusts the ratio, but
\* not on Linux.
user_network_delay(u, avg) ==
    /\ u \in users
    /\ LET quickNow == IF avg < 50 THEN quick[u] + 1 ELSE quick[u]
           stableNow == IF avg < DELAY_THRESHOLD_150MS THEN stable[u] + 1 ELSE 0
           raised == NewFps(u, avg, quickNow) + (IF stableNow = 3 THEN 1 ELSE 0)
       IN  /\ quick' = [quick EXCEPT ![u] = IF avg > 50 \/ quickNow = 3 THEN 0 ELSE quickNow]
           /\ stable' = [stable EXCEPT ![u] = IF stableNow = 3 THEN 0 ELSE stableNow]
           /\ user_fps' = [user_fps EXCEPT ![u] = Clamp(raised, MIN_FPS, highest_fps)]
    /\ avg_delay' = [avg_delay EXCEPT ![u] = avg]
    /\ fps' = RealFps(user_fps', response_delayed, new_user)
    /\ IF user_fps[u] = 0 /\ ~Linux THEN AdjustRatio(FALSE, avg_delay')
       ELSE UNCHANGED ratio
    /\ UNCHANGED <<users, custom_fps, auto_adjust_fps, quality, response_delayed, displayVars,
                   abr_config, new_user, times>>

\* Every second the connection looks how long the peer has not answered: for
\* more than two seconds, or not.
Bug_user_delay_response_elapsed(u, late) ==
    /\ u \in users
    /\ IF late
       THEN /\ response_delayed' = response_delayed \cup {u}
            /\ \E avg \in Delays : avg_delay' = [avg_delay EXCEPT ![u] = avg]
            /\ fps' = RealFps(user_fps, response_delayed', new_user)
       ELSE /\ UNCHANGED <<response_delayed, avg_delay, fps>>
    /\ UNCHANGED <<users, custom_fps, auto_adjust_fps, quality, user_fps, quick, stable,
                   displayVars, ratio, abr_config, new_user, times>>
user_delay_response_elapsed(u, late) ==
    /\ u \in users
    /\ IF late
       THEN /\ response_delayed' = response_delayed \cup {u}
            /\ \E avg \in Delays : avg_delay' = [avg_delay EXCEPT ![u] = avg]
            /\ fps' = RealFps(user_fps, response_delayed', new_user)
       ELSE /\ response_delayed' = response_delayed \ {u}
            /\ UNCHANGED <<avg_delay, fps>>
    /\ UNCHANGED <<users, custom_fps, auto_adjust_fps, quality, user_fps, quick, stable,
                   displayVars, ratio, abr_config, new_user, times>>

-----------------------------------------------------------------------------
(* Capture threads.                                                        *)

\* run starts: its record comes before its encoder, which says whether it can
\* change its quality.
new_display(d) ==
    /\ capture[d] = "off" /\ capture' = [capture EXCEPT ![d] = "starting"]
    /\ displays' = displays \cup {d}
    /\ supports' = supports \ {d}
    /\ orphans' = orphans \ {d}
    /\ UNCHANGED <<userVars, encoder, fps, ratio, abr_config, new_user, times>>
set_support_changing_quality(d, support) ==
    /\ capture[d] = "starting" /\ capture' = [capture EXCEPT ![d] = "on"]
    /\ encoder' = [encoder EXCEPT ![d] = support]
    /\ supports' = IF d \in displays /\ support THEN supports \cup {d} ELSE supports \ {d}
    /\ UNCHANGED <<userVars, displays, orphans, fps, ratio, abr_config, new_user, times>>
Bug_remove_display(d) ==
    /\ capture[d] # "off" /\ capture' = [capture EXCEPT ![d] = "off"]
    /\ UNCHANGED <<userVars, displays, supports, orphans, encoder, fps, ratio, abr_config, new_user,
                   times>>
remove_display(d) ==
    /\ capture[d] # "off" /\ capture' = [capture EXCEPT ![d] = "off"]
    /\ encoder' = [encoder EXCEPT ![d] = FALSE]
    /\ displays' = displays \ {d} /\ supports' = supports \ {d}
    /\ orphans' = orphans \ {d}
    /\ UNCHANGED <<userVars, fps, ratio, abr_config, new_user, times>>

\* Once a second a capture thread reports: the ratio follows the latest quality
\* at once, or step by step when the last step is three seconds old; it may
\* rise when some display with a record sent enough since then (dynamic).
update_display_data(d, elapsed, dynamic) ==
    /\ capture[d] = "on"
    /\ fps' = RealFps(user_fps, response_delayed, new_user)
    /\ dynamic => displays # {}
    /\ IF ~in_vbr_state THEN ratio' = target_ratio
       ELSE IF elapsed THEN AdjustRatio(dynamic, avg_delay)
       ELSE UNCHANGED ratio
    /\ UNCHANGED <<userVars, displayVars, abr_config, new_user, times>>

\* A second passed since the last user came.
FreshEnds ==
    /\ new_user /\ new_user' = FALSE
    /\ UNCHANGED <<userVars, displayVars, fps, ratio, abr_config, times>>

Reports(u) == \E avg \in Delays : user_network_delay(u, avg)

QosNext ==
    \/ \E u \in Users :
          \/ \E abr \in AbrOptions : on_connection_open(u, abr)
          \/ on_connection_close(u)
          \/ \E f \in FpsAsked : user_custom_fps(u, f) \/ user_auto_adjust_fps(u, f)
          \/ \E q \in Qualities : user_image_quality(u, q)
          \/ Reports(u)
          \/ \E late \in BOOLEAN : user_delay_response_elapsed(u, late)
    \/ \E d \in Displays :
          \/ new_display(d) \/ remove_display(d)
          \/ \E support \in BOOLEAN : set_support_changing_quality(d, support)
          \/ \E elapsed, dynamic \in BOOLEAN : update_display_data(d, elapsed, dynamic)
    \/ FreshEnds

QosSpec == QosInit /\ [][QosNext]_qosVars

\* Peers go on answering, connections go on looking, and time passes.
QosFairness ==
    /\ \A u \in Users : WF_qosVars(Reports(u)) /\ WF_qosVars(user_delay_response_elapsed(u, FALSE))
    /\ WF_qosVars(FreshEnds)
QosFairSpec == QosSpec /\ QosFairness

-----------------------------------------------------------------------------
\* The rate and the ratio are only moved to where the encoders may use them:
\* the rate within what every user asks for, no faster than the slowest user's
\* own, and almost at rest while a peer does not answer (adjust_fps); the ratio
\* within what the latest quality allows (adjust_ratio).  And a capture thread
\* that ran through no reset has its record, and only threads that run have
\* one, so that the ratio moves step by step exactly while the encoders can
\* follow it (in_vbr_state).
FpsWithin ==
    /\ fps <= highest_fps
    /\ \A u \in users : user_fps[u] # 0 => fps <= user_fps[u]
    /\ response_delayed # {} => fps <= MIN_FPS + 1
RecordsMatch ==
    \A d \in Displays :
        /\ d \in displays => capture[d] # "off"
        /\ capture[d] # "off" /\ d \notin orphans =>
              d \in displays /\ (capture[d] = "on" => (d \in supports <=> encoder[d]))
Bounded ==
    [][/\ fps' # fps => FpsWithin'
       /\ ratio' # ratio => ratio' <= target_ratio'
       /\ RecordsMatch']_qosVars

\* However slow it became, the rate comes back: when from some moment on the
\* users are the same and ask for nothing new, every peer answers in time and
\* its delay stays good, the rate of a single user comes up to what its peer
\* asks for, and that of several stays at least at the least rate of good
\* networks (user_network_delay, adjust_fps).  Several may get no further: each
\* report starts from the rate of all, so the third good report of one user
\* raises nothing unless those of the others come before its next one.
Asks == <<users, custom_fps, auto_adjust_fps, quality>>
GoodNetwork == \A u \in users : avg_delay[u] < DELAY_THRESHOLD_150MS
NoneGoesLate == response_delayed' \subseteq response_delayed
Recovered ==
    /\ users # {} => fps >= Smaller(min_fps, highest_fps)
    /\ Cardinality(users) = 1 => fps = highest_fps
Recovers ==
    (<>[][UNCHANGED Asks /\ NoneGoesLate]_qosVars /\ <>[]GoodNetwork) => <>[]Recovered
=============================================================================
