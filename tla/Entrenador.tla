------------------------------ MODULE Entrenador ------------------------------
(***************************************************************************)
(* The trainer process: the journey through the maps of its travel sheet   *)
(* (iniciar_ruta_de_viaje), the lives it loses to deadlocks and to SIGTERM *)
(* and wins by SIGUSR1, and the retry (zero_lives), which runs where the   *)
(* lives ran out: in main after the journey, or inside the handler of the  *)
(* SIGTERM that interrupted it.  One thread, so the state of its control   *)
(* is the stack of its calls, and a handler is a frame pushed on the rest. *)
(*                                                                         *)
(* What a map does with the trainer is Mapa and DeteccionDeadlock: here a  *)
(* visit to a map ends with all its goals captured, with the trainer as    *)
(* victim of a deadlock, or with the map gone.                             *)
(***************************************************************************)
EXTENDS Integers, SequencesExt

CONSTANTS
  Maps,      \* the number of maps of the travel sheet
  Lives,     \* the lives the metadata file gives
  MaxTerms,  \* bound: how many SIGTERM are sent
  MaxGifts   \* bound: how many SIGUSR1 are sent

ASSUME SheetAssumption ==
  /\ Maps \in Nat \ {0} /\ Lives \in Nat \ {0}
  /\ MaxTerms \in Nat /\ MaxGifts \in Nat

Signals == {"term", "gift"}
Limit(s) == IF s = "term" THEN MaxTerms ELSE MaxGifts

VARIABLES
  stack,    \* the calls in progress, the running one last
  pending,  \* the signals sent and not delivered yet
  sent,     \* how many of each signal have been sent
  coach,    \* the t_coach the global points to: which allocation it is, if
            \* it is allocated, its life, index_current_map and connection
  medals,   \* the maps whose medal is in the directory medallas
  retries,  \* reintentos
  fell,     \* how many journeys ended for want of lives
  overtaken, \* one of them ran in a handler, over a load whose own journey
             \* had not begun
  outcome   \* "playing", "maestro", "exited", or "broken": freed memory used

vars == <<stack, pending, sent, coach, medals, retries, fell, overtaken, outcome>>

Frame(fn, at) == [fn |-> fn, at |-> at, id |-> coach.id, reg |-> 0]

Init ==
  /\ coach = [id |-> 0, live |-> FALSE, life |-> 0, index |-> 0, conn |-> "none"]
  /\ stack = <<Frame("main", "load")>>
  /\ pending = {} /\ sent = [s \in Signals |-> 0]
  /\ medals = {} /\ retries = 0 /\ fell = 0 /\ overtaken = FALSE
  /\ outcome = "playing"

-----------------------------------------------------------------------------
(* Mutant: a handler may interrupt itself. *)
NeverMasked(s) == FALSE /\ s \in Signals

(* A signal is masked while its handler runs, everything the handler calls  *)
(* included, and one that is not is delivered before the next step.         *)
Masked(s) == \E k \in DOMAIN stack : stack[k].fn = s

Running == outcome = "playing" /\ \A s \in pending : Masked(s)

Top == Last(stack)
In(fn, at) == Running /\ Top.fn = fn /\ Top.at = at
GoTo(at) == stack' = [stack EXCEPT ![Len(stack)].at = at]
Call(fn, at, id, back) ==
  stack' = Append([stack EXCEPT ![Len(stack)].at = back],
                  [Frame(fn, at) EXCEPT !.id = id])
Return == stack' = Front(stack)

(* The frames that are about to use a t_coach, and whether it is the one    *)
(* they hold: a journey uses the pointer it was called with, and an update  *)
(* of the lives stores through the pointer it loaded through.               *)
Touches == \/ Top.fn \in {"journey"} \cup Signals /\ Top.at # "end"
           \/ Top.at \in {"advance", "begin", "disconnect", "destroy", "check", "report"}
Dangling == \/ ~coach.live
            \/ (Top.fn = "journey" \/ Top.at = "store") /\ Top.id # coach.id
Holds(fn, at) == In(fn, at) /\ ~Dangling

UseAfterFree ==
  /\ Running /\ Touches /\ Dangling
  /\ outcome' = "broken"
  /\ UNCHANGED <<stack, pending, sent, coach, medals, retries, fell, overtaken>>

-----------------------------------------------------------------------------
(* connection_destroy.  Of a connection that was never made, or was already *)
(* destroyed, it frees what it must not: that ends the process or goes      *)
(* unnoticed.                                                               *)
Disconnect(next) ==
  \/ /\ GoTo(next)
     /\ coach' = [coach EXCEPT !.conn = "closed"]
     /\ UNCHANGED outcome
  \/ /\ coach.conn # "open"
     /\ outcome' = "broken"
     /\ UNCHANGED <<stack, coach>>

(* cargar_metadata, before coach_next_map.                                  *)
CargarMetadata ==
  coach' = [id |-> coach.id + 1, live |-> TRUE, life |-> Lives, index |-> 0,
            conn |-> "none"]

(* deleteDir removes path and name joined with nothing between them, so it  *)
(* empties a directory only if its path ends with a slash: that of Dir de   *)
(* Bill does, that of medallas does not.                                    *)
DeleteDir(files, slash) == IF slash THEN {} ELSE files
MedallasEndsWithSlash == FALSE

(* main: the first load, the retry if the journey ran out of lives, and the *)
(* report.                                                                  *)
MainLoad ==
  /\ In("main", "load")
  /\ CargarMetadata
  /\ GoTo("advance")
  /\ UNCHANGED <<pending, sent, medals, retries, fell, overtaken, outcome>>

(* After a load, in main and in zero_lives: coach_next_map, and the journey *)
(* with the coach the global points to by then, from the map it is at.      *)
Advance ==
  /\ \E fn \in {"main", "zero"} : Holds(fn, "advance")
  /\ coach' = [coach EXCEPT !.index = @ + 1]
  /\ GoTo("begin")
  /\ UNCHANGED <<pending, sent, medals, retries, fell, overtaken, outcome>>

Begin ==
  \E fn \in {"main", "zero"} :
    /\ Holds(fn, "begin")
    /\ LET back == IF fn = "main" THEN "check" ELSE "end" IN
         IF coach.index <= Maps THEN Call("journey", "connect", coach.id, back)
                                ELSE GoTo(back)
    /\ UNCHANGED <<pending, sent, coach, medals, retries, fell, overtaken, outcome>>

(* Mutant: main does not look at the lives. *)
MainCheckNever ==
  /\ Holds("main", "check")
  /\ GoTo("report")
  /\ UNCHANGED <<pending, sent, coach, medals, retries, fell, overtaken, outcome>>

MainCheck ==
  /\ Holds("main", "check")
  /\ IF coach.life < 1 THEN Call("zero", "disconnect", coach.id, "report")
                       ELSE GoTo("report")
  /\ UNCHANGED <<pending, sent, coach, medals, retries, fell, overtaken, outcome>>

MainReport ==
  /\ Holds("main", "report")
  /\ outcome' = "maestro"
  /\ UNCHANGED <<stack, pending, sent, coach, medals, retries, fell, overtaken>>

-----------------------------------------------------------------------------
(* iniciar_ruta_de_viaje. *)
Connect ==
  /\ Holds("journey", "connect")
  /\ coach' = [coach EXCEPT !.conn = "open"]
  /\ GoTo("play")
  /\ UNCHANGED <<pending, sent, medals, retries, fell, overtaken, outcome>>

(* completar_mapa: every goal captured and the medal copied. *)
Complete ==
  /\ Holds("journey", "play")
  /\ medals' = medals \cup {coach.index}
  /\ GoTo("won")
  /\ UNCHANGED <<pending, sent, coach, retries, fell, overtaken, outcome>>

(* completar_mapa: OC_VICTIMA_DEADLOCK. *)
Victim ==
  /\ Holds("journey", "play")
  /\ GoTo("lost")
  /\ UNCHANGED <<pending, sent, coach, medals, retries, fell, overtaken, outcome>>

(* connect or recv fails, or a file cannot be copied: the process exits. *)
MapGone ==
  /\ Holds("journey", "connect") \/ Holds("journey", "play")
  /\ outcome' = "exited"
  /\ UNCHANGED <<stack, pending, sent, coach, medals, retries, fell, overtaken>>

LeaveWon ==
  /\ Holds("journey", "won")
  /\ Disconnect("next")
  /\ UNCHANGED <<pending, sent, medals, retries, fell, overtaken>>

(* Mutant: a death costs no life. *)
LeaveLostKeepsLife ==
  /\ Holds("journey", "lost")
  /\ Disconnect("connect")
  /\ UNCHANGED <<pending, sent, medals, retries, fell, overtaken>>

LeaveLost ==
  /\ Holds("journey", "lost")
  /\ Disconnect("load")
  /\ UNCHANGED <<pending, sent, medals, retries, fell, overtaken>>

(* coach_next_map *)
NextMap ==
  /\ Holds("journey", "next")
  /\ coach' = [coach EXCEPT !.index = @ + 1]
  /\ IF coach.index < Maps THEN GoTo("connect") ELSE Return
  /\ UNCHANGED <<pending, sent, medals, retries, fell, overtaken, outcome>>

(* A journey ends for want of lives. *)
Fall ==
  /\ Return
  /\ fell' = fell + 1
  /\ overtaken' = (overtaken \/ \E k \in DOMAIN stack : stack[k].at \in {"advance", "begin"})

(* Mutant: the journey goes on with no lives left. *)
JourneyTestAtZero ==
  /\ Holds("journey", "test")
  /\ IF coach.life >= 0 THEN GoTo("connect") /\ UNCHANGED <<fell, overtaken>>
                        ELSE Fall
  /\ UNCHANGED <<pending, sent, coach, medals, retries, outcome>>

(* Mutant: the map is played again on the closed connection. *)
JourneyTestNoReconnect ==
  /\ Holds("journey", "test")
  /\ IF coach.life > 0 THEN GoTo("play") /\ UNCHANGED <<fell, overtaken>>
                       ELSE Fall
  /\ UNCHANGED <<pending, sent, coach, medals, retries, outcome>>

(* After the loss of a life: the same map again, or the end of the journey. *)
JourneyTest ==
  /\ Holds("journey", "test")
  /\ IF coach.life > 0 THEN GoTo("connect") /\ UNCHANGED <<fell, overtaken>>
                       ELSE Fall
  /\ UNCHANGED <<pending, sent, coach, medals, retries, outcome>>

-----------------------------------------------------------------------------
(* life-- and life++, in the journey and in the handlers: a load and a      *)
(* store, with room for a signal between them.                              *)
Load ==
  /\ Running /\ Top.at = "load" /\ Top.fn \in {"journey"} \cup Signals
  /\ ~Dangling
  /\ stack' = [stack EXCEPT ![Len(stack)] =
                 [@ EXCEPT !.at = "store", !.id = coach.id, !.reg = coach.life]]
  /\ UNCHANGED <<pending, sent, coach, medals, retries, fell, overtaken, outcome>>

Store ==
  /\ Running /\ Top.at = "store" /\ ~Dangling
  /\ coach' = [coach EXCEPT !.life = Top.reg + (IF Top.fn = "gift" THEN 1 ELSE -1)]
  /\ stack' = [stack EXCEPT ![Len(stack)] =
                 [@ EXCEPT !.at = IF Top.fn = "gift" THEN "end" ELSE "test", !.reg = 0]]
  /\ UNCHANGED <<pending, sent, medals, retries, fell, overtaken, outcome>>

HandlerTest ==
  /\ Holds("term", "test")
  /\ IF coach.life > 0 THEN GoTo("end")
                       ELSE Call("zero", "disconnect", coach.id, "end")
  /\ UNCHANGED <<pending, sent, coach, medals, retries, fell, overtaken, outcome>>

(* zero_lives: the retry, always taken. *)
ZeroDisconnect ==
  /\ Holds("zero", "disconnect")
  /\ Disconnect("destroy")
  /\ UNCHANGED <<pending, sent, medals, retries, fell, overtaken>>

ZeroDestroy ==
  /\ Holds("zero", "destroy")
  /\ retries' = retries + 1
  /\ medals' = DeleteDir(medals, MedallasEndsWithSlash)
  /\ coach' = [coach EXCEPT !.live = FALSE]
  /\ GoTo("load")
  /\ UNCHANGED <<pending, sent, fell, overtaken, outcome>>

ZeroLoad ==
  /\ In("zero", "load")
  /\ CargarMetadata
  /\ GoTo("advance")
  /\ UNCHANGED <<pending, sent, medals, retries, fell, overtaken, outcome>>

End ==
  /\ Running /\ Top.at = "end"
  /\ Return
  /\ UNCHANGED <<pending, sent, coach, medals, retries, fell, overtaken, outcome>>

-----------------------------------------------------------------------------
(* kill, by another process. *)
Kill(s) ==
  /\ outcome = "playing" /\ sent[s] < Limit(s)
  /\ sent' = [sent EXCEPT ![s] = @ + 1]
  /\ pending' = pending \cup {s}
  /\ UNCHANGED <<stack, coach, medals, retries, fell, overtaken, outcome>>

Deliver(s) ==
  /\ outcome = "playing" /\ s \in pending /\ ~Masked(s)
  /\ pending' = pending \ {s}
  /\ stack' = Append(stack, Frame(s, "load"))
  /\ UNCHANGED <<sent, coach, medals, retries, fell, overtaken, outcome>>

(* SIGINT: game_over destroys the coach, whatever the process was doing. *)
GameOver ==
  /\ outcome = "playing"
  /\ outcome' = IF coach.live THEN "exited" ELSE "broken"
  /\ UNCHANGED <<stack, pending, sent, coach, medals, retries, fell, overtaken>>

Step ==
  \/ MainLoad \/ MainCheck \/ MainReport \/ Advance \/ Begin
  \/ Connect \/ Complete \/ Victim \/ MapGone \/ LeaveWon \/ LeaveLost
  \/ NextMap \/ JourneyTest
  \/ Load \/ Store \/ HandlerTest
  \/ ZeroDisconnect \/ ZeroDestroy \/ ZeroLoad \/ End
  \/ UseAfterFree
  \/ \E s \in Signals : Deliver(s)

Next == Step \/ GameOver \/ \E s \in Signals : Kill(s)

Spec == Init /\ [][Next]_vars

(* The process runs, and every map answers: nothing is said of the signals. *)
FairSpec == Spec /\ WF_vars(Step)

-----------------------------------------------------------------------------
(* The types; no handler interrupts itself, and zero_lives has at most one  *)
(* journey above it.                                                        *)
TypeOK ==
  /\ stack \in Seq([fn : {"main", "journey", "zero"} \cup Signals,
                    at : {"load", "advance", "begin", "check", "report", "connect", "play", "won",
                          "lost", "next", "store", "test", "disconnect",
                          "destroy", "end"},
                    id : 0 .. retries + 1, reg : Int])
  /\ \A i, j \in DOMAIN stack :
        i < j /\ stack[i].fn = stack[j].fn => stack[i].fn \in {"journey", "zero"}
  /\ pending \subseteq Signals
  /\ sent \in [Signals -> Nat] /\ \A s \in Signals : sent[s] <= Limit(s)
  /\ coach \in [id : 0 .. retries + 1, live : BOOLEAN, life : Int, index : 0 .. Maps + 2,
                conn : {"none", "open", "closed"}]
  /\ medals \subseteq 1 .. Maps
  /\ retries \in Nat /\ fell \in Nat /\ overtaken \in BOOLEAN
  /\ outcome \in {"playing", "maestro", "exited", "broken"}

(* No journey goes to a map, or plays in it, for a coach without lives,     *)
(* however the losses by deadlock (main.c:137), by SIGTERM (44) and the     *)
(* gifts of SIGUSR1 (51) fall into one another's updates and retries; but   *)
(* for a handler whose retry ran, and ran out of lives, while a load was    *)
(* about to begin its own journey: that one goes on from the map after.     *)
PlaysAlive ==
  /\ outcome = "playing" /\ Top.fn = "journey" /\ ~Dangling /\ ~overtaken
  /\ Top.at \in {"connect", "play", "won", "lost", "next"}
  => coach.life > 0

(* "se ha convertido en Maestro" (main.c:206) is reported with a medal of   *)
(* every map, unless lives ran out in two journeys, of which main tests the *)
(* first only (195), or a gift came between the end of the first one and    *)
(* that test.                                                               *)
MaestroHasAllMedals ==
  outcome = "maestro" =>
    \/ medals = 1 .. Maps
    \/ fell >= 2
    \/ fell = 1 /\ sent["gift"] > 0

(* Until a coach runs out of lives no coach and no connection is used after *)
(* it was freed: the only other way to break the process is a signal that   *)
(* comes before main has loaded the metadata (main.c:166, 187).             *)
OnlyRetriesBreak ==
  outcome = "broken" =>
    \/ coach.id = 0
    \/ retries > 0
    \/ \E k \in DOMAIN stack : stack[k].fn = "zero"

(* If the maps answer, the process ends: no sequence of deaths, lost        *)
(* updates and retries, one inside the other, goes on for ever.             *)
TripEnds == <>(outcome # "playing")

-----------------------------------------------------------------------------
(* The inductive invariant.  The stack: main under everything, each call    *)
(* over the place it returns to, and no handler over its own kind.          *)
Depths == DOMAIN stack
Sites ==
  [main |-> {"load", "advance", "begin", "check", "report"},
   journey |-> {"connect", "play", "won", "lost", "next", "load", "store", "test"},
   zero |-> {"disconnect", "destroy", "load", "advance", "begin", "end"},
   term |-> {"load", "store", "test", "end"},
   gift |-> {"load", "store", "end"}]

Is(k, fn, ats) == stack[k].fn = fn /\ stack[k].at \in ats

Stacked ==
  /\ Len(stack) > 0 /\ stack[1].fn = "main"
  /\ \A k \in Depths : stack[k].at \in Sites[stack[k].fn]
  /\ \A k \in Depths \ {1} :
        /\ stack[k].fn # "main"
        /\ stack[k].fn = "journey" => Is(k - 1, "main", {"check"}) \/ Is(k - 1, "zero", {"end"})
        /\ stack[k].fn = "zero" => Is(k - 1, "main", {"report"}) \/ Is(k - 1, "term", {"end"})

(* A handler was sent, and one kind of them is only what its counter says.  *)
Delivered ==
  \A s \in Signals : s \in pending \/ (\E k \in Depths : stack[k].fn = s) => sent[s] > 0

(* Which coach is loaded, which were, and who holds which.                  *)
Own(k) == stack[k].id = coach.id
Unloaded(k) == stack[k].fn \in {"main", "zero"} /\ stack[k].at = "load"
Retrying(k) == Is(k, "zero", {"disconnect", "destroy", "load"})

Allocated ==
  /\ coach.id = retries + (IF coach.live THEN 1 ELSE 0)
  /\ \A k \in Depths :
        /\ stack[k].id <= coach.id
        /\ stack[k].fn = "journey" \/ stack[k].at = "store" => stack[k].id > 0
        /\ Is(k, "zero", {"load", "advance", "begin", "end"}) => retries > 0
        /\ Unloaded(k) => /\ ~coach.live
                          /\ \A j \in Depths : j > k => stack[j].fn \in Signals /\ stack[j].at = "load"

(* Until a retry, the connection is open where a journey plays.             *)
Connected ==
  retries = 0 /\ (\A k \in Depths : stack[k].fn # "zero") =>
    \A k \in Depths : Is(k, "journey", {"play", "won", "lost"}) => coach.conn = "open"

(* A retry leaves the journeys under it with a coach that is gone, and      *)
(* inside the handler of SIGTERM only a gift interrupts it.                 *)
Outdated ==
  \A k, j \in Depths : k < j =>
    /\ stack[k].fn = "journey" /\ stack[j].fn = "zero" /\ ~Retrying(j) => ~Own(k)
    /\ stack[k].fn = "journey" /\ stack[j].fn = "journey" => ~Own(k)
    /\ stack[k].fn = "term" /\ stack[j].fn = "zero" /\ stack[j].at # "end" =>
         \A i \in Depths : i > j => stack[i].fn = "gift"

(* Where the coach is on its sheet.                                         *)
Indexed ==
  \A k \in Depths :
    /\ stack[k].fn = "journey" /\ Own(k) => coach.index \in 1 .. Maps
    /\ Is(k, "journey", {"won", "next"}) /\ Own(k) => coach.index \in medals
    /\ stack[k].at = "advance" => coach.index <= Maps + 1
    /\ \A j \in Depths : j < k /\ stack[j].fn = "term" =>
         /\ stack[k].at = "advance" => coach.index = 0
         /\ stack[k].at = "begin" => coach.index = 1
    /\ stack[k].at = "begin" =>
         coach.index > 0 \/ \E j \in Depths : j > k /\ stack[j].at = "advance"

(* Whoever counts on a life has one, or it is about to be looked at, or the *)
(* coach is about to be replaced.                                           *)
Counts(k) == \/ stack[k].fn = "journey" /\ stack[k].at # "test" /\ Own(k)
             \/ stack[k].at \in {"advance", "begin"}
Excused(k, n) == \E j \in Depths : k < j /\ j <= n /\ (Retrying(j) \/ stack[j].at = "test")

LivesLeft ==
  ~overtaken =>
    \A k \in Depths : Counts(k) =>
      /\ coach.life > 0 \/ Excused(k, Len(stack))
      /\ \A g \in Depths : k < g /\ Is(g, "gift", {"store"}) /\ Own(g) =>
           stack[g].reg > 0 \/ Excused(k, g)

(* The medals.  Until a journey falls, and after that in the retry that     *)
(* main makes of it, the maps before the index have theirs; in a retry that *)
(* a handler makes they have too.                                           *)
Full == medals = 1 .. Maps
Covered == 1 .. coach.index - 1 \subseteq medals
Stale == \E k \in Depths : /\ Retrying(k)
                           /\ \A j \in Depths : j > k => Retrying(j) \/ stack[j].fn \in Signals
Over(k, fns) == k < Len(stack) /\ stack[k + 1].fn \in fns
Past(k) == \/ Is(k, "main", {"check"}) /\ ~Over(k, {"journey"})
           \/ Is(k, "main", {"report"}) /\ ~Over(k, {"zero"})
           \/ Is(k, "zero", {"end"}) /\ ~Over(k, {"journey"})
InRetry ==
  \E k \in Depths : stack[k].fn = "zero" /\ (stack[k].at \in {"advance", "begin"} \/ Over(k, {"journey"}))

FellOnce == fell = 1 /\ sent["gift"] = 0
Clean == fell = 0 \/ (FellOnce /\ stack[1].at = "report")

Earned ==
  /\ stack[1].at = "load" => fell = 0
  /\ Clean \/ (FellOnce /\ InRetry) => Full \/ Covered \/ Stale
  /\ Clean => \A k \in Depths :
       /\ Past(k) => Full
       /\ stack[k].at = "advance" =>
            \/ Full
            \/ coach.index = 0
            \/ \E j \in Depths : j > k /\ (stack[j].fn = "journey" \/ stack[j].at = "begin")
  /\ fell = 0 /\ stack[1].at = "report" => Full
  /\ FellOnce /\ stack[1].at # "report" =>
       \/ Full
       \/ InRetry
       \/ /\ coach.life <= 0
          /\ \A k \in Depths : stack[k].at = "store" /\ Own(k) => stack[k].reg <= 0

IInv ==
  /\ TypeOK /\ Stacked /\ Delivered /\ Allocated /\ Connected /\ Outdated
  /\ Indexed /\ LivesLeft /\ Earned
  /\ MaestroHasAllMedals /\ OnlyRetriesBreak

=============================================================================
