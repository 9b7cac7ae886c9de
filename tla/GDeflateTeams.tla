---------------------------- MODULE GDeflateTeams ---------------------------
(***************************************************************************)
(* The two residencies on the same page, round by round: the sequential    *)
(* team decodes a round, then the warp decodes it from the same bits. They *)
(* share nothing but the page, so the order in which they take their       *)
(* rounds is immaterial; it lets every round be compared. The source       *)
(* claims of them "the two agree on every value a round can observe"       *)
(* (src/gdeflate_decode.cuh).                                              *)
(***************************************************************************)
EXTENDS GDeflateTeam

VARIABLES
  page,                                        \* the page's bits
  hd, hlanes, hcursor, hidx, hwhy, hout, tokens,   \* the sequential team
  wd, wlanes, wcursor, wwhy, wout, phase, todo, step, \* the warp
  turn                                         \* whose round it is

Host == INSTANCE GDeflateHost WITH d <- hd, lanes <- hlanes, cursor <- hcursor,
          idx <- hidx, why <- hwhy, out <- hout
Warp == INSTANCE GDeflateWarp WITH d <- wd, lanes <- wlanes, cursor <- wcursor,
          why <- wwhy, out <- wout

hostVars == <<hd, hlanes, hcursor, hidx, hwhy, hout, tokens>>
warpVars == <<wd, wlanes, wcursor, wwhy, wout, phase, todo, step>>
vars == <<page, hostVars, warpVars, turn>>

Init == Host!Init /\ Warp!Init /\ turn = "host"

HostRound ==
  /\ turn = "host" /\ Host!Step
  /\ turn' = IF hidx' = 0 \/ Ended(hd') THEN "warp" ELSE "host"
  /\ UNCHANGED warpVars
WarpRound ==
  /\ turn = "warp" /\ Warp!Step
  /\ turn' = IF phase' = "between" THEN "host" ELSE "warp"
  /\ UNCHANGED hostVars

Done == turn = "host" /\ Ended(hd) /\ UNCHANGED vars

Next == HostRound \/ WarpRound \/ Done
Spec == Init /\ [][Next]_vars

-----------------------------------------------------------------------------
(* Properties. *)

BetweenRounds == turn = "host" /\ (hidx = 0 \/ Ended(hd))

\* Round after round the warp is where the sequential team is: the words each
\* lane was dealt, its occupancy and reservation, the cursor, the output
\* written, the place in the block; and when one refuses, so does the other,
\* with the same rung (the lowest lane's). A round leaves the whole team with or
\* the whole team without a verdict, so the lanes enter the next collective, or
\* leave the page, together.
ResidenciesAgree ==
  /\ BetweenRounds =>
       /\ wd.stage = hd.stage
       /\ wwhy[0] = hwhy
       /\ hd.stage # "refused" =>
            wd = hd /\ wlanes = hlanes /\ wcursor = hcursor /\ wout = hout
  /\ phase = "between" => \A l, k \in Lane : (wwhy[l] = "None") <=> (wwhy[k] = "None")

\* No lane writes, or holds a reservation, past the capacity, not even in a round
\* a lower lane refused and in which the output cursor may pass the capacity; and
\* while no lane has refused, no copy reads a byte that is not written yet: the
\* bytes before a reservation are complete when it is retired, in lane order. (In
\* a round a lower lane refused, a copy may pick up the hole that lane left; the
\* page is refused at the end of that round.)
WarpTouchesOwnBytes ==
  /\ DOMAIN wout \subseteq 0..Cap - 1
  /\ \A l \in Lane : wlanes[l].copy.pending =>
                      wlanes[l].copy.out_pos + wlanes[l].copy.length <= Cap
  /\ ~Warp!Refuses(wwhy) => Unwritten \notin {wout[p] : p \in DOMAIN wout}

\* What the sequential team promises (GDeflateHost); with ResidenciesAgree it is
\* the warp's promise too. Each word below the cursor went to exactly one lane, in
\* the page's order, and what a lane holds is enough: none starves of bits, and
\* neither fuel limit refuses a page.
WordsDealtOnce == Host!WordsDealtOnce /\ Host!BackstopsUnreached
\* A decoded page is the sequential expansion of its tokens.
OutputIsExpansion == Host!OutputIsExpansion
=============================================================================
