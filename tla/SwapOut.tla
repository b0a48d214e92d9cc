------------------------------ MODULE SwapOut ------------------------------
(***************************************************************************)
(* Swaps that move sats from the channels of the node to its hot wallet.   *)
(* A task of the cron process starts them (swapOut), loopd carries them    *)
(* out, and the trigger processes that listen to loopd book their fees     *)
(* (handleSwapOutCompleted, addSwapFeeTxSend).  A trigger opens its        *)
(* listener when it starts, if loopd answers then, and never later.  The   *)
(* listener does not await the handler, so that a trigger may have several *)
(* calls of it open.  A trigger may stop at any point and is started       *)
(* again; while a new version is rolled out there are two.  Of the two     *)
(* loopds a trigger listens to, the module has the one that is active.     *)
(***************************************************************************)
EXTENDS Integers, FiniteSets

CONSTANTS
  Triggers,      \* trigger processes
  Slots,         \* for the calls of the handler a trigger has open at a time
  Swaps,
  Outbound,      \* outbound liquidity at the start
  SwapAmount,    \* swapOutAmount
  MaxRestarts,      \* bound on triggers that stop
  MaxRepeats,       \* bound on reports a listener has had before
  MaxFailedCalls,   \* bound on calls that fail
  None

SwapBounds ==
  /\ Outbound \in Nat /\ SwapAmount \in Nat \ {0}
  /\ {MaxRestarts, MaxRepeats, MaxFailedCalls} \subseteq Nat /\ None \notin Swaps

ASSUME SwapOutAssumption == SwapBounds

VARIABLES
  outbound,   \* liquidity in the channels
  hotLow,     \* whether the hot wallet is below loopOutWhenHotWalletLessThan
  task,       \* control point of the cron task
  swap,       \* state of a swap
  fee,        \* what the fees of the swap add up to: none, or some
  entries,    \* number of ledger entries for the fee of a swap
  metadata,   \* swaps with transaction metadata
  listening,  \* triggers with an open listener
  heard,      \* swaps loopd has reported to a trigger since it started
  dropped,    \* those of them that a call of the trigger gave up
  handler,    \* control point of a call of the handler
  handled,    \* swap of the call
  overlaps,   \* swaps whose metadata was looked for while another call booked the fee
  cut,        \* swaps with an entry that was left without metadata
  restarts, repeats, failedCalls

loopVars == <<outbound, hotLow, swap, fee>>
bookVars == <<entries, metadata>>
listenerVars == <<listening, heard, dropped>>
triggerVars == <<listenerVars, handler, handled>>
faultVars == <<overlaps, cut, restarts, repeats, failedCalls>>
swapVars == <<task, loopVars, bookVars, triggerVars, faultVars>>

\* The calls of the handler: c[1] is the trigger that runs c.
Calls == Triggers \X Slots
Points == {"idle", "check", "commit", "metadata"}

\* Types of all the variables.
SwapTypeOK ==
  /\ outbound \in 0..Outbound /\ hotLow \in BOOLEAN /\ task \in {"idle", "start"}
  /\ swap \in [Swaps -> {"none", "started", "success", "failed"}] /\ fee \in [Swaps -> BOOLEAN]
  /\ entries \in [Swaps -> Nat] /\ metadata \subseteq Swaps
  /\ listening \subseteq Triggers
  /\ heard \in [Triggers -> SUBSET Swaps] /\ dropped \in [Triggers -> SUBSET Swaps]
  /\ handler \in [Calls -> Points] /\ handled \in [Calls -> Swaps \cup {None}]
  /\ \A c \in Calls : handler[c] # "idle" => handled[c] \in Swaps
  /\ overlaps \subseteq Swaps /\ cut \subseteq Swaps
  /\ restarts \in 0..MaxRestarts /\ repeats \in 0..MaxRepeats /\ failedCalls \in 0..MaxFailedCalls

SwapInit ==
  /\ outbound = Outbound /\ hotLow = FALSE /\ task = "idle"
  /\ swap = [k \in Swaps |-> "none"] /\ fee = [k \in Swaps |-> FALSE]
  /\ entries = [k \in Swaps |-> 0] /\ metadata = {}
  /\ listening \in SUBSET Triggers   \* startSwapMonitor: those that found loopd up
  /\ heard = [t \in Triggers |-> {}] /\ dropped = [t \in Triggers |-> {}]
  /\ handler = [c \in Calls |-> "idle"] /\ handled = [c \in Calls |-> None]
  /\ overlaps = {} /\ cut = {} /\ restarts = 0 /\ repeats = 0 /\ failedCalls = 0

-----------------------------------------------------------------------------
(* The node and loopd *)

\* On-chain payments deplete the hot wallet.
HotWalletDepleted ==
  /\ ~hotLow /\ hotLow' = TRUE
  /\ UNCHANGED <<task, outbound, swap, fee, bookVars, triggerVars, faultVars>>

\* loopd completes a swap, with a fee or for nothing, or gives it up.
SwapEnds(k) ==
  /\ swap[k] = "started"
  /\ \/ /\ swap' = [swap EXCEPT ![k] = "success"] /\ hotLow' = FALSE
        /\ \E charged \in BOOLEAN : fee' = [fee EXCEPT ![k] = charged]
        /\ UNCHANGED outbound
     \/ /\ swap' = [swap EXCEPT ![k] = "failed"] /\ outbound' = outbound + SwapAmount
        /\ UNCHANGED <<hotLow, fee>>
  /\ UNCHANGED <<task, bookVars, triggerVars, faultVars>>

-----------------------------------------------------------------------------
(* The cron task *)

\* The hot wallet is low, and the channels hold more than a swap takes.
getSwapOutAmount == IF hotLow /\ outbound > SwapAmount THEN SwapAmount ELSE 0

\* swapOut reads both balances,
ReadBalances ==
  /\ task = "idle" /\ getSwapOutAmount > 0 /\ task' = "start"
  /\ UNCHANGED <<loopVars, bookVars, triggerVars, faultVars>>

\* and asks loopd for a swap, whose answer may be an error.
swapOut ==
  /\ task = "start" /\ task' = "idle"
  /\ \/ UNCHANGED <<outbound, swap>>
     \/ /\ outbound >= SwapAmount /\ outbound' = outbound - SwapAmount
        /\ \E k \in Swaps : swap[k] = "none" /\ swap' = [swap EXCEPT ![k] = "started"]
  /\ UNCHANGED <<hotLow, fee, bookVars, triggerVars, faultVars>>

-----------------------------------------------------------------------------
(* The triggers *)

\* The swap is not passed on (mutant).
HandleNothing(t, k) ==
  /\ swap[k] = "success" /\ t \in listening /\ k \notin heard[t]
  /\ heard' = [heard EXCEPT ![t] = @ \cup {k}]
  /\ \E c \in {t} \X Slots : handler[c] = "idle" /\ handler' = [handler EXCEPT ![c] = "check"]
  /\ UNCHANGED <<task, loopVars, bookVars, listening, dropped, handled, faultVars>>

\* loopd reports the end of a swap: to each listener, to a new one again, and now and
\* then to the same one again.  The handler books the fee of a success, if there is one.
handleSwapOutCompleted(t, k) ==
  /\ swap[k] \in {"success", "failed"} /\ t \in listening
  /\ IF k \in heard[t] THEN repeats < MaxRepeats /\ repeats' = repeats + 1 ELSE UNCHANGED repeats
  /\ heard' = [heard EXCEPT ![t] = @ \cup {k}]
  /\ IF swap[k] = "success" /\ fee[k]
       THEN \E c \in {t} \X Slots :
              /\ handler[c] = "idle"
              /\ handler' = [handler EXCEPT ![c] = "check"] /\ handled' = [handled EXCEPT ![c] = k]
       ELSE UNCHANGED <<handler, handled>>
  /\ UNCHANGED <<task, loopVars, bookVars, listening, dropped, overlaps, cut, restarts, failedCalls>>

Booking(k) == {c \in Calls : handler[c] \in {"commit", "metadata"} /\ handled[c] = k}

Ends(c) == handler' = [handler EXCEPT ![c] = "idle"] /\ handled' = [handled EXCEPT ![c] = None]

\* addSwapFeeTxSend without its check (mutant).
SkipCheck(c) ==
  /\ handler[c] = "check" /\ handler' = [handler EXCEPT ![c] = "commit"]
  /\ UNCHANGED <<task, loopVars, bookVars, listenerVars, handled, faultVars>>

\* addSwapFeeTxSend that marks the swap before it books the fee (mutant).
MarkFirst(c) ==
  /\ handler[c] = "check" /\ metadata' = metadata \cup {handled[c]}
  /\ IF handled[c] \in metadata
       THEN Ends(c)
       ELSE handler' = [handler EXCEPT ![c] = "commit"] /\ UNCHANGED handled
  /\ UNCHANGED <<task, loopVars, entries, listenerVars, faultVars>>

\* addSwapFeeTxSend looks for metadata of the swap,
findByHash(c) ==
  /\ handler[c] = "check"
  /\ IF handled[c] \in metadata
       THEN Ends(c) /\ UNCHANGED overlaps
       ELSE /\ handler' = [handler EXCEPT ![c] = "commit"]
            /\ overlaps' = IF Booking(handled[c]) # {} THEN overlaps \cup {handled[c]} ELSE overlaps
            /\ UNCHANGED handled
  /\ UNCHANGED <<task, loopVars, bookVars, listenerVars, cut, restarts, repeats, failedCalls>>

\* commits the entry,
commit(c) ==
  /\ handler[c] = "commit" /\ handler' = [handler EXCEPT ![c] = "metadata"]
  /\ entries' = [entries EXCEPT ![handled[c]] = @ + 1]
  /\ UNCHANGED <<task, loopVars, metadata, listenerVars, handled, faultVars>>

\* and persists its metadata.
persistAll(c) ==
  /\ handler[c] = "metadata" /\ Ends(c)
  /\ metadata' = metadata \cup {handled[c]}
  /\ UNCHANGED <<task, loopVars, entries, listenerVars, faultVars>>

\* The swaps whose entry stays without metadata when the calls in C end.
CutOff(C) == {handled[c] : c \in {d \in C : handler[d] = "metadata"}}

\* A call of the database fails: addSwapFeeTxSend returns the error, which
\* nobody heeds.
CallFails(c) ==
  /\ handler[c] # "idle" /\ failedCalls < MaxFailedCalls /\ failedCalls' = failedCalls + 1
  /\ Ends(c) /\ cut' = cut \cup CutOff({c})
  /\ dropped' = [dropped EXCEPT ![c[1]] = @ \cup {handled[c]}]
  /\ UNCHANGED <<task, loopVars, bookVars, listening, heard, overlaps, restarts, repeats>>

\* The calls of a trigger end where they are.
Stops(t) ==
  /\ handler' = [c \in Calls |-> IF c[1] = t THEN "idle" ELSE handler[c]]
  /\ handled' = [c \in Calls |-> IF c[1] = t THEN None ELSE handled[c]]
  /\ cut' = cut \cup CutOff({t} \X Slots)

\* A trigger stops and is started again.  startSwapMonitor opens a listener if loopd
\* passes the health check; otherwise this trigger never has one.
Restart(t) ==
  /\ restarts < MaxRestarts /\ restarts' = restarts + 1 /\ Stops(t)
  /\ heard' = [heard EXCEPT ![t] = {}] /\ dropped' = [dropped EXCEPT ![t] = {}]
  /\ listening' \in {listening \cup {t}, listening \ {t}}
  /\ UNCHANGED <<task, loopVars, bookVars, overlaps, repeats, failedCalls>>

\* loopd closes the stream of a listener; the code listens for data only, and does not
\* open another.
StreamEnds(t) ==
  /\ t \in listening /\ listening' = listening \ {t}
  /\ UNCHANGED <<task, loopVars, bookVars, heard, dropped, handler, handled, faultVars>>

-----------------------------------------------------------------------------
CallStep(c) == findByHash(c) \/ commit(c) \/ persistAll(c)

TriggerStep(t) ==
  \/ \E k \in Swaps : handleSwapOutCompleted(t, k)
  \/ \E c \in {t} \X Slots : CallStep(c)

SwapNext ==
  \/ HotWalletDepleted \/ \E k \in Swaps : SwapEnds(k)
  \/ ReadBalances \/ swapOut
  \/ \E t \in Triggers : TriggerStep(t) \/ Restart(t) \/ StreamEnds(t)
  \/ \E c \in Calls : CallFails(c)

SwapSpec == SwapInit /\ [][SwapNext]_swapVars

\* A trigger that runs handles the events of its listener, and what it handles goes on.
SwapFairSpec == SwapSpec /\ \A t \in Triggers : WF_swapVars(TriggerStep(t))

-----------------------------------------------------------------------------
\* The fee of a swap is booked at most once, unless an entry was left without its
\* metadata, or two calls looked for the metadata before either had stored it:
\* addSwapFeeTxSend holds no lock between its check and persistAll.
SwapFeeOnce == \A k \in Swaps : entries[k] > 1 => k \in cut \cup overlaps

\* If some trigger has a listener that stays open, the fee of every successful swap
\* comes to be booked, though triggers stop and their calls are lost: a new listener is
\* told of the swap again.  Only a swap that this trigger gave up since it started, when
\* the database failed, may stay unbooked.  Without such a listener nothing is promised:
\* startSwapMonitor does not try again.
SwapFeeBooked ==
  \A t \in Triggers, k \in Swaps :
    <>[](t \in listening) =>
      (swap[k] = "success" /\ fee[k] ~> entries[k] > 0 \/ k \in dropped[t])
=============================================================================
