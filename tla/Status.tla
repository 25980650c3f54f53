------------------------------- MODULE Status -------------------------------
(***************************************************************************)
(* What the agent makes of the answer to local.query_status, in which      *)
(* miio_client says how it stands with the cloud.  The answer passes the   *)
(* hooks of rpc.Responses, which the packages add when main.go initialises *)
(* them: the script, the report of miio, and the cache, which tells the    *)
(* bluetooth app that all is well.  A hook that changes the answer ends    *)
(* the round.                                                              *)
(***************************************************************************)
EXTENDS Naturals, Sequences

CONSTANT MaxStarts      \* bound: times that the cloud turns to connected

ASSUME StatusAssumption == MaxStarts \in Nat

VARIABLES
    hook,       \* the hook that has the answer in hand, or none
    to,         \* the app that asked
    params,     \* what the answer says
    cloudState, \* what the report saw last
    report,     \* cloud_state, cloud_starts, cloud_uptime
    \* history:
    said,       \* what miio_client said in the last answer that the script let pass
    turned      \* how often that turned to connected

statusVars == <<hook, to, params, cloudState, report, said, turned>>

Connected == "cloud_connected"
Absent == ""            \* an answer without params, or no such field in the report
Says == {Connected, "cloud_trying", "cloud_retry", Absent}
Bluetooth == "bluetooth"
App == {Bluetooth, "other"}

StatusInit ==
    /\ hook = "none" /\ to = "other" /\ params = Absent
    /\ cloudState = Absent
    /\ report = [state |-> Absent, starts |-> 0, uptime |-> FALSE]
    /\ said = Absent /\ turned = 0
-----------------------------------------------------------------------------
\* Fault: the cache is initialised before miio.
CacheFirst == <<"lua", "cache", "report">>

\* rpc.Responses: lua.Init, miio.Init, cache.Init.
Responses == <<"lua", "report", "cache">>

\* The hook after the one that is done; none after the last, or if it changed the
\* answer.
Onward(changed) ==
    LET i == CHOOSE n \in DOMAIN Responses : Responses[n] = hook
    IN IF changed \/ i = Len(Responses) THEN "none" ELSE Responses[i + 1]

\* An answer of miio_client comes in.
AnswerComes(app, state) ==
    /\ hook = "none"
    /\ state = Connected => turned < MaxStarts
    /\ hook' = Responses[1]
    /\ to' = app /\ params' = state
    /\ UNCHANGED <<cloudState, report, said, turned>>

\* The script says nothing, or gives an answer of its own, or none.
ScriptPasses ==
    /\ hook = "lua"
    /\ hook' = Onward(FALSE)
    /\ said' = params
    /\ turned' = IF params = Connected /\ said # Connected THEN turned + 1 ELSE turned
    /\ UNCHANGED <<to, params, cloudState, report>>

ScriptAnswers ==
    /\ hook = "lua"
    /\ hook' = Onward(TRUE)
    /\ UNCHANGED <<to, params, cloudState, report, said, turned>>

\* The cloud's state is reported while it is connected; cloud_uptime stays.
miioReport ==
    /\ hook = "report"
    /\ hook' = Onward(FALSE)
    /\ cloudState' = params
    /\ report' = IF params = cloudState THEN report
                 ELSE IF params # Connected THEN [report EXCEPT !.state = Absent]
                 ELSE [state |-> Connected, starts |-> report.starts + 1, uptime |-> TRUE]
    /\ UNCHANGED <<to, params, said, turned>>

\* The cache's hook, after which the answer goes to the app.
Reassures == to = Bluetooth /\ params \in {"cloud_trying", "cloud_retry"}

miioResponse ==
    /\ hook = "cache"
    /\ hook' = Onward(Reassures)
    /\ params' = IF Reassures THEN Connected ELSE params
    /\ UNCHANGED <<to, cloudState, report, said, turned>>

StatusNext ==
    \/ \E app \in App, state \in Says : AnswerComes(app, state)
    \/ ScriptPasses \/ ScriptAnswers
    \/ miioReport \/ miioResponse
-----------------------------------------------------------------------------
\* Between answers the report says connected just when miio_client last did, and
\* counts how often it turned to that, though the bluetooth app is told otherwise
\* in the same message and the script may hold answers back (report.go:17-33,
\* cache.go:32-39, main.go:19-27, miio.go:166-171).
StatusReported ==
    hook = "none" =>
        /\ report.state = Connected <=> said = Connected
        /\ report.starts = turned

\* "cloud_uptime": "online status duration" (README.md:205).
UptimeOnline == hook = "none" /\ report.uptime => report.state = Connected
=============================================================================
