-------------------------- MODULE ResearchSession --------------------------
(***************************************************************************)
(* One research session of predict_agent (research/sdk.py): the messages   *)
(* that _run reads from the Agent SDK, the hooks the SDK calls before and  *)
(* after each tool, the session's deadline, and the close with its own.    *)
(* Hooks run to their end without an await, so each call of one is a step; *)
(* the SDK is external, and may ask for tools in any order, before the     *)
(* init report and while the session is being closed too.  Module          *)
(* ResearchRun has what the run makes of the outcome.                      *)
(***************************************************************************)
EXTENDS FiniteSets

CONSTANT Calls   \* tool calls the session may ask for

VARIABLES
  phase,       \* running the session, closing it, or done
  ended,       \* how the reading of messages ended
  inits,       \* history: the init reports received, sound or not
  reported,    \* a ResultMessage came
  verified, hookError,             \* _Session
  seen, fetched,                   \* its transcript and fetched URLs, by call
  structured, cost, error,         \* what the outcome will say
  call         \* per call, the tool and how far it has come

sessionState == <<verified, hookError, seen, fetched>>
sessionResult == <<structured, cost, error>>
sessionVars == <<phase, ended, inits, reported, sessionState, sessionResult, call>>

NoError == "none"
Tools == {"WebSearch", "WebFetch", "StructuredOutput"}

(* What a call may ask for: a research tool, a URL that may not be fetched, *)
(* a tool outside the toolset, or an input the hook cannot read.            *)
Asks == Tools \cup {"BlockedURL", "OtherTool", "Unreadable"}

SessionInit ==
  /\ phase = "running" /\ ended = "no" /\ inits = {} /\ reported = FALSE
  /\ verified = FALSE /\ hookError = FALSE /\ seen = {} /\ fetched = {}
  /\ structured = FALSE /\ cost = "none" /\ error = NoError
  /\ call = [c \in Calls |-> [ask |-> "none", at |-> "unasked"]]

-----------------------------------------------------------------------------
(* The hooks.  Everything is denied until the toolset is verified.         *)
(* Faulty variant: a known tool is allowed at once. *)
AllowedAtOnce(ask) == ask \in Tools

Allowed(ask) == verified /\ ask \in Tools

PreToolUse(c) ==
  /\ phase # "done" /\ call[c].at = "unasked"
  /\ \E ask \in Asks :
       /\ call' = [call EXCEPT ![c] = [ask |-> ask,
                                       at |-> IF Allowed(ask) THEN "running" ELSE "denied"]]
       /\ seen' = IF ~Allowed(ask) THEN seen \cup {<<"denied", c>>}
                  ELSE IF ask = "StructuredOutput" THEN seen
                  ELSE seen \cup {<<"call", c>>}
  /\ UNCHANGED <<phase, ended, inits, reported, verified, hookError, fetched, sessionResult>>

(* A tool that ran: its response is a page that may be cited, some other   *)
(* response, or one the hook fails on.                                     *)
Records(c, event, citable) ==
  /\ seen' = IF call[c].ask = "StructuredOutput" THEN seen ELSE seen \cup {<<event, c>>}
  /\ fetched' = IF citable /\ call[c].ask = "WebFetch" THEN fetched \cup {c} ELSE fetched
  /\ UNCHANGED hookError

Fails(c) ==
  /\ call[c].ask # "StructuredOutput"
  /\ hookError' = TRUE
  /\ UNCHANGED <<seen, fetched>>

PostToolUse(c) ==
  /\ phase # "done" /\ call[c].at = "running"
  /\ \E response \in {"page", "other", "unreadable"} :
       /\ call' = [call EXCEPT ![c].at = IF response = "page" THEN "page" ELSE "ran"]
       /\ IF response = "unreadable" THEN Fails(c) ELSE Records(c, "result", response = "page")
  /\ UNCHANGED <<phase, ended, inits, reported, verified, sessionResult>>

PostToolUseFailure(c) ==
  /\ phase # "done" /\ call[c].at = "running"
  /\ call' = [call EXCEPT ![c].at = "ran"]
  /\ Records(c, "tool_error", FALSE) \/ Fails(c)
  /\ UNCHANGED <<phase, ended, inits, reported, verified, sessionResult>>

-----------------------------------------------------------------------------
(* The messages.  An init report with any other toolset breaks the loop.   *)
Reading == phase = "running" /\ ended = "no" /\ ~reported

ReceiveInit ==
  /\ Reading
  /\ \/ /\ inits' = inits \cup {"sound"}
        /\ verified' = TRUE
        /\ UNCHANGED <<phase, ended, error>>
     \/ /\ inits' = inits \cup {"unsound"}
        /\ error' = "TOOLSET_MISMATCH"
        /\ phase' = "closing" /\ ended' = "broke"
        /\ UNCHANGED verified
  /\ UNCHANGED <<reported, hookError, seen, fetched, structured, cost, call>>

(* The result, the last message the SDK sends: its cost counts in any case, *)
(* the rest only from a verified session.                                   *)
Result(output, success) ==
  IF ~verified THEN UNCHANGED <<structured, error>>
  ELSE IF success THEN /\ structured' = output
                       /\ error' = IF output THEN NoError ELSE "NO_RESULT"
  ELSE structured' = structured /\ error' = "SESSION_ERROR"

ReceiveResult ==
  /\ Reading
  /\ reported' = TRUE
  /\ cost' \in {"none", "known"}
  /\ \E output, success \in BOOLEAN : Result(output, success)
  /\ UNCHANGED <<phase, ended, inits, sessionState, call>>

(* The stream ends; the deadline passes, which a timeout of the SDK's own  *)
(* also counts as; or the SDK raises, be it while starting.                *)
MessagesEnd ==
  /\ phase = "running"
  /\ phase' = "closing"
  /\ ended' \in {"stream"} \cup IF reported THEN {} ELSE {"timeout", "raised"}
  /\ UNCHANGED <<inits, reported, sessionState, sessionResult, call>>

-----------------------------------------------------------------------------
(* The close, always made, within its own bound: whatever it raises takes  *)
(* the place of what ended the session.                                    *)
Outcome(code, keepResult, keepCost) ==
  /\ error' = code
  /\ structured' = (keepResult /\ structured)
  /\ cost' = IF keepCost THEN cost ELSE "none"

(* Faulty variant: tool results that were lost are not looked at. *)
LastProblemIgnoringHooks ==
  IF error # NoError THEN error
  ELSE IF ~verified  THEN "TOOLSET_MISMATCH"
  ELSE IF ~structured THEN "NO_RESULT"
  ELSE NoError

(* What is still wrong with a session that ended and closed in order. *)
LastProblem ==
  IF error # NoError THEN error
  ELSE IF ~verified  THEN "TOOLSET_MISMATCH"
  ELSE IF hookError  THEN "HOOK_ERROR"
  ELSE IF ~structured THEN "NO_RESULT"
  ELSE NoError

CloseInTime ==
  CASE ended \in {"stream", "broke"} -> Outcome(LastProblem, TRUE, TRUE)
    [] ended = "timeout"             -> Outcome("TIMEOUT", FALSE, FALSE)
    [] ended = "raised"              -> Outcome("SDK_ERROR", TRUE, TRUE)

CloseHung == Outcome("CLEANUP_TIMEOUT", FALSE, FALSE)
CloseRaised == Outcome("SDK_ERROR", TRUE, TRUE)

Close ==
  /\ phase = "closing"
  /\ phase' = "done"
  /\ CloseInTime \/ CloseHung \/ CloseRaised
  /\ UNCHANGED <<ended, inits, reported, sessionState, call>>

SessionNext ==
  \/ ReceiveInit \/ ReceiveResult \/ MessagesEnd \/ Close
  \/ \E c \in Calls : PreToolUse(c) \/ PostToolUse(c) \/ PostToolUseFailure(c)

SessionSpec == SessionInit /\ [][SessionNext]_sessionVars

-----------------------------------------------------------------------------
Done == phase = "done"
Ran(c) == call[c].at \in {"running", "ran", "page"}

(* What a session returns is worth what it says.  Without an error it      *)
(* ended by itself and was closed, every init report was sound, and it     *)
(* returned an answer with the result of each tool that finished on        *)
(* record; one that ran out of its time, or whose close did, leaves no     *)
(* answer, and no cost that may be less than what it spent (sdk.py lines   *)
(* 400 and 407).                                                           *)
SoundOutcome ==
  /\ Done /\ error = NoError =>
       /\ ended = "stream" /\ reported /\ structured
       /\ inits = {"sound"}
       /\ \A c \in Calls : call[c].at \in {"ran", "page"} /\ call[c].ask # "StructuredOutput" =>
            <<"call", c>> \in seen /\ {<<"result", c>>, <<"tool_error", c>>} \cap seen # {}
  /\ Done /\ (ended = "timeout" \/ error \in {"TIMEOUT", "CLEANUP_TIMEOUT"}) =>
       ~structured /\ cost = "none" /\ error # NoError

(* No tool runs before the toolset has been reported sound, whatever the   *)
(* order in which the SDK calls the hooks and delivers its messages; and a *)
(* URL is citable only when its fetch was allowed, put on the transcript   *)
(* and answered with a page (sdk.py lines 207 and 258).                    *)
ToolsRunVerified ==
  /\ \A c \in Calls : Ran(c) => "sound" \in inits /\ call[c].ask \in Tools
  /\ \A c \in fetched : /\ call[c] = [ask |-> "WebFetch", at |-> "page"]
                        /\ {<<"call", c>>, <<"result", c>>} \subseteq seen

=============================================================================
