---- MODULE Dialogs ----
(***************************************************************************)
(* The three dialogs of home.html - progress, settings and compose - with  *)
(* the calls that open and close them: one browser page, whose handlers    *)
(* run one at a time, while answers and ends of transitions arrive in any  *)
(* order.  The user clicks with the mouse: what a dialog or a backdrop     *)
(* covers cannot be clicked.                                               *)
(***************************************************************************)
EXTENDS Modal

CONSTANTS
    Syncs,       \* bound: calls of /rest/mail/sync the server works on at once
    MaxCalls     \* bound: calls of any other kind that are unanswered at once

ASSUME DialogsAssumption == MaxCalls \in Nat \ {0}

DialogNames == {"progress", "settings", "compose"}

VARIABLES
    modal,       \* the dialogs
    sync,        \* "idle", "running", or "aborted": only the server goes on with it
    hooks,       \* the syncs that the end of the progress dialog aborts
    contacts,    \* calls of /rest/contacts.json under way
    ready,       \* the compose dialog is initialized
    letter,      \* the compose form: "empty", "written" or "posted"
    sends,       \* calls of /rest/mail/send under way
    loads,       \* calls that load the settings
    saves,       \* calls that save the settings
    odd          \* history: what has gone on that the page has no guard against

dialogVars == <<modal, sync, hooks, contacts, ready, letter, sends, loads, saves, odd>>

Oddities == {"reshown",  \* a dialog was shown while it was being hidden
             "late",     \* an answer opened a dialog over or under another one
             "twice"}    \* the Send button of a vanishing dialog was clicked again

DialogsTypeOK ==
    /\ modal \in [DialogNames -> Dialog]
    /\ sync \in [Syncs -> {"idle", "running", "aborted"}]
    /\ \A d \in DialogNames : ~modal[d].told
    /\ hooks = {s \in Syncs : sync[s] = "running"}
    /\ {contacts, sends, loads, saves} \subseteq 0..MaxCalls
    /\ ready \in BOOLEAN
    /\ letter \in {"empty", "written", "posted"}
    /\ odd \subseteq Oddities

DialogsInit ==
    /\ modal = [d \in DialogNames |-> Closed]
    /\ sync = [s \in Syncs |-> "idle"]
    /\ hooks = {}
    /\ contacts = 0 /\ sends = 0 /\ loads = 0 /\ saves = 0
    /\ ready = FALSE
    /\ letter = "empty"
    /\ odd = {}

----
\* The toolbars and lists of the page can be clicked.
PageIsFree == \A d \in DialogNames : Gone(modal[d])

\* Of the dialogs that are displayed, the last one of the document is on top.
Above(d) == CASE d = "progress" -> {"settings", "compose"}
              [] d = "settings" -> {"compose"}
              [] d = "compose"  -> {}

OnTop(d) == modal[d].visible /\ \A e \in Above(d) : ~modal[e].visible

Reshows(d) == ~modal[d].shown /\ ~Settled(modal[d])

NoteShow(d) == odd \cup (IF Reshows(d) THEN {"reshown"} ELSE {})

\* An answer opens d.
NoteLate(d) == NoteShow(d) \cup (IF PageIsFree \/ modal[d].shown THEN {} ELSE {"late"})

Shows(d) == /\ Room(modal[d])
            /\ modal' = [modal EXCEPT ![d] = Show(@)]

Hides(d) == /\ Room(modal[d])
            /\ modal' = [modal EXCEPT ![d] = Hide(@)]

\* A letter of its own for every opening: the form is reset before it is shown.
ShowCompose == Shows("compose") /\ letter' = "empty"

\* Seeded fault (PostedTwiceOnlyWhileFading): the form keeps the last letter.
ShowComposeAsItWas == Shows("compose") /\ letter' = letter

OpenCompose == ShowCompose

----
(* The refresh button *)

ClickRefresh == \E s \in Syncs :
    /\ PageIsFree
    /\ sync[s] = "idle"
    /\ Shows("progress")
    /\ sync' = [sync EXCEPT ![s] = "running"]
    /\ hooks' = hooks \cup {s}
    /\ odd' = NoteShow("progress")
    /\ UNCHANGED <<contacts, ready, letter, sends, loads, saves>>

\* Seeded fault (DialogsTypeOK): always() leaves the handler of the dialog's end.
AllHooks(s) == hooks

\* off() forgets every handler of the dialog's end.
Off(s) == {}

\* done or fail, and always.
SyncAnswered == \E s \in Syncs :
    /\ sync[s] = "running"
    /\ Hides("progress")
    /\ sync' = [sync EXCEPT ![s] = "idle"]
    /\ hooks' = Off(s)
    /\ UNCHANGED <<contacts, ready, letter, sends, loads, saves, odd>>

\* The server is through with a call that the page has given up.
ServerEnds == \E s \in Syncs :
    /\ sync[s] = "aborted"
    /\ sync' = [sync EXCEPT ![s] = "idle"]
    /\ UNCHANGED <<modal, hooks, contacts, ready, letter, sends, loads, saves, odd>>

----
(* The compose dialog *)

\* New, reply and forward: the first time, the dialog waits for the contacts.
ClickCompose ==
    /\ PageIsFree
    /\ IF ready
         THEN /\ OpenCompose
              /\ odd' = NoteShow("compose")
              /\ UNCHANGED contacts
         ELSE /\ contacts < MaxCalls
              /\ contacts' = contacts + 1
              /\ UNCHANGED <<modal, letter, odd>>
    /\ UNCHANGED <<sync, hooks, ready, sends, loads, saves>>

ContactsAnswered ==
    /\ contacts > 0
    /\ contacts' = contacts - 1
    /\ ready' = TRUE
    /\ OpenCompose
    /\ odd' = NoteLate("compose") \cup (IF modal["compose"].shown THEN {"late"} ELSE {})
    /\ UNCHANGED <<sync, hooks, sends, loads, saves>>

ContactsFail ==
    /\ contacts > 0
    /\ contacts' = contacts - 1
    /\ UNCHANGED <<modal, sync, hooks, ready, letter, sends, loads, saves, odd>>

Write ==
    /\ OnTop("compose") /\ modal["compose"].shown
    /\ letter = "empty"
    /\ letter' = "written"
    /\ UNCHANGED <<modal, sync, hooks, contacts, ready, sends, loads, saves, odd>>

\* The Cancel button, data-dismiss: hide() takes its handler away again.
Cancel == \E d \in {"settings", "compose"} :
    /\ OnTop(d) /\ modal[d].shown
    /\ Hides(d)
    /\ UNCHANGED <<sync, hooks, contacts, ready, letter, sends, loads, saves, odd>>

\* The handler is the dialog's own, and stays while the dialog vanishes.
PostLetter ==
    /\ modal' = [modal EXCEPT !["compose"] = Hide(@), !["progress"] = Show(@)]
    /\ letter' = "posted"

\* Seeded fault (PageWaits): nothing covers the page while the letter is sent.
PostLetterUncovered ==
    /\ modal' = [modal EXCEPT !["compose"] = Hide(@)]
    /\ letter' = "posted"

Post == PostLetter

ClickSend ==
    /\ OnTop("compose")
    /\ letter # "empty"
    /\ sends < MaxCalls
    /\ Room(modal["compose"]) /\ Room(modal["progress"])
    /\ Post
    /\ sends' = sends + 1
    /\ odd' = NoteShow("progress") \cup (IF letter = "posted" THEN {"twice"} ELSE {})
    /\ UNCHANGED <<sync, hooks, contacts, ready, loads, saves>>

\* The form is reset when the letter was sent, whatever it holds by now.
SendAnswered == \E ok \in BOOLEAN :
    /\ sends > 0
    /\ sends' = sends - 1
    /\ Hides("progress")
    /\ letter' = IF ok THEN "empty" ELSE letter
    /\ UNCHANGED <<sync, hooks, contacts, ready, loads, saves, odd>>

----
(* The settings dialog *)

ClickSettings ==
    /\ PageIsFree
    /\ loads < MaxCalls
    /\ loads' = loads + 1
    /\ UNCHANGED <<modal, sync, hooks, contacts, ready, letter, sends, saves, odd>>

SettingsLoaded ==
    /\ loads > 0
    /\ loads' = loads - 1
    /\ Shows("settings")
    /\ odd' = NoteLate("settings")
    /\ UNCHANGED <<sync, hooks, contacts, ready, letter, sends, saves>>

SettingsNotLoaded ==
    /\ loads > 0
    /\ loads' = loads - 1
    /\ UNCHANGED <<modal, sync, hooks, contacts, ready, letter, sends, saves, odd>>

ClickSave ==
    /\ OnTop("settings")
    /\ saves < MaxCalls
    /\ saves' = saves + 1
    /\ UNCHANGED <<modal, sync, hooks, contacts, ready, letter, sends, loads, odd>>

SaveAnswered ==
    /\ saves > 0
    /\ saves' = saves - 1
    /\ \/ Hides("settings")
       \/ UNCHANGED modal
    /\ UNCHANGED <<sync, hooks, contacts, ready, letter, sends, loads, odd>>

----
(* Transitions, and a reload of the page *)

\* hidden.bs.modal of the progress dialog: ajax.abort(), whose always() hides again.
Ends(d, m) ==
    LET stops == IF m.told /\ d = "progress" THEN hooks ELSE {}
        quiet == [m EXCEPT !.told = FALSE]
    IN  /\ modal' = [modal EXCEPT ![d] = IF stops # {} THEN Hide(quiet) ELSE quiet]
        /\ sync' = [s \in Syncs |-> IF s \in stops /\ sync[s] = "running" THEN "aborted" ELSE sync[s]]
        /\ hooks' = hooks \ stops

\* Seeded fault (OneSyncAtATime): the end of the dialog aborts nothing.
EndsWithoutAbort(d, m) ==
    /\ modal' = [modal EXCEPT ![d] = [m EXCEPT !.told = FALSE]]
    /\ UNCHANGED <<sync, hooks>>

TransitionEnds(d, m) == Ends(d, m)

DialogFades == \E d \in DialogNames :
    /\ FadeCanEnd(modal[d])
    /\ TransitionEnds(d, FadeEnds(modal[d]))
    /\ UNCHANGED <<contacts, ready, letter, sends, loads, saves, odd>>

BackdropFades == \E d \in DialogNames : \E p \in modal[d].pending :
    /\ Room(modal[d])
    /\ TransitionEnds(d, BackdropEnds(modal[d], p.backdrop))
    /\ UNCHANGED <<contacts, ready, letter, sends, loads, saves, odd>>

\* The calls of the old page end unseen; the server goes on with its syncs.
Reload ==
    /\ modal' = [d \in DialogNames |-> Closed]
    /\ sync' = [s \in Syncs |-> IF sync[s] = "idle" THEN "idle" ELSE "aborted"]
    /\ hooks' = {}
    /\ contacts' = 0 /\ sends' = 0 /\ loads' = 0 /\ saves' = 0
    /\ ready' = FALSE
    /\ letter' = "empty"
    /\ odd' = {}

DialogsNext ==
    \/ ClickRefresh \/ SyncAnswered \/ ServerEnds
    \/ ClickCompose \/ ContactsAnswered \/ ContactsFail \/ Write \/ Cancel
    \/ ClickSend \/ SendAnswered
    \/ ClickSettings \/ SettingsLoaded \/ SettingsNotLoaded \/ ClickSave \/ SaveAnswered
    \/ DialogFades \/ BackdropFades
    \/ Reload

DialogsSpec == DialogsInit /\ [][DialogsNext]_dialogVars

\* Calls are answered or fail, and transitions end.  Nobody has to click.
DialogsFairness ==
    /\ WF_dialogVars(SyncAnswered)
    /\ WF_dialogVars(SendAnswered)
    /\ WF_dialogVars(DialogFades)
    /\ WF_dialogVars(BackdropFades)

DialogsFairSpec == DialogsSpec /\ DialogsFairness

----
(* Properties *)

\* The page waits for at most one sync at a time (syncMails, home.html:487): a second
\* click finds the page covered, and when an answer to another call uncovers it the
\* end of the progress dialog gives the sync up.
OneSyncAtATime == \A s, t \in Syncs : sync[s] = "running" /\ sync[t] = "running" => s = t

\* Unless it is shown again while it vanishes, a dialog that has come to rest is all
\* there or all gone (Modal.show, hide, hideModal): no backdrop outlives its dialog,
\* and none is missing under one.
AtRest ==
    "reshown" \notin odd =>
        \A d \in DialogNames :
            Settled(modal[d]) =>
                /\ modal[d].visible = modal[d].shown
                /\ modal[d].inPage = IF modal[d].shown THEN {modal[d].backdrop} ELSE {}

\* While a sync or a letter is under way the progress dialog keeps the user from the
\* page, however short the call and whatever fades at that time, as long as no dialog
\* came up late and no letter went out twice.
PageWaits ==
    odd = {} /\ (sends > 0 \/ \E s \in Syncs : sync[s] = "running")
        => /\ ~PageIsFree
           /\ modal["progress"].shown

\* Send posts a letter that was posted before only when the button of the vanishing
\* dialog is clicked again (home.html:1242): an open dialog never offers it.
PostedTwiceOnlyWhileFading ==
    [][sends' > sends /\ letter = "posted" => ~modal["compose"].shown]_dialogVars

\* What the user is writing in the compose dialog stays until it is posted or the page is
\* left, but for two answers: the contacts arrive a second time, of a second click before
\* they had come (home.html:1200), or an earlier letter is answered only now
\* (home.html:1277), when that letter went out twice or a dialog came up late.
WrittenTextIsKept ==
    [][modal["compose"].shown /\ letter = "written"
        => \/ letter' \in {"written", "posted"}
           \/ modal' = [d \in DialogNames |-> Closed]
           \/ ready /\ contacts' = contacts - 1
           \/ odd \cap {"late", "twice"} # {} /\ sends' = sends - 1]_dialogVars

\* If every call is answered, the progress dialog gives the page back.
PageComesBack == modal["progress"].shown ~> (PageIsFree \/ odd # {})
====
