---- MODULE HomePage ----
(***************************************************************************)
(* The mail list of home.html: the folder menu, the rows, the pages, the   *)
(* reading pane, and the calls that are under way.  One browser page whose *)
(* handlers run one at a time; its calls are served and answered in any    *)
(* order.  On the server a mail is where AtomicMail says it is.            *)
(***************************************************************************)
EXTENDS Integers, FiniteSets, Functions

CONSTANTS
    MaxMails,    \* bound: messages 1..MaxMails; a higher number is a newer message
    PageSize,    \* page_size, 15 in MailListPage
    Slots,       \* bound: calls under way at once
    Hasty,       \* bound: the kinds of calls made before the last call is answered
    NoCall, NoRow

ASSUME HomeAssumption == {MaxMails, PageSize} \subseteq Nat \ {0}

Mails == 1..MaxMails
NoMail == 0
Folders == {"inbox", "trash"}
Keys == 1..(2 * PageSize)    \* bound: rows in the list, those of two answers

VARIABLES
    place,       \* per mail: where the server has it
    folder,      \* WM_RUNTIME.currentFolder
    menu,        \* the active item of the folder menu, or "none"
    pages,       \* pagination
    enabled,     \* the paging buttons that can be clicked
    refresh,     \* the refresh button is shown, the delete and move buttons are not
    rows,        \* the elements of the list
    pane,        \* the mail in the reading pane
    calls,
    trusted      \* history: since the folder was opened, the user has waited for every
                 \* answer, and none was an error

homeVars == <<place, folder, menu, pages, enabled, refresh, rows, pane, calls, trusted>>

Places == Folders \cup {"absent", "deleted"}

\* A row remembers the list it was rendered for.  It may be vanishing (fadeOut), with
\* or without an updateUI at the end.
Row == [mail : Mails, at : Folders \cup {"search"}, selected : BOOLEAN,
        active : BOOLEAN, fades : {"no", "quietly", "updating"}]

Pagination == [page : 1..MaxMails, pages : 1..MaxMails, prev : 1..MaxMails, next : 1..MaxMails]

\* keys: the rows the callback will touch, while they are in the list.
ListCall == [kind : {"list"}, state : {"asked", "read", "counted"}, folder : Folders,
             page : 1..MaxMails, found : SUBSET Mails, total : 0..MaxMails, keys : {{}}]
SearchCall == [kind : {"search"}, state : {"asked", "read"}, found : SUBSET Mails, keys : {{}}]
ReadCall == [kind : {"read"}, mail : Mails, keys : SUBSET Keys]
ControlCall == [kind : {"control"}, state : {"asked", "ok", "error"},
                to : {"inbox", "trash", "deleted"}, ids : SUBSET Mails, keys : SUBSET Keys,
                then : {"removeRows", "removeById", "reload"},
                listed : BOOLEAN]  \* history: the mails were clicked as rows of the current folder

\* Nothing is no element and no call.
ASSUME NothingAssumption ==
    /\ NoRow \notin Row
    /\ NoCall \notin ListCall \cup SearchCall \cup ReadCall \cup ControlCall

HomeTypeOK ==
    /\ place \in [Mails -> Places]
    /\ folder \in Folders
    /\ menu \in {folder, "none"}
    /\ pages \in Pagination
    /\ enabled \subseteq {"prev", "next"}
    /\ {refresh, trusted} \subseteq BOOLEAN
    /\ rows \in [Keys -> Row \cup {NoRow}]
    /\ pane \in Mails \cup {NoMail}
    /\ calls \in [Slots -> ListCall \cup SearchCall \cup ReadCall \cup ControlCall \cup {NoCall}]

----
(* The server *)

InFolder(f) == {m \in Mails : place[m] = f}

\* findPageByConditions: newest first, limit (page - 1) * PageSize, PageSize
PageOf(f, page) ==
    {m \in InFolder(f) : Cardinality({n \in InFolder(f) : n > m})
                            \in ((page - 1) * PageSize)..(page * PageSize - 1)}

----
(* Pagination *)

FirstPage == [page |-> 1, pages |-> 1, prev |-> 1, next |-> 1]

\* Seeded fault (EmptiedPageLeadsOn): the page before the first page of an answer is the page.
UpdatePagesNoPrev(page, total) ==
    LET last == (total + PageSize - 1) \div PageSize
    IN  IF total <= PageSize
          THEN [pages EXCEPT !.page = 1]
          ELSE [page |-> page, pages |-> last, prev |-> page,
                next |-> IF page >= last THEN last ELSE page + 1]

\* Seeded fault (HomeTypeOK): the last page has a next one.
UpdatePagesOnAndOn(page, total) ==
    IF total <= PageSize
      THEN [pages EXCEPT !.page = 1]
      ELSE [page |-> page, pages |-> (total + PageSize - 1) \div PageSize,
            prev |-> IF page <= 1 THEN 1 ELSE page - 1, next |-> page + 1]

\* Pagination.update: the other fields stay when everything fits on one page.
UpdatePages(page, total) ==
    LET last == (total + PageSize - 1) \div PageSize
    IN  IF total <= PageSize
          THEN [pages EXCEPT !.page = 1]
          ELSE [page |-> page, pages |-> last,
                prev |-> IF page <= 1 THEN 1 ELSE page - 1,
                next |-> IF page >= last THEN last ELSE page + 1]

Buttons(pg) == {b \in {"prev", "next"} : IF b = "prev" THEN pg.page > 1 ELSE pg.page < pg.pages}

----
(* Rows *)

Empty == [k \in Keys |-> NoRow]
Listed(rs) == {k \in Keys : rs[k] # NoRow}
Selected(rs) == {k \in Listed(rs) : rs[k].selected}

\* An element that a callback still holds is never mistaken for a new one.
Held == UNION {calls[c].keys : c \in {d \in Slots : calls[d] # NoCall}}

Fits(rs, found) == Cardinality(found) <= Cardinality(Keys \ (Listed(rs) \cup Held))

Append(rs, found, at) ==
    LET key == CHOOSE f \in Injection(found, Keys \ (Listed(rs) \cup Held)) : TRUE
    IN  [k \in Keys |-> IF \E m \in found : key[m] = k
                          THEN [mail |-> CHOOSE m \in found : key[m] = k, at |-> at,
                                selected |-> FALSE, active |-> FALSE, fades |-> "no"]
                          ELSE rs[k]]

\* fadeOut: an element that vanishes already is removed by the first of the two.
Fade(rs, ks, how) ==
    [k \in Keys |-> IF k \in ks \cap Listed(rs) /\ rs[k].fades = "no"
                      THEN [rs[k] EXCEPT !.fades = how] ELSE rs[k]]

UpdateUI(rs, pg, mail) ==
    /\ refresh' = (Selected(rs) = {})
    /\ enabled' = Buttons(pg)
    /\ pane' = IF \E k \in Listed(rs) : rs[k].active THEN mail ELSE NoMail

uiVars == <<refresh, enabled, pane>>

----
(* Calls *)

Idle == \A c \in Slots : calls[c] = NoCall

CanAsk(c, kind) == calls[c] = NoCall /\ (Idle \/ kind \in Hasty)

\* The user clicks and a call goes out.
Ask(c, call) == /\ CanAsk(c, call.kind)
                /\ calls' = [calls EXCEPT ![c] = call]

Waited == trusted' = (trusted /\ Idle)

Drop(c) == calls' = [calls EXCEPT ![c] = NoCall]

ListOf(f, page) == [kind |-> "list", state |-> "asked", folder |-> f, page |-> page,
                    found |-> {}, total |-> 0, keys |-> {}]

\* loadMailList: the list is emptied now, whatever the answer will be.
Load(c, f, page) ==
    /\ rows' = Empty
    /\ calls' = [d \in Slots |->
                    IF d = c THEN ListOf(f, page)
                    ELSE IF calls[d] = NoCall THEN NoCall
                    ELSE [calls[d] EXCEPT !.keys = {}]]
    /\ UNCHANGED uiVars

\* Seeded fault (ListIsTheFolder): the list is emptied by nobody.
LoadMore(c, f, page) ==
    /\ calls' = [calls EXCEPT ![c] = ListOf(f, page)]
    /\ UNCHANGED <<rows, uiVars>>

LoadMailList(c, f, page) == Load(c, f, page)

\* The page is loaded, and has asked for the first list.
HomeInit ==
    /\ \E n \in 0..MaxMails : place = [m \in Mails |-> IF m <= n THEN "inbox" ELSE "absent"]
    /\ folder = "inbox" /\ menu = "inbox"
    /\ pages = FirstPage
    /\ enabled = {} /\ refresh = TRUE
    /\ rows = Empty
    /\ pane = NoMail
    /\ \E c \in Slots :
         calls = [d \in Slots |-> IF d = c THEN ListOf("inbox", 1) ELSE NoCall]
    /\ trusted = TRUE

----
(* Folders and pages *)

SwitchFolder == \E c \in Slots, f \in Folders :
    /\ CanAsk(c, "list")
    /\ menu # f
    /\ folder' = f /\ menu' = f
    /\ pages' = FirstPage
    /\ LoadMailList(c, f, 1)
    /\ trusted' = Idle
    /\ UNCHANGED place

ClickPrev == \E c \in Slots :
    /\ CanAsk(c, "list")
    /\ "prev" \in enabled
    /\ LoadMailList(c, folder, pages.prev)
    /\ Waited
    /\ UNCHANGED <<place, folder, menu, pages>>

ClickNext == \E c \in Slots :
    /\ CanAsk(c, "list")
    /\ "next" \in enabled
    /\ LoadMailList(c, folder, pages.next)
    /\ Waited
    /\ UNCHANGED <<place, folder, menu, pages>>

\* syncMails has been answered: some messages are new, none may be.
SyncAnswered == \E c \in Slots, n \in 0..MaxMails :
    /\ CanAsk(c, "list")
    /\ refresh
    /\ place' = [m \in Mails |-> IF place[m] = "absent" /\ m <= n THEN "inbox" ELSE place[m]]
    /\ LoadMailList(c, folder, pages.page)
    /\ Waited
    /\ UNCHANGED <<folder, menu, pages>>

\* The rows and the total are two statements.
ListRead == \E c \in Slots :
    /\ calls[c] # NoCall /\ calls[c].kind = "list" /\ calls[c].state = "asked"
    /\ calls' = [calls EXCEPT ![c].state = "read",
                              ![c].found = PageOf(calls[c].folder, calls[c].page)]
    /\ UNCHANGED <<place, folder, menu, pages, uiVars, rows, trusted>>

ListCounted == \E c \in Slots :
    /\ calls[c] # NoCall /\ calls[c].kind = "list" /\ calls[c].state = "read"
    /\ calls' = [calls EXCEPT ![c].state = "counted",
                              ![c].total = Cardinality(InFolder(calls[c].folder))]
    /\ UNCHANGED <<place, folder, menu, pages, uiVars, rows, trusted>>

\* An empty page is answered with the total 0.
ListAnswered == \E c \in Slots :
    /\ calls[c] # NoCall /\ calls[c].kind = "list" /\ calls[c].state = "counted"
    /\ Drop(c)
    /\ IF calls[c].found # {} /\ calls[c].total > 0
         THEN /\ Fits(rows, calls[c].found)
              /\ rows' = Append(rows, calls[c].found, calls[c].folder)
              /\ pages' = UpdatePages(calls[c].page, calls[c].total)
              /\ UpdateUI(rows', pages', pane)
         ELSE UNCHANGED <<rows, pages, uiVars>>
    /\ UNCHANGED <<place, folder, menu, trusted>>

CallFails == \E c \in Slots :
    /\ calls[c] # NoCall
    /\ calls[c].kind = "control" => calls[c].state = "error"
    /\ Drop(c)
    /\ trusted' = FALSE
    /\ UNCHANGED <<place, folder, menu, pages, uiVars, rows>>

----
(* Search *)

ClickSearch == \E c \in Slots :
    /\ Ask(c, [kind |-> "search", state |-> "asked", found |-> {}, keys |-> {}])
    /\ Waited
    /\ UNCHANGED <<place, folder, menu, pages, uiVars, rows>>

\* The keyword may match any of the mails that are not deleted (bound: as many as
\* a page holds).
SearchRead == \E c \in Slots :
    /\ calls[c] # NoCall /\ calls[c].kind = "search" /\ calls[c].state = "asked"
    /\ \E found \in SUBSET (InFolder("inbox") \cup InFolder("trash")) :
         /\ Cardinality(found) <= PageSize
         /\ calls' = [calls EXCEPT ![c].state = "read", ![c].found = found]
    /\ UNCHANGED <<place, folder, menu, pages, uiVars, rows, trusted>>

\* The answer replaces the list; the folder stays the one before.
SearchAnswered == \E c \in Slots :
    /\ calls[c] # NoCall /\ calls[c].kind = "search" /\ calls[c].state = "read"
    /\ calls' = [d \in Slots |-> IF d = c \/ calls[d] = NoCall THEN NoCall
                                 ELSE [calls[d] EXCEPT !.keys = IF calls[c].found = {} THEN @ ELSE {}]]
    /\ IF calls[c].found # {}
         THEN /\ Fits(Empty, calls[c].found)
              /\ rows' = Append(Empty, calls[c].found, "search")
              /\ pages' = FirstPage
              /\ menu' = "none"
              /\ UpdateUI(rows', pages', pane)
         ELSE UNCHANGED <<rows, pages, menu, uiVars>>
    /\ UNCHANGED <<place, folder, trusted>>

----
(* Rows and pane *)

\* A checkbox, or an item of the select menu that changes this row.
Toggle == \E k \in Listed(rows) :
    /\ rows' = [rows EXCEPT ![k].selected = ~@]
    /\ UpdateUI(rows', pages, pane)
    /\ UNCHANGED <<place, folder, menu, pages, calls, trusted>>

\* The star of a row: what it asks for changes no list, but it updates the buttons.
ClickStar == \E k \in Listed(rows) :
    /\ rows[k].at # "trash"
    /\ UpdateUI(rows, pages, pane)
    /\ UNCHANGED <<place, folder, menu, pages, rows, calls, trusted>>

OpenRow == \E c \in Slots, k \in Listed(rows) :
    /\ Ask(c, [kind |-> "read", mail |-> rows[k].mail, keys |-> {k}])
    /\ Waited
    /\ UNCHANGED <<place, folder, menu, pages, uiVars, rows>>

\* The siblings of an element that has left the list are none.
OpenAnswered == \E c \in Slots :
    /\ calls[c] # NoCall /\ calls[c].kind = "read"
    /\ Drop(c)
    /\ rows' = IF calls[c].keys \cap Listed(rows) = {} THEN rows
               ELSE [k \in Keys |-> IF rows[k] = NoRow THEN NoRow
                                    ELSE [rows[k] EXCEPT !.active = (k \in calls[c].keys)]]
    /\ UpdateUI(rows', pages, calls[c].mail)
    /\ UNCHANGED <<place, folder, menu, pages, trusted>>

Control(c, to, ids, keys, then, listed) ==
    /\ Ask(c, [kind |-> "control", state |-> "asked", to |-> to, ids |-> ids, keys |-> keys,
               then |-> then, listed |-> listed])
    /\ Waited
    /\ UNCHANGED <<place, folder, menu, pages, rows>>

MailsOf(ks) == {rows[k].mail : k \in ks}

\* These rows are what the current folder was listed with.
Own(ks) == \A k \in ks : rows[k].at = folder

\* Seeded fault (TrashFirst): outside the inbox, a mail is deleted for ever.
DeleteOrTrashByMenu == IF menu = "inbox" THEN "trash" ELSE "deleted"

DeleteOrTrash == IF folder = "trash" THEN "deleted" ELSE "trash"

\* The trash button of the list.
DeleteSelected == \E c \in Slots :
    LET ks == Selected(rows)
    IN  /\ ks # {} /\ ~refresh
        /\ Control(c, DeleteOrTrash, MailsOf(ks), ks, "removeRows", Own(ks))
        /\ UNCHANGED uiVars

\* The trash icon of a row, there if the row was rendered for the trash.
DeleteRow == \E c \in Slots, k \in Listed(rows) :
    /\ rows[k].at = "trash"
    /\ Control(c, "deleted", {rows[k].mail}, {k}, "removeRows", Own({k}))
    /\ UpdateUI(rows, pages, pane)

\* The delete button of the reading pane.
DeleteOpened == \E c \in Slots :
    /\ pane # NoMail
    /\ Control(c, DeleteOrTrash, {pane}, {}, "removeById",
               \E k \in Listed(rows) : rows[k].mail = pane /\ Own({k}))
    /\ UNCHANGED uiVars

MoveSelected == \E c \in Slots, f \in Folders :
    LET ks == Selected(rows)
    IN  /\ ks # {} /\ ~refresh
        /\ folder # f
        /\ Control(c, f, MailsOf(ks), {}, "reload", FALSE)
        /\ UNCHANGED uiVars

\* The server takes the ids one by one, and stops at an error.
ControlServed == \E c \in Slots :
    /\ calls[c] # NoCall /\ calls[c].kind = "control" /\ calls[c].state = "asked"
    /\ \E done \in SUBSET calls[c].ids, ok \in BOOLEAN :
         /\ ok => done = calls[c].ids
         /\ place' = [m \in Mails |-> IF m \in done THEN calls[c].to ELSE place[m]]
         /\ calls' = [calls EXCEPT ![c].state = IF ok THEN "ok" ELSE "error"]
    /\ UNCHANGED <<folder, menu, pages, uiVars, rows, trusted>>

RowsAfter(call) ==
    CASE call.then = "removeRows" -> Fade(rows, call.keys, "quietly")
      [] call.then = "removeById" ->
            Fade(rows, {k \in Listed(rows) : rows[k].mail \in call.ids}, "updating")

ControlAnswered == \E c \in Slots :
    /\ calls[c] # NoCall /\ calls[c].kind = "control" /\ calls[c].state = "ok"
    /\ IF calls[c].then = "reload"
         THEN LoadMailList(c, folder, pages.page)
         ELSE /\ rows' = RowsAfter(calls[c])
              /\ Drop(c)
              /\ UNCHANGED uiVars
    /\ UNCHANGED <<place, folder, menu, pages, trusted>>

RowVanishes == \E k \in Listed(rows) :
    /\ rows[k].fades # "no"
    /\ rows' = [rows EXCEPT ![k] = NoRow]
    /\ IF rows[k].fades = "updating" THEN UpdateUI(rows', pages, pane) ELSE UNCHANGED uiVars
    /\ UNCHANGED <<place, folder, menu, pages, calls, trusted>>

HomeNext ==
    \/ SwitchFolder \/ ClickPrev \/ ClickNext \/ SyncAnswered
    \/ ListRead \/ ListCounted \/ ListAnswered \/ CallFails
    \/ ClickSearch \/ SearchRead \/ SearchAnswered
    \/ Toggle \/ ClickStar \/ OpenRow \/ OpenAnswered
    \/ DeleteSelected \/ DeleteRow \/ DeleteOpened \/ MoveSelected
    \/ ControlServed \/ ControlAnswered \/ RowVanishes

HomeSpec == HomeInit /\ [][HomeNext]_homeVars

----
(* Properties *)

AtRest == Idle /\ \A k \in Listed(rows) : rows[k].fades = "no"

\* A user who waits sees what is there: every row is a mail of the folder whose name is
\* shown, or of the search, that the server still has where the row says, and no mail
\* has two rows (loadMailList and the callbacks of ctrlMail, home.html:438-570).
ListIsTheFolder ==
    trusted /\ AtRest =>
        \A k \in Listed(rows) :
            /\ rows[k].at \in {folder, "search"}
            /\ rows[k].at = folder => place[rows[k].mail] = folder
            /\ \A l \in Listed(rows) : rows[k].mail = rows[l].mail => k = l

APagingButtonLeads ==
    \/ "prev" \in enabled /\ PageOf(folder, pages.prev) # {}
    \/ "next" \in enabled /\ PageOf(folder, pages.next) # {}

\* The first of several pages, counted before the mails of the folder came to fit on it:
\* the page goes on with the pages of before (Pagination.update, webmail.js:76), and Next
\* leads to a page that is not there ("No more mails to load.", home.html:473).
LeftBehind == pages.page = 1 /\ pages.pages > 1 /\ Cardinality(InFolder(folder)) <= PageSize

\* When the list of a folder with mails has run empty, on any page but one that is left
\* behind, a paging button can be clicked and leads to mails.
EmptiedPageLeadsOn ==
    trusted /\ AtRest /\ Listed(rows) = {} /\ InFolder(folder) # {} /\ menu # "none" /\ ~LeftBehind
        => APagingButtonLeads

\* A mail goes to the trash before it is deleted for ever, whenever a user who waits
\* clicks a row that the folder was listed with, or opened it from one: home.html:808 and
\* :1351 choose between the two by the current folder alone.
TrashFirst ==
    [][trusted => \A m \in Mails : place[m] = "inbox" /\ place'[m] = "deleted" =>
          \E c \in Slots : calls[c] # NoCall /\ calls'[c] # calls[c] /\ ~calls[c].listed]_homeVars
====
