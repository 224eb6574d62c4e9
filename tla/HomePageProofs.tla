---- MODULE HomePageProofs ----
(***************************************************************************)
(* Proofs about HomePage, for any number of mails, calls under way and any *)
(* page size: what a user who waits for each answer may believe of the     *)
(* list, the buttons and the pages.                                        *)
(***************************************************************************)
EXTENDS HomePage, FiniteSetTheorems, FunctionTheorems, WellFoundedInduction, TLAPS

(* Calls and rows *)

Call == ListCall \cup SearchCall \cup ReadCall \cup ControlCall

LEMMA KindOfCall ==
    ASSUME NEW call \in Call
    PROVE  /\ call.kind = "list" => call \in ListCall
           /\ call.kind = "search" => call \in SearchCall
           /\ call.kind = "read" => call \in ReadCall
           /\ call.kind = "control" => call \in ControlCall
           /\ call.keys \in SUBSET Keys
BY DEF Call, ListCall, SearchCall, ReadCall, ControlCall

LEMMA ListOfIsCall ==
    ASSUME NEW f \in Folders, NEW page \in 1..MaxMails
    PROVE  ListOf(f, page) \in ListCall
BY HomeAssumption DEF ListOf, ListCall

LEMMA ForgetKeys ==
    ASSUME NEW call \in Call
    PROVE  [call EXCEPT !.keys = {}] \in Call
<1>1. CASE call \in ListCall
  BY <1>1 DEF ListCall, Call
<1>2. CASE call \in SearchCall
  BY <1>2 DEF SearchCall, Call
<1>3. CASE call \in ReadCall
  BY <1>3 DEF ReadCall, Call
<1>4. CASE call \in ControlCall
  BY <1>4 DEF ControlCall, Call
<1> QED
  BY <1>1, <1>2, <1>3, <1>4 DEF Call

IsList(rs) == rs \in [Keys -> Row \cup {NoRow}]

LEMMA EmptyIsList == IsList(Empty) /\ Listed(Empty) = {}
BY DEF IsList, Empty, Listed

LEMMA ListedIsRow ==
    ASSUME NEW rs, IsList(rs), NEW k \in Listed(rs)
    PROVE  k \in Keys /\ rs[k] # NoRow /\ rs[k] \in Row
BY DEF IsList, Listed

NewKeys(rs, mails) == CHOOSE f \in Injection(mails, Keys \ (Listed(rs) \cup Held)) : TRUE

\* A row of a new list, or one of before.
LEMMA AppendFacts ==
    ASSUME NEW rs, IsList(rs), NEW mails \in SUBSET Mails, NEW at \in Folders \cup {"search"},
           NEW key, key = NewKeys(rs, mails), NEW new, new = Append(rs, mails, at)
    PROVE  /\ IsList(new)
           /\ \A k \in Keys : (~\E m \in mails : key[m] = k) => new[k] = rs[k]
           /\ \A k \in Keys : (\E m \in mails : key[m] = k) =>
                /\ new[k] \in Row /\ new[k].at = at
                /\ new[k].mail \in mails /\ key[new[k].mail] = k
                /\ ~new[k].selected /\ ~new[k].active /\ new[k].fades = "no"
<1> DEFINE row(m) == [mail |-> m, at |-> at, selected |-> FALSE, active |-> FALSE, fades |-> "no"]
<1>1. new = [k \in Keys |-> IF \E m \in mails : key[m] = k
                              THEN row(CHOOSE m \in mails : key[m] = k) ELSE rs[k]]
  BY DEF Append, NewKeys
<1>2. ASSUME NEW k \in Keys, \E m \in mails : key[m] = k
      PROVE  /\ new[k] \in Row /\ new[k].at = at
             /\ new[k].mail \in mails /\ key[new[k].mail] = k
             /\ ~new[k].selected /\ ~new[k].active /\ new[k].fades = "no"
  <2> DEFINE mail == CHOOSE m \in mails : key[m] = k
  <2>1. mail \in mails /\ key[mail] = k
    BY <1>2
  <2>2. new[k] = row(mail)
    BY <1>1, <1>2
  <2> HIDE DEF mail
  <2>3. mail \in Mails
    BY <2>1
  <2> QED
    BY <2>1, <2>2, <2>3 DEF Row
<1>3. \A k \in Keys : (~\E m \in mails : key[m] = k) => new[k] = rs[k]
  BY <1>1
<1>4. IsList(new)
  <2>1. \A k \in Keys : new[k] \in Row \cup {NoRow}
    BY <1>2, <1>3 DEF IsList
  <2>2. new = [k \in Keys |-> new[k]]
    BY <1>1
  <2> QED
    BY <2>1, <2>2 DEF IsList
<1> QED
  BY <1>2, <1>3, <1>4

LEMMA AppendIsList ==
    ASSUME NEW rs, IsList(rs), NEW mails \in SUBSET Mails, NEW at \in Folders \cup {"search"}
    PROVE  IsList(Append(rs, mails, at))
BY AppendFacts

LEMMA FadeFacts ==
    ASSUME NEW rs, IsList(rs), NEW ks, NEW how \in {"quietly", "updating"}
    PROVE  LET new == Fade(rs, ks, how)
           IN  /\ IsList(new) /\ Listed(new) = Listed(rs)
               /\ \A k \in Listed(rs) :
                    /\ new[k].mail = rs[k].mail /\ new[k].at = rs[k].at
                    /\ new[k].active = rs[k].active
                    /\ k \in ks => new[k].fades # "no"
                    /\ k \notin ks => new[k].fades = rs[k].fades
                    /\ rs[k].fades # "no" => new[k].fades # "no"
<1> DEFINE new == Fade(rs, ks, how)
<1>1. new = [k \in Keys |-> IF k \in ks \cap Listed(rs) /\ rs[k].fades = "no"
                              THEN [rs[k] EXCEPT !.fades = how] ELSE rs[k]]
  BY DEF Fade
<1> HIDE DEF new
<1>2. ASSUME NEW k \in Listed(rs), k \in ks, rs[k].fades = "no"
      PROVE  /\ new[k] \in Row /\ new[k].mail = rs[k].mail /\ new[k].at = rs[k].at
             /\ new[k].active = rs[k].active /\ new[k].fades = how
  <2>1. new[k] = [rs[k] EXCEPT !.fades = how] /\ rs[k] \in Row
    BY <1>1, <1>2, ListedIsRow
  <2> QED
    BY <2>1 DEF Row
<1>3. ASSUME NEW k \in Keys, ~(k \in ks \cap Listed(rs) /\ rs[k].fades = "no")
      PROVE  new[k] = rs[k]
  BY <1>1, <1>3
<1>4. IsList(new)
  <2>1. \A k \in Keys : new[k] \in Row \cup {NoRow}
    BY <1>2, <1>3 DEF IsList
  <2>2. new = [k \in Keys |-> new[k]]
    BY <1>1
  <2> QED
    BY <2>1, <2>2 DEF IsList
<1>5. Listed(new) = Listed(rs)
  BY <1>2, <1>3, NothingAssumption DEF Listed
<1>6. ASSUME NEW k \in Listed(rs)
      PROVE  /\ new[k].mail = rs[k].mail /\ new[k].at = rs[k].at
             /\ new[k].active = rs[k].active
             /\ k \in ks => new[k].fades # "no"
             /\ k \notin ks => new[k].fades = rs[k].fades
             /\ rs[k].fades # "no" => new[k].fades # "no"
  <2>1. k \in Keys
    BY ListedIsRow
  <2> QED
    BY <1>2, <1>3, <1>6, <2>1
<1> QED
  BY <1>4, <1>5, <1>6 DEF new

Toggled(rs, k) == [rs EXCEPT ![k].selected = ~@]

LEMMA ToggleFacts ==
    ASSUME NEW rs, IsList(rs), NEW k \in Listed(rs), NEW new, new = Toggled(rs, k)
    PROVE  /\ IsList(new) /\ Listed(new) = Listed(rs)
           /\ \A l \in Listed(rs) : /\ new[l].mail = rs[l].mail /\ new[l].at = rs[l].at
                                    /\ new[l].fades = rs[l].fades
                                    /\ new[l].active = rs[l].active
<1>1. /\ k \in Keys /\ rs[k] \in Row
      /\ new = [rs EXCEPT ![k] = [rs[k] EXCEPT !.selected = ~rs[k].selected]]
  BY ListedIsRow DEF Toggled
<1>2. /\ new[k] \in Row /\ new[k].mail = rs[k].mail /\ new[k].at = rs[k].at
      /\ new[k].fades = rs[k].fades /\ new[k].active = rs[k].active
  <2>1. new[k] = [rs[k] EXCEPT !.selected = ~rs[k].selected]
    BY <1>1 DEF IsList
  <2> QED
    BY <1>1, <2>1 DEF Row
<1>3. \A l \in Keys \ {k} : new[l] = rs[l]
  BY <1>1 DEF IsList
<1>4. IsList(new)
  <2>1. \A l \in Keys : new[l] \in Row \cup {NoRow}
    BY <1>2, <1>3 DEF IsList
  <2>2. new = [l \in Keys |-> new[l]]
    BY <1>1 DEF IsList
  <2> QED
    BY <2>1, <2>2 DEF IsList
<1>5. Listed(new) = Listed(rs)
  BY <1>2, <1>3, NothingAssumption DEF Listed
<1>6. ASSUME NEW l \in Listed(rs)
      PROVE  /\ new[l].mail = rs[l].mail /\ new[l].at = rs[l].at
             /\ new[l].fades = rs[l].fades /\ new[l].active = rs[l].active
  BY <1>2, <1>3, ListedIsRow
<1> QED
  BY <1>4, <1>5, <1>6

\* The row that was opened is the active one.
Activated(rs, ks) == [k \in Keys |-> IF rs[k] = NoRow THEN NoRow
                                     ELSE [rs[k] EXCEPT !.active = (k \in ks)]]

LEMMA ActivateFacts ==
    ASSUME NEW rs, IsList(rs), NEW ks, NEW new, new = Activated(rs, ks)
    PROVE  /\ IsList(new) /\ Listed(new) = Listed(rs)
           /\ \A l \in Listed(rs) : /\ new[l].mail = rs[l].mail /\ new[l].at = rs[l].at
                                    /\ new[l].fades = rs[l].fades
<1>1. ASSUME NEW l \in Listed(rs)
      PROVE  /\ new[l] \in Row /\ new[l].mail = rs[l].mail /\ new[l].at = rs[l].at
             /\ new[l].fades = rs[l].fades
  <2> DEFINE opened == (l \in ks)
  <2>1. opened \in BOOLEAN
    OBVIOUS
  <2>2. rs[l] \in Row /\ new[l] = [rs[l] EXCEPT !.active = opened]
    BY ListedIsRow DEF Activated
  <2> HIDE DEF opened
  <2> QED
    BY <2>1, <2>2 DEF Row
<1>2. \A l \in Keys \ Listed(rs) : new[l] = NoRow
  BY DEF Listed, Activated
<1>3. IsList(new)
  <2>1. \A l \in Keys : new[l] \in Row \cup {NoRow}
    BY <1>1, <1>2
  <2> QED
    BY <2>1 DEF IsList, Activated
<1>4. Listed(new) = Listed(rs)
  BY <1>1, <1>2, NothingAssumption DEF Listed
<1> QED
  BY <1>1, <1>3, <1>4

LEMMA VanishFacts ==
    ASSUME NEW rs, IsList(rs), NEW k \in Listed(rs), NEW new, new = [rs EXCEPT ![k] = NoRow]
    PROVE  /\ IsList(new) /\ Listed(new) = Listed(rs) \ {k}
           /\ \A l \in Listed(new) : new[l] = rs[l]
BY DEF IsList, Listed

(* Pages *)

LEMMA LastPage ==
    ASSUME NEW total \in 1..MaxMails, total > PageSize,
           NEW last, last = (total + PageSize - 1) \div PageSize
    PROVE  last \in 2..MaxMails
<1>1. PageSize \in Nat \ {0} /\ MaxMails \in Nat \ {0} /\ total \in Nat
  BY HomeAssumption
<1>2. last \in Int /\ PageSize * last <= total + PageSize - 1 /\ total + PageSize - 1 < PageSize * (last + 1)
  BY <1>1
<1>3. last >= 2
  <2>1. last + 1 > 2
    <3>1. 2 * PageSize < PageSize * (last + 1)
      BY <1>1, <1>2
    <3> QED
      BY <1>1, <1>2, <3>1
  <2> QED
    BY <1>2, <2>1
<1>4. last <= total
  <2>1. PageSize * (last - 1) < total
    BY <1>1, <1>2
  <2>2. last - 1 <= PageSize * (last - 1)
    BY <1>1, <1>2, <1>3
  <2> QED
    BY <1>1, <1>2, <2>1, <2>2
<1> QED
  BY <1>1, <1>2, <1>3, <1>4

LEMMA UpdatePagesFacts ==
    ASSUME pages \in Pagination, NEW page \in 1..MaxMails, NEW total \in 1..MaxMails,
           NEW new, new = UpdatePages(page, total)
    PROVE  /\ new \in Pagination
           /\ total <= PageSize =>
                /\ new.page = 1 /\ new.pages = pages.pages /\ new.prev = pages.prev
                /\ new.next = pages.next
           /\ total > PageSize =>
                /\ new.page = page /\ new.pages > 1
                /\ page > 1 => new.prev = page - 1
                /\ page = 1 => new.next = 2
<1> DEFINE last == (total + PageSize - 1) \div PageSize
<1>1. PageSize \in Nat \ {0} /\ MaxMails \in Nat \ {0} /\ total \in Nat /\ page \in Nat
  BY HomeAssumption
<1>2. CASE total <= PageSize
  <2>1. new = [pages EXCEPT !.page = 1]
    BY <1>2 DEF UpdatePages
  <2> QED
    BY <1>1, <1>2, <2>1 DEF Pagination
<1>3. CASE total > PageSize
  <2>1. last \in 2..MaxMails
    BY <1>3, LastPage
  <2>2. new = [page |-> page, pages |-> last,
               prev |-> IF page <= 1 THEN 1 ELSE page - 1,
               next |-> IF page >= last THEN last ELSE page + 1]
    BY <1>1, <1>3 DEF UpdatePages
  <2> HIDE DEF last
  <2> QED
    BY <1>1, <1>3, <2>1, <2>2 DEF Pagination
<1> QED
  BY <1>1, <1>2, <1>3

LEMMA FirstPageFacts == FirstPage \in Pagination
BY HomeAssumption DEF FirstPage, Pagination

LEMMA UITypes ==
    ASSUME NEW rs, NEW pg, NEW mail \in Mails \cup {NoMail}, UpdateUI(rs, pg, mail)
    PROVE  /\ refresh' \in BOOLEAN /\ enabled' \in SUBSET {"prev", "next"}
           /\ pane' \in {mail, NoMail}
BY DEF UpdateUI, Buttons

----
(* Types *)

CallTypes == calls \in [Slots -> Call \cup {NoCall}]

LEMMA CallTypesAre == HomeTypeOK <=>
    /\ place \in [Mails -> Places] /\ folder \in Folders /\ menu \in {folder, "none"}
    /\ pages \in Pagination /\ enabled \in SUBSET {"prev", "next"}
    /\ refresh \in BOOLEAN /\ trusted \in BOOLEAN /\ IsList(rows)
    /\ pane \in Mails \cup {NoMail} /\ CallTypes
BY DEF HomeTypeOK, IsList, CallTypes, Call

LEMMA AskTypes ==
    ASSUME CallTypes, NEW c \in Slots, NEW call \in Call, Ask(c, call)
    PROVE  CallTypes'
BY DEF CallTypes, Ask

LEMMA DropTypes ==
    ASSUME CallTypes, NEW c \in Slots, Drop(c)
    PROVE  CallTypes'
BY DEF CallTypes, Drop

LEMMA LoadTypes ==
    ASSUME CallTypes, NEW c \in Slots, NEW f \in Folders, NEW page \in 1..MaxMails,
           Load(c, f, page)
    PROVE  CallTypes' /\ IsList(rows')
<1>1. IsList(rows')
  BY EmptyIsList DEF Load
<1>2. ASSUME NEW d \in Slots
      PROVE  calls'[d] \in Call \cup {NoCall}
  <2>1. CASE d = c
    BY <2>1, ListOfIsCall DEF Load, Call
  <2>2. CASE d # c /\ calls[d] = NoCall
    BY <2>2 DEF Load
  <2>3. CASE d # c /\ calls[d] # NoCall
    <3>1. calls[d] \in Call
      BY <2>3 DEF CallTypes
    <3> QED
      BY <2>3, <3>1, ForgetKeys DEF Load
  <2> QED
    BY <2>1, <2>2, <2>3
<1>3. calls' = [d \in Slots |-> calls'[d]]
  BY DEF Load
<1> QED
  BY <1>1, <1>2, <1>3 DEF CallTypes

LEMMA ChangeTypes ==
    ASSUME CallTypes, NEW c \in Slots, NEW call \in Call, calls' = [calls EXCEPT ![c] = call]
    PROVE  CallTypes'
BY DEF CallTypes

LEMMA FolderSize ==
    ASSUME NEW f
    PROVE  /\ InFolder(f) \in SUBSET Mails /\ IsFiniteSet(InFolder(f))
           /\ Cardinality(InFolder(f)) \in 0..MaxMails
<1>1. IsFiniteSet(Mails) /\ Cardinality(Mails) = MaxMails /\ MaxMails \in Nat
  BY HomeAssumption, FS_Interval DEF Mails
<1>2. InFolder(f) \in SUBSET Mails
  BY DEF InFolder
<1> QED
  BY <1>1, <1>2, FS_Subset, FS_CardinalityType

\* What the server does to a call that is under way.
LEMMA ListReadFacts ==
    ASSUME HomeTypeOK, ListRead
    PROVE  \E c \in Slots, read \in ListCall :
             /\ calls[c] # NoCall /\ calls[c] \in ListCall /\ calls' = [calls EXCEPT ![c] = read]
             /\ read.kind = "list" /\ read.state = "read"
             /\ read.found = PageOf(calls[c].folder, calls[c].page)
             /\ read.folder = calls[c].folder /\ read.page = calls[c].page
<1>1. PICK c \in Slots :
        /\ calls[c] # NoCall /\ calls[c].kind = "list"
        /\ calls' = [calls EXCEPT ![c].state = "read",
                                  ![c].found = PageOf(calls[c].folder, calls[c].page)]
  BY DEF ListRead
<1> DEFINE mails == PageOf(calls[c].folder, calls[c].page)
           read == [[calls[c] EXCEPT !.state = "read"] EXCEPT !.found = mails]
<1>2. CallTypes
  BY CallTypesAre
<1>3. calls[c] \in ListCall
  BY <1>1, <1>2, KindOfCall DEF CallTypes
<1>4. mails \in SUBSET Mails
  BY FolderSize DEF PageOf
<1>5. calls' = [calls EXCEPT ![c] = read]
  BY <1>1, <1>2 DEF CallTypes
<1> HIDE DEF mails
<1>6. /\ read \in ListCall /\ read.kind = "list" /\ read.state = "read"
      /\ read.found = mails /\ read.folder = calls[c].folder /\ read.page = calls[c].page
  BY <1>3, <1>4 DEF ListCall
<1> HIDE DEF read
<1> QED
  BY <1>1, <1>3, <1>5, <1>6 DEF mails

LEMMA ListCountedFacts ==
    ASSUME HomeTypeOK, ListCounted
    PROVE  \E c \in Slots, read \in ListCall :
             /\ calls[c] # NoCall /\ calls[c] \in ListCall /\ calls[c].state = "read"
             /\ calls' = [calls EXCEPT ![c] = read]
             /\ read.kind = "list" /\ read.state = "counted"
             /\ read.total = Cardinality(InFolder(calls[c].folder))
             /\ read.found = calls[c].found
             /\ read.folder = calls[c].folder /\ read.page = calls[c].page
<1>1. PICK c \in Slots :
        /\ calls[c] # NoCall /\ calls[c].kind = "list" /\ calls[c].state = "read"
        /\ calls' = [calls EXCEPT ![c].state = "counted",
                                  ![c].total = Cardinality(InFolder(calls[c].folder))]
  BY DEF ListCounted
<1> DEFINE total == Cardinality(InFolder(calls[c].folder))
           read == [[calls[c] EXCEPT !.state = "counted"] EXCEPT !.total = total]
<1>2. CallTypes
  BY CallTypesAre
<1>3. calls[c] \in ListCall
  BY <1>1, <1>2, KindOfCall DEF CallTypes
<1>4. total \in 0..MaxMails
  BY FolderSize
<1>5. calls' = [calls EXCEPT ![c] = read]
  BY <1>1, <1>2 DEF CallTypes
<1> HIDE DEF total
<1>6. /\ read \in ListCall /\ read.kind = "list" /\ read.state = "counted"
      /\ read.total = total /\ read.found = calls[c].found
      /\ read.folder = calls[c].folder /\ read.page = calls[c].page
  BY <1>3, <1>4 DEF ListCall
<1> HIDE DEF read
<1> QED
  BY <1>1, <1>3, <1>5, <1>6 DEF total

LEMMA SearchReadFacts ==
    ASSUME HomeTypeOK, SearchRead
    PROVE  \E c \in Slots, read \in SearchCall :
             /\ calls[c] # NoCall /\ calls[c] \in SearchCall /\ calls' = [calls EXCEPT ![c] = read]
             /\ read.kind = "search"
<1>1. PICK c \in Slots, mails \in SUBSET (InFolder("inbox") \cup InFolder("trash")) :
        /\ calls[c] # NoCall /\ calls[c].kind = "search"
        /\ calls' = [calls EXCEPT ![c].state = "read", ![c].found = mails]
  BY DEF SearchRead
<1> DEFINE read == [[calls[c] EXCEPT !.state = "read"] EXCEPT !.found = mails]
<1>2. CallTypes
  BY CallTypesAre
<1>3. calls[c] \in SearchCall /\ mails \in SUBSET Mails
  BY <1>1, <1>2, KindOfCall, FolderSize DEF CallTypes
<1>4. calls' = [calls EXCEPT ![c] = read]
  BY <1>1, <1>2 DEF CallTypes
<1>5. read \in SearchCall /\ read.kind = "search"
  BY <1>3 DEF SearchCall
<1> HIDE DEF read
<1> QED
  BY <1>1, <1>3, <1>4, <1>5

LEMMA ControlServedFacts ==
    ASSUME HomeTypeOK, ControlServed
    PROVE  \E c \in Slots, served \in ControlCall, done \in SUBSET Mails :
             /\ calls[c] # NoCall /\ calls[c] \in ControlCall /\ calls[c].state = "asked"
             /\ calls' = [calls EXCEPT ![c] = served] /\ served.kind = "control"
             /\ served.state # "asked" /\ done \subseteq calls[c].ids
             /\ served.state = "ok" => done = calls[c].ids
             /\ served.to = calls[c].to /\ served.ids = calls[c].ids
             /\ served.keys = calls[c].keys
             /\ served.then = calls[c].then /\ served.listed = calls[c].listed
             /\ place' = [m \in Mails |-> IF m \in done THEN calls[c].to ELSE place[m]]
<1>0. PICK c \in Slots :
        /\ calls[c] # NoCall /\ calls[c].kind = "control" /\ calls[c].state = "asked"
        /\ \E done \in SUBSET calls[c].ids, ok \in BOOLEAN :
             /\ ok => done = calls[c].ids
             /\ place' = [m \in Mails |-> IF m \in done THEN calls[c].to ELSE place[m]]
             /\ calls' = [calls EXCEPT ![c].state = IF ok THEN "ok" ELSE "error"]
  BY DEF ControlServed
<1>1. PICK done \in SUBSET calls[c].ids, ok \in BOOLEAN :
        /\ ok => done = calls[c].ids
        /\ place' = [m \in Mails |-> IF m \in done THEN calls[c].to ELSE place[m]]
        /\ calls' = [calls EXCEPT ![c].state = IF ok THEN "ok" ELSE "error"]
  BY <1>0
<1> DEFINE state == IF ok THEN "ok" ELSE "error"
           served == [calls[c] EXCEPT !.state = state]
<1>2. CallTypes
  BY CallTypesAre
<1>3. calls[c] \in ControlCall
  BY <1>0, <1>2, KindOfCall DEF CallTypes
<1>4. done \in SUBSET Mails
  BY <1>1, <1>3 DEF ControlCall
<1>5. state \in {"ok", "error"} /\ (state = "ok" => done = calls[c].ids)
  BY <1>1
<1>6. calls' = [calls EXCEPT ![c] = served]
  BY <1>1, <1>2 DEF CallTypes
<1> HIDE DEF state
<1>7. /\ served \in ControlCall /\ served.kind = "control" /\ served.state = state
      /\ served.to = calls[c].to /\ served.ids = calls[c].ids /\ served.keys = calls[c].keys
      /\ served.then = calls[c].then /\ served.listed = calls[c].listed
  BY <1>3, <1>5 DEF ControlCall
<1> HIDE DEF served
<1>8. served.state # "asked" /\ (served.state = "ok" => done = calls[c].ids)
  BY <1>5, <1>7
<1>9. served \in ControlCall
  BY <1>7
<1> WITNESS c \in Slots, served \in ControlCall, done \in SUBSET Mails
<1> QED
  BY <1>0, <1>1, <1>3, <1>6, <1>7, <1>8

LEMMA ControlTypes ==
    ASSUME HomeTypeOK, NEW c \in Slots, NEW to \in {"inbox", "trash", "deleted"},
           NEW ids \in SUBSET Mails, NEW keys \in SUBSET Keys,
           NEW then \in {"removeRows", "removeById", "reload"}, NEW listed \in BOOLEAN,
           Control(c, to, ids, keys, then, listed)
    PROVE  /\ CallTypes' /\ trusted' \in BOOLEAN
           /\ UNCHANGED <<place, folder, menu, pages, rows>>
<1> DEFINE call == [kind |-> "control", state |-> "asked", to |-> to, ids |-> ids,
                    keys |-> keys, then |-> then, listed |-> listed]
<1>1. call \in Call
  BY DEF Call, ControlCall
<1>2. Ask(c, call) /\ Waited /\ UNCHANGED <<place, folder, menu, pages, rows>>
  BY DEF Control
<1> HIDE DEF call
<1>3. CallTypes'
  BY <1>1, <1>2, AskTypes, CallTypesAre
<1>4. trusted' \in BOOLEAN
  BY <1>2 DEF Waited
<1> QED
  BY <1>2, <1>3, <1>4

LEMMA SelectedRows ==
    ASSUME HomeTypeOK, NEW ks \in SUBSET Listed(rows)
    PROVE  MailsOf(ks) \in SUBSET Mails /\ ks \in SUBSET Keys /\ Own(ks) \in BOOLEAN
<1>1. IsList(rows)
  BY CallTypesAre
<1>2. \A k \in ks : k \in Keys /\ rows[k].mail \in Mails
  BY <1>1, ListedIsRow DEF Row
<1> QED
  BY <1>2 DEF MailsOf, Own

LEMMA HomeTypeStep ==
    ASSUME HomeTypeOK, [HomeNext]_homeVars
    PROVE  HomeTypeOK'
<1> DEFINE HomeTypes ==
      /\ place \in [Mails -> Places] /\ folder \in Folders /\ menu \in {folder, "none"}
      /\ pages \in Pagination /\ enabled \in SUBSET {"prev", "next"}
      /\ refresh \in BOOLEAN /\ trusted \in BOOLEAN /\ IsList(rows)
      /\ pane \in Mails \cup {NoMail} /\ CallTypes
<1> SUFFICES HomeTypes'
  BY DEF HomeTypeOK, IsList, CallTypes, Call
<1>0. HomeTypes
  BY CallTypesAre
<1>1. ASSUME SwitchFolder PROVE HomeTypes'
  <2>1. PICK c \in Slots, f \in Folders :
          /\ folder' = f /\ menu' = f /\ pages' = FirstPage /\ Load(c, f, 1)
          /\ trusted' = Idle /\ UNCHANGED place
    BY <1>1 DEF SwitchFolder, LoadMailList
  <2>2. CallTypes' /\ IsList(rows')
    BY <1>0, <2>1, LoadTypes, HomeAssumption
  <2>3. trusted' \in BOOLEAN
    BY <2>1 DEF Idle
  <2> QED
    BY <1>0, <2>1, <2>2, <2>3, FirstPageFacts DEF Load, uiVars
<1>2. ASSUME ClickPrev \/ ClickNext \/ SyncAnswered PROVE HomeTypes'
  <2>1. PICK c \in Slots, page \in {pages.prev, pages.next, pages.page} :
          Load(c, folder, page) /\ Waited /\ UNCHANGED <<folder, menu, pages>>
    BY <1>2 DEF ClickPrev, ClickNext, SyncAnswered, LoadMailList
  <2>2. page \in 1..MaxMails
    BY <1>0, <2>1 DEF Pagination
  <2>3. CallTypes' /\ IsList(rows')
    BY <1>0, <2>1, <2>2, LoadTypes
  <2>4. place' \in [Mails -> Places]
    BY <1>0, <1>2 DEF ClickPrev, ClickNext, SyncAnswered, Places, Folders
  <2>5. trusted' \in BOOLEAN
    BY <2>1 DEF Waited
  <2> QED
    BY <1>0, <2>1, <2>3, <2>4, <2>5 DEF Load, uiVars
<1>3. ASSUME ListRead \/ ListCounted \/ SearchRead PROVE HomeTypes'
  <2>1. CallTypes'
    BY <1>0, <1>3, ListReadFacts, ListCountedFacts, SearchReadFacts, ChangeTypes DEF Call
  <2> QED
    BY <1>0, <1>3, <2>1 DEF ListRead, ListCounted, SearchRead, uiVars
<1>4. ASSUME ListAnswered PROVE HomeTypes'
  <2>1. PICK c \in Slots :
          /\ calls[c] # NoCall /\ calls[c].kind = "list" /\ Drop(c)
          /\ \/ /\ calls[c].total > 0
                /\ rows' = Append(rows, calls[c].found, calls[c].folder)
                /\ pages' = UpdatePages(calls[c].page, calls[c].total)
                /\ UpdateUI(rows', pages', pane)
             \/ UNCHANGED <<rows, pages, uiVars>>
          /\ UNCHANGED <<place, folder, menu, trusted>>
    BY <1>4 DEF ListAnswered
  <2>2. calls[c] \in ListCall
    BY <1>0, <2>1, KindOfCall DEF CallTypes
  <2>3. /\ calls[c].found \in SUBSET Mails /\ calls[c].folder \in Folders
        /\ calls[c].page \in 1..MaxMails /\ calls[c].total \in 0..MaxMails
    BY <2>2 DEF ListCall
  <2>4. CallTypes'
    BY <1>0, <2>1, DropTypes
  <2>5. CASE UNCHANGED <<rows, pages, uiVars>>
    BY <1>0, <2>1, <2>4, <2>5 DEF uiVars
  <2>6. ASSUME calls[c].total > 0, rows' = Append(rows, calls[c].found, calls[c].folder),
               pages' = UpdatePages(calls[c].page, calls[c].total),
               UpdateUI(rows', pages', pane)
        PROVE  HomeTypes'
    <3>1. IsList(rows')
      BY <1>0, <2>3, <2>6, AppendIsList
    <3>2. calls[c].total \in 1..MaxMails
      BY <2>3, <2>6, HomeAssumption
    <3>3. pages' \in Pagination
      BY <1>0, <2>3, <2>6, <3>2, UpdatePagesFacts
    <3>4. refresh' \in BOOLEAN /\ enabled' \in SUBSET {"prev", "next"} /\ pane' \in {pane, NoMail}
      BY <1>0, <2>6, UITypes
    <3> QED
      BY <1>0, <2>1, <2>4, <3>1, <3>3, <3>4
  <2> QED
    BY <2>1, <2>5, <2>6
<1>5. ASSUME CallFails PROVE HomeTypes'
  <2>1. CallTypes'
    BY <1>0, <1>5, DropTypes DEF CallFails
  <2> QED
    BY <1>0, <1>5, <2>1 DEF CallFails, uiVars
<1>6. ASSUME ClickSearch PROVE HomeTypes'
  <2> DEFINE call == [kind |-> "search", state |-> "asked", found |-> {}, keys |-> {}]
  <2>1. PICK c \in Slots : Ask(c, call)
    BY <1>6 DEF ClickSearch
  <2>2. call \in Call
    BY DEF Call, SearchCall
  <2> HIDE DEF call
  <2>3. CallTypes'
    BY <1>0, <2>1, <2>2, AskTypes
  <2> QED
    BY <1>0, <1>6, <2>3 DEF ClickSearch, Waited, uiVars
<1>7. ASSUME SearchAnswered PROVE HomeTypes'
  <2>1. PICK c \in Slots :
          /\ calls[c] # NoCall /\ calls[c].kind = "search"
          /\ calls' = [d \in Slots |-> IF d = c \/ calls[d] = NoCall THEN NoCall
                         ELSE [calls[d] EXCEPT !.keys = IF calls[c].found = {} THEN @ ELSE {}]]
          /\ \/ /\ rows' = Append(Empty, calls[c].found, "search")
                /\ pages' = FirstPage /\ menu' = "none" /\ UpdateUI(rows', pages', pane)
             \/ UNCHANGED <<rows, pages, menu, uiVars>>
          /\ UNCHANGED <<place, folder, trusted>>
    BY <1>7 DEF SearchAnswered
  <2>2. calls[c].found \in SUBSET Mails
    BY <1>0, <2>1, KindOfCall DEF CallTypes, SearchCall
  <2>3. CallTypes'
    <3>1. ASSUME NEW d \in Slots, d # c, calls[d] # NoCall
          PROVE  calls'[d] \in Call
      <4>1. calls[d] \in Call
        BY <1>0, <3>1 DEF CallTypes
      <4>2. calls'[d] = [calls[d] EXCEPT !.keys = IF calls[c].found = {} THEN @ ELSE {}]
        BY <2>1, <3>1
      <4>3. CASE calls[c].found = {}
        <5>1. calls'[d] = [calls[d] EXCEPT !.keys = calls[d].keys]
          BY <4>2, <4>3
        <5> QED
          BY <4>1, <5>1, KindOfCall DEF Call, ListCall, SearchCall, ReadCall, ControlCall
      <4>4. CASE calls[c].found # {}
        <5>1. calls'[d] = [calls[d] EXCEPT !.keys = {}]
          BY <4>2, <4>4
        <5> QED
          BY <4>1, <5>1, ForgetKeys
      <4> QED
        BY <4>3, <4>4
    <3>2. \A d \in Slots : calls'[d] \in Call \cup {NoCall}
      BY <2>1, <3>1
    <3>3. calls' = [d \in Slots |-> calls'[d]]
      BY <2>1
    <3> QED
      BY <3>2, <3>3 DEF CallTypes
  <2>4. CASE UNCHANGED <<rows, pages, menu, uiVars>>
    BY <1>0, <2>1, <2>3, <2>4 DEF uiVars
  <2>5. ASSUME rows' = Append(Empty, calls[c].found, "search"),
               pages' = FirstPage, menu' = "none", UpdateUI(rows', pages', pane)
        PROVE  HomeTypes'
    <3>1. IsList(rows')
      BY <2>2, <2>5, AppendIsList, EmptyIsList
    <3>2. refresh' \in BOOLEAN /\ enabled' \in SUBSET {"prev", "next"} /\ pane' \in {pane, NoMail}
      BY <1>0, <2>5, UITypes
    <3> QED
      BY <1>0, <2>1, <2>3, <2>5, <3>1, <3>2, FirstPageFacts
  <2> QED
    BY <2>1, <2>4, <2>5
<1>8. ASSUME Toggle PROVE HomeTypes'
  <2>1. \E k \in Listed(rows) : rows' = Toggled(rows, k)
    BY <1>8, Zenon DEF Toggle, Toggled
  <2>2. IsList(rows')
    BY <1>0, <2>1, ToggleFacts
  <2>3. refresh' \in BOOLEAN /\ enabled' \in SUBSET {"prev", "next"} /\ pane' \in {pane, NoMail}
    BY <1>0, <1>8, UITypes DEF Toggle
  <2> QED
    BY <1>0, <1>8, <2>2, <2>3 DEF Toggle, CallTypes
<1>9. ASSUME ClickStar PROVE HomeTypes'
  <2>1. refresh' \in BOOLEAN /\ enabled' \in SUBSET {"prev", "next"} /\ pane' \in {pane, NoMail}
    BY <1>0, <1>9, UITypes DEF ClickStar
  <2> QED
    BY <1>0, <1>9, <2>1 DEF ClickStar, CallTypes
<1>10. ASSUME OpenRow PROVE HomeTypes'
  <2>1. PICK c \in Slots, k \in Listed(rows) :
          /\ Ask(c, [kind |-> "read", mail |-> rows[k].mail, keys |-> {k}])
          /\ Waited /\ UNCHANGED <<place, folder, menu, pages, uiVars, rows>>
    BY <1>10 DEF OpenRow
  <2>2. k \in Keys /\ rows[k].mail \in Mails
    BY <1>0, ListedIsRow DEF Row
  <2> DEFINE call == [kind |-> "read", mail |-> rows[k].mail, keys |-> {k}]
  <2>3. call \in Call
    BY <2>2 DEF Call, ReadCall
  <2> HIDE DEF call
  <2>4. CallTypes'
    BY <1>0, <2>1, <2>3, AskTypes DEF call
  <2> QED
    BY <1>0, <2>1, <2>4 DEF Waited, uiVars
<1>11. ASSUME OpenAnswered PROVE HomeTypes'
  <2>1. PICK c \in Slots :
          /\ calls[c] # NoCall /\ calls[c].kind = "read" /\ Drop(c)
          /\ rows' = IF calls[c].keys \cap Listed(rows) = {} THEN rows
               ELSE [k \in Keys |-> IF rows[k] = NoRow THEN NoRow
                                    ELSE [rows[k] EXCEPT !.active = (k \in calls[c].keys)]]
          /\ UpdateUI(rows', pages, calls[c].mail)
          /\ UNCHANGED <<place, folder, menu, pages, trusted>>
    BY <1>11 DEF OpenAnswered
  <2>2. calls[c].mail \in Mails
    BY <1>0, <2>1, KindOfCall DEF CallTypes, ReadCall
  <2>3. IsList(rows')
    <3>1. rows' = rows \/ rows' = Activated(rows, calls[c].keys)
      BY <2>1 DEF Activated
    <3> QED
      BY <1>0, <3>1, ActivateFacts
  <2>4. /\ refresh' \in BOOLEAN /\ enabled' \in SUBSET {"prev", "next"}
        /\ pane' \in {calls[c].mail, NoMail}
    BY <2>1, <2>2, UITypes
  <2>5. CallTypes'
    BY <1>0, <2>1, DropTypes
  <2> QED
    BY <1>0, <2>1, <2>2, <2>3, <2>4, <2>5
<1>12. ASSUME DeleteSelected PROVE HomeTypes'
  <2>1. PICK c \in Slots :
          /\ Control(c, DeleteOrTrash, MailsOf(Selected(rows)), Selected(rows), "removeRows",
                     Own(Selected(rows)))
          /\ UNCHANGED uiVars
    BY <1>12 DEF DeleteSelected
  <2>2. /\ MailsOf(Selected(rows)) \in SUBSET Mails /\ Selected(rows) \in SUBSET Keys
        /\ Own(Selected(rows)) \in BOOLEAN /\ DeleteOrTrash \in {"trash", "deleted"}
    BY SelectedRows DEF Selected, DeleteOrTrash
  <2>3. CallTypes' /\ trusted' \in BOOLEAN /\ UNCHANGED <<place, folder, menu, pages, rows>>
    BY <2>1, <2>2, ControlTypes
  <2> QED
    BY <1>0, <2>1, <2>3 DEF uiVars
<1>13. ASSUME DeleteRow PROVE HomeTypes'
  <2>1. PICK c \in Slots, k \in Listed(rows) :
          /\ Control(c, "deleted", {rows[k].mail}, {k}, "removeRows", Own({k}))
          /\ UpdateUI(rows, pages, pane)
    BY <1>13 DEF DeleteRow
  <2>2. {rows[k].mail} \in SUBSET Mails /\ {k} \in SUBSET Keys /\ Own({k}) \in BOOLEAN
    BY SelectedRows DEF MailsOf
  <2>3. CallTypes' /\ trusted' \in BOOLEAN /\ UNCHANGED <<place, folder, menu, pages, rows>>
    BY <2>1, <2>2, ControlTypes
  <2>4. refresh' \in BOOLEAN /\ enabled' \in SUBSET {"prev", "next"} /\ pane' \in {pane, NoMail}
    BY <1>0, <2>1, UITypes
  <2> QED
    BY <1>0, <2>3, <2>4
<1>14. ASSUME DeleteOpened PROVE HomeTypes'
  <2> DEFINE listed == \E k \in Listed(rows) : rows[k].mail = pane /\ Own({k})
  <2>1. PICK c \in Slots :
          /\ pane # NoMail /\ Control(c, DeleteOrTrash, {pane}, {}, "removeById", listed)
          /\ UNCHANGED uiVars
    BY <1>14 DEF DeleteOpened
  <2>2. {pane} \in SUBSET Mails /\ DeleteOrTrash \in {"trash", "deleted"} /\ listed \in BOOLEAN
    BY <1>0, <2>1 DEF DeleteOrTrash
  <2> HIDE DEF listed
  <2>3. CallTypes' /\ trusted' \in BOOLEAN /\ UNCHANGED <<place, folder, menu, pages, rows>>
    BY <2>1, <2>2, ControlTypes
  <2> QED
    BY <1>0, <2>1, <2>3 DEF uiVars
<1>15. ASSUME MoveSelected PROVE HomeTypes'
  <2>1. PICK c \in Slots, f \in Folders :
          /\ Control(c, f, MailsOf(Selected(rows)), {}, "reload", FALSE)
          /\ UNCHANGED uiVars
    BY <1>15 DEF MoveSelected
  <2>2. MailsOf(Selected(rows)) \in SUBSET Mails /\ f \in {"inbox", "trash", "deleted"}
    BY SelectedRows DEF Selected, Folders
  <2>3. CallTypes' /\ trusted' \in BOOLEAN /\ UNCHANGED <<place, folder, menu, pages, rows>>
    BY <2>1, <2>2, ControlTypes
  <2> QED
    BY <1>0, <2>1, <2>3 DEF uiVars
<1>16. ASSUME ControlServed PROVE HomeTypes'
  <2>1. PICK c \in Slots, served \in ControlCall, done \in SUBSET Mails :
          /\ calls[c] \in ControlCall /\ calls' = [calls EXCEPT ![c] = served]
          /\ place' = [m \in Mails |-> IF m \in done THEN calls[c].to ELSE place[m]]
    BY <1>16, ControlServedFacts
  <2>2. CallTypes'
    BY <1>0, <2>1, ChangeTypes DEF Call
  <2>3. place' \in [Mails -> Places]
    BY <1>0, <2>1 DEF ControlCall, Places, Folders
  <2> QED
    BY <1>0, <1>16, <2>2, <2>3 DEF ControlServed, uiVars
<1>17. ASSUME ControlAnswered PROVE HomeTypes'
  <2>1. PICK c \in Slots :
          /\ calls[c] # NoCall /\ calls[c].kind = "control"
          /\ IF calls[c].then = "reload"
               THEN Load(c, folder, pages.page)
               ELSE /\ rows' = RowsAfter(calls[c])
                    /\ Drop(c)
                    /\ UNCHANGED uiVars
          /\ UNCHANGED <<place, folder, menu, pages, trusted>>
    BY <1>17 DEF ControlAnswered, LoadMailList
  <2>2. CASE calls[c].then = "reload"
    <3>1. pages.page \in 1..MaxMails
      BY <1>0 DEF Pagination
    <3>2. CallTypes' /\ IsList(rows')
      BY <1>0, <2>1, <2>2, <3>1, LoadTypes
    <3> QED
      BY <1>0, <2>1, <2>2, <3>2 DEF Load, uiVars
  <2>3. CASE calls[c].then # "reload"
    <3>1. calls[c].then \in {"removeRows", "removeById"}
      BY <1>0, <2>1, <2>3, KindOfCall DEF CallTypes, ControlCall
    <3>2. IsList(rows')
      <4>1. CASE calls[c].then = "removeRows"
        BY <1>0, <2>1, <2>3, <4>1, FadeFacts DEF RowsAfter
      <4>2. CASE calls[c].then = "removeById"
        BY <1>0, <2>1, <2>3, <4>2, FadeFacts DEF RowsAfter
      <4> QED
        BY <3>1, <4>1, <4>2
    <3>3. CallTypes'
      BY <1>0, <2>1, <2>3, DropTypes
    <3> QED
      BY <1>0, <2>1, <2>3, <3>2, <3>3 DEF uiVars
  <2> QED
    BY <2>2, <2>3
<1>18. ASSUME RowVanishes PROVE HomeTypes'
  <2>1. PICK k \in Listed(rows) :
          /\ rows' = [rows EXCEPT ![k] = NoRow]
          /\ UpdateUI(rows', pages, pane) \/ UNCHANGED uiVars
          /\ UNCHANGED <<place, folder, menu, pages, calls, trusted>>
    BY <1>18 DEF RowVanishes
  <2>2. IsList(rows')
    BY <1>0, <2>1, VanishFacts
  <2>3. refresh' \in BOOLEAN /\ enabled' \in SUBSET {"prev", "next"} /\ pane' \in {pane, NoMail}
    BY <1>0, <2>1, UITypes DEF uiVars
  <2> QED
    BY <1>0, <2>1, <2>2, <2>3 DEF CallTypes
<1>19. ASSUME UNCHANGED homeVars PROVE HomeTypes'
  BY <1>0, <1>19 DEF homeVars, CallTypes
<1> QED
  BY <1>1, <1>2, <1>3, <1>4, <1>5, <1>6, <1>7, <1>8, <1>9, <1>10, <1>11, <1>12, <1>13, <1>14,
     <1>15, <1>16, <1>17, <1>18, <1>19 DEF HomeNext

LEMMA HomeTypeInit == HomeInit => HomeTypeOK
<1> SUFFICES ASSUME HomeInit PROVE HomeTypeOK
  OBVIOUS
<1>1. calls \in [Slots -> Call \cup {NoCall}]
  BY ListOfIsCall, HomeAssumption DEF HomeInit, Call, Folders
<1>2. place \in [Mails -> Places]
  BY DEF HomeInit, Places, Folders
<1> QED
  BY <1>1, <1>2, EmptyIsList, FirstPageFacts DEF HomeInit, HomeTypeOK, Call, IsList, Folders

----
(* A user who waits *)

Under(kind) == {c \in Slots : calls[c] # NoCall /\ calls[c].kind = kind}

\* The server has worked on this mail, and the page does not know.
Served(m) == \E c \in Under("control") : calls[c].state # "asked" /\ m \in calls[c].ids

OneCallAtATime == \A c, d \in Slots : calls[c] # NoCall /\ calls[d] # NoCall => c = d

OneRowEach == \A k, l \in Listed(rows) : rows[k].mail = rows[l].mail => k = l

\* A row that stays is a mail of the folder, a row that vanishes has left it.
RowTrue(k) ==
    /\ rows[k].at \in {folder, "search"}
    /\ rows[k].at = folder =>
         /\ rows[k].fades = "no" =>
              place[rows[k].mail] = folder \/ Served(rows[k].mail)
         /\ rows[k].fades # "no" =>
              /\ place[rows[k].mail] # folder
              /\ folder = "trash" => place[rows[k].mail] # "inbox" \/ Served(rows[k].mail)

ListTrue(c) ==
    /\ calls[c].folder = folder
    /\ Listed(rows) = {}
    /\ calls[c].state # "asked" => calls[c].found = PageOf(folder, calls[c].page)
    /\ calls[c].state = "counted" => calls[c].total = Cardinality(InFolder(folder))

ControlTrue(c) ==
    /\ calls[c].to # folder
    /\ calls[c].then = "removeRows" =>
         \A k \in Listed(rows) : rows[k].mail \in calls[c].ids <=> k \in calls[c].keys
    /\ calls[c].then # "reload" /\ folder = "trash" => calls[c].to = "deleted"
    /\ calls[c].state = "asked" /\ calls[c].listed /\ calls[c].to = "deleted" =>
         \A m \in calls[c].ids : place[m] # "inbox"
    /\ calls[c].state = "ok" => \A m \in calls[c].ids : place[m] = calls[c].to

PageTrue ==
    /\ OneCallAtATime
    /\ OneRowEach
    /\ \A k \in Listed(rows) : RowTrue(k)
    /\ \A c \in Under("list") : ListTrue(c)
    /\ \A c \in Under("control") : ControlTrue(c)

HomeInv == HomeTypeOK /\ (trusted => PageTrue)

\* A list that was asked for, and nothing else: there is nothing to be wrong about.
LEMMA LoadedTrue ==
    ASSUME NEW c \in Slots, \A d \in Slots \ {c} : calls[d] = NoCall,
           NEW page, Load(c, folder', page)
    PROVE  PageTrue'
<1>1. /\ calls'[c] = ListOf(folder', page) /\ \A d \in Slots \ {c} : calls'[d] = NoCall
      /\ rows' = Empty
  BY DEF Load
<1>2. Listed(rows') = {}
  BY <1>1, EmptyIsList
<1>3. OneCallAtATime' /\ OneRowEach' /\ \A k \in Listed(rows') : RowTrue(k)'
  BY <1>1, <1>2 DEF OneCallAtATime, OneRowEach
<1>4. \A d \in Under("list")' : ListTrue(d)'
  BY <1>1, <1>2 DEF Under, ListTrue, ListOf
<1>5. Under("control")' = {}
  BY <1>1 DEF Under, ListOf
<1> QED
  BY <1>2, <1>3, <1>4, <1>5 DEF PageTrue

\* A call of another kind goes out.
LEMMA AskedTrue ==
    ASSUME HomeTypeOK, PageTrue, Idle, NEW c \in Slots, NEW call, Ask(c, call),
           UNCHANGED <<place, folder, rows>>,
           call.kind # "list",
           call.kind = "control" => call.state = "asked" /\ ControlTrue(c)'
    PROVE  PageTrue'
<1>1. CallTypes /\ \A d \in Slots : calls[d] = NoCall
  BY CallTypesAre DEF Idle
<1>2. /\ calls' = [calls EXCEPT ![c] = call] /\ calls'[c] = call
      /\ \A d \in Slots \ {c} : calls'[d] = NoCall
  BY <1>1 DEF Ask, CallTypes
<1>3. \A m : ~Served(m) /\ ~Served(m)'
  BY <1>1, <1>2 DEF Served, Under
<1>4. \A k \in Listed(rows') : RowTrue(k)'
  BY <1>3 DEF PageTrue, RowTrue
<1>5. OneCallAtATime' /\ OneRowEach'
  BY <1>2 DEF PageTrue, OneCallAtATime, OneRowEach
<1>6. Under("list")' = {} /\ \A d \in Under("control")' : ControlTrue(d)'
  BY <1>2 DEF Under
<1> QED
  BY <1>4, <1>5, <1>6 DEF PageTrue

\* The list may lose rows, and calls that are no list and change no mail are answered.
LEMMA QuietTrue ==
    ASSUME PageTrue, UNCHANGED <<place, folder>>,
           Listed(rows') \subseteq Listed(rows),
           \A k \in Listed(rows') : /\ rows'[k].mail = rows[k].mail /\ rows'[k].at = rows[k].at
                                    /\ rows'[k].fades = rows[k].fades,
           \A d \in Slots : \/ calls'[d] = calls[d]
                            \/ /\ calls[d] # NoCall /\ calls[d].kind \notin {"list", "control"}
                               /\ \/ calls'[d] = NoCall
                                  \/ calls'[d].kind \notin {"list", "control"}
    PROVE  PageTrue'
<1>1. OneCallAtATime' /\ OneRowEach'
  BY DEF PageTrue, OneCallAtATime, OneRowEach
<1>2. /\ Under("list")' = Under("list") /\ Under("control")' = Under("control")
      /\ \A d \in Under("list") \cup Under("control") : calls'[d] = calls[d]
  BY DEF Under
<1>3. \A m : Served(m)' <=> Served(m)
  BY <1>2 DEF Served
<1>4. \A k \in Listed(rows') : RowTrue(k)'
  BY <1>3 DEF PageTrue, RowTrue
<1>5. \A d \in Under("list")' : ListTrue(d)'
  <2>1. \A f, page : PageOf(f, page)' = PageOf(f, page) /\ InFolder(f)' = InFolder(f)
    BY DEF PageOf, InFolder
  <2> QED
    BY <1>2, <2>1 DEF PageTrue, ListTrue
<1>6. \A d \in Under("control")' : ControlTrue(d)'
  BY <1>2 DEF PageTrue, ControlTrue
<1> QED
  BY <1>1, <1>4, <1>5, <1>6 DEF PageTrue

\* A click of DeleteSelected, DeleteRow or DeleteOpened asks for what the list shows.
LEMMA DeleteTrue ==
    ASSUME HomeTypeOK, PageTrue, Idle, NEW c \in Slots, NEW to, NEW ids, NEW keys, NEW then,
           NEW listed, Control(c, to, ids, keys, then, listed), to # folder,
           then = "removeRows" =>
             \A k \in Listed(rows) : rows[k].mail \in ids <=> k \in keys,
           then # "reload" /\ folder = "trash" => to = "deleted",
           listed /\ to = "deleted" =>
             folder = "trash" /\ \A m \in ids : \E k \in Listed(rows) : rows[k].mail = m
                                                                     /\ rows[k].at = folder
    PROVE  PageTrue'
<1> DEFINE call == [kind |-> "control", state |-> "asked", to |-> to, ids |-> ids,
                    keys |-> keys, then |-> then, listed |-> listed]
<1>1. Ask(c, call) /\ UNCHANGED <<place, folder, rows>>
  BY DEF Control
<1>2. call.kind = "control" /\ call.state = "asked"
  OBVIOUS
<1>3. /\ calls'[c].state = "asked" /\ calls'[c].to = to /\ calls'[c].ids = ids
      /\ calls'[c].keys = keys /\ calls'[c].then = then /\ calls'[c].listed = listed
  <2>1. calls'[c] = call
    BY <1>1, CallTypesAre DEF Ask, CallTypes
  <2> QED
    BY <2>1
<1> HIDE DEF call
<1>4. listed /\ to = "deleted" => \A m \in ids : place[m] # "inbox"
  <2> SUFFICES ASSUME listed, to = "deleted", NEW m \in ids PROVE place[m] # "inbox"
    OBVIOUS
  <2>1. folder = "trash"
    OBVIOUS
  <2>2. PICK k \in Listed(rows) : rows[k].mail = m /\ rows[k].at = folder
    OBVIOUS
  <2>3. ~Served(m)
    BY DEF Served, Under, Idle
  <2> QED
    BY <2>1, <2>2, <2>3 DEF PageTrue, RowTrue
<1>5. ControlTrue(c)'
  BY <1>1, <1>3, <1>4 DEF ControlTrue
<1> QED
  BY <1>1, <1>2, <1>5, AskedTrue

LEMMA WaitedMeansIdle == ASSUME Waited, trusted' PROVE trusted /\ Idle
BY DEF Waited

LEMMA OnlyCall ==
    ASSUME HomeTypeOK, PageTrue, NEW c \in Slots, calls[c] # NoCall
    PROVE  \A d \in Slots \ {c} : calls[d] = NoCall
BY DEF PageTrue, OneCallAtATime

\* The lists that are loaded.
LEMMA LoadStep ==
    ASSUME HomeInv, trusted', SwitchFolder \/ ClickPrev \/ ClickNext \/ SyncAnswered
    PROVE  PageTrue'
<1>1. PICK c \in Slots, page \in {1, pages.prev, pages.next, pages.page} :
        Load(c, folder', page)
  BY DEF SwitchFolder, ClickPrev, ClickNext, SyncAnswered, LoadMailList
<1>2. Idle
  BY WaitedMeansIdle DEF SwitchFolder, ClickPrev, ClickNext, SyncAnswered
<1> QED
  BY <1>1, <1>2, LoadedTrue DEF Idle

LEMMA AskStep ==
    ASSUME HomeInv, trusted',
           ClickSearch \/ OpenRow \/ DeleteSelected \/ DeleteRow \/ DeleteOpened \/ MoveSelected
    PROVE  PageTrue'
<1>1. PageTrue /\ Idle /\ HomeTypeOK /\ folder \in Folders
  BY WaitedMeansIdle, CallTypesAre
     DEF HomeInv, ClickSearch, OpenRow, DeleteSelected, DeleteRow, DeleteOpened, MoveSelected,
         Control
<1>2. DeleteOrTrash # folder /\ (DeleteOrTrash = "deleted" <=> folder = "trash")
  BY <1>1 DEF DeleteOrTrash, Folders
<1>3. CASE ClickSearch
  <2> DEFINE call == [kind |-> "search", state |-> "asked", found |-> {}, keys |-> {}]
  <2>1. PICK c \in Slots : Ask(c, call) /\ UNCHANGED <<place, folder, rows>>
    BY <1>3 DEF ClickSearch
  <2>2. call.kind # "list" /\ call.kind # "control"
    OBVIOUS
  <2> HIDE DEF call
  <2> QED
    BY <1>1, <2>1, <2>2, AskedTrue
<1>4. CASE OpenRow
  <2> DEFINE call(k) == [kind |-> "read", mail |-> rows[k].mail, keys |-> {k}]
  <2>1. PICK c \in Slots, k \in Listed(rows) : Ask(c, call(k)) /\ UNCHANGED <<place, folder, rows>>
    BY <1>4 DEF OpenRow
  <2>2. call(k).kind # "list" /\ call(k).kind # "control"
    OBVIOUS
  <2> HIDE DEF call
  <2> QED
    BY <1>1, <2>1, <2>2, AskedTrue
<1>5. CASE DeleteSelected
  <2> DEFINE ks == Selected(rows)
  <2>1. PICK c \in Slots : Control(c, DeleteOrTrash, MailsOf(ks), ks, "removeRows", Own(ks))
    BY <1>5 DEF DeleteSelected
  <2>2. ks \subseteq Listed(rows)
    BY DEF Selected
  <2> HIDE DEF ks
  <2>3. \A k \in Listed(rows) : rows[k].mail \in MailsOf(ks) <=> k \in ks
    BY <1>1, <2>2 DEF MailsOf, PageTrue, OneRowEach
  <2>4. Own(ks) => \A m \in MailsOf(ks) : \E k \in Listed(rows) : rows[k].mail = m
                                                               /\ rows[k].at = folder
    BY <2>2 DEF Own, MailsOf
  <2> QED
    BY <1>1, <1>2, <2>1, <2>3, <2>4, DeleteTrue
<1>6. CASE DeleteRow
  <2>1. PICK c \in Slots, k \in Listed(rows) :
          /\ rows[k].at = "trash"
          /\ Control(c, "deleted", {rows[k].mail}, {k}, "removeRows", Own({k}))
    BY <1>6 DEF DeleteRow
  <2>2. folder = "trash"
    BY <1>1, <2>1 DEF PageTrue, RowTrue
  <2>3. \A l \in Listed(rows) : rows[l].mail \in {rows[k].mail} <=> l \in {k}
    BY <1>1 DEF PageTrue, OneRowEach
  <2> QED
    BY <1>1, <2>1, <2>2, <2>3, DeleteTrue
<1>7. CASE DeleteOpened
  <2> DEFINE listed == \E k \in Listed(rows) : rows[k].mail = pane /\ Own({k})
  <2>1. PICK c \in Slots : Control(c, DeleteOrTrash, {pane}, {}, "removeById", listed)
    BY <1>7 DEF DeleteOpened
  <2>2. listed => \A m \in {pane} : \E k \in Listed(rows) : rows[k].mail = m
                                                         /\ rows[k].at = folder
    BY DEF Own
  <2> HIDE DEF listed
  <2> QED
    BY <1>1, <1>2, <2>1, <2>2, DeleteTrue
<1>8. CASE MoveSelected
  <2> DEFINE listed == FALSE
  <2>1. PICK c \in Slots, f \in Folders :
          f # folder /\ Control(c, f, MailsOf(Selected(rows)), {}, "reload", listed)
    BY <1>8 DEF MoveSelected
  <2>2. ~listed
    OBVIOUS
  <2> HIDE DEF listed
  <2> QED
    BY <1>1, <2>1, <2>2, DeleteTrue
<1> QED
  BY <1>3, <1>4, <1>5, <1>6, <1>7, <1>8

\* The server works on the call.
LEMMA ListServedStep ==
    ASSUME HomeInv, trusted', ListRead \/ ListCounted
    PROVE  PageTrue'
<1>1. PageTrue /\ HomeTypeOK /\ CallTypes /\ UNCHANGED <<place, folder, rows>>
  BY CallTypesAre DEF HomeInv, ListRead, ListCounted
<1>2. PICK c \in Slots, read \in ListCall :
        /\ calls[c] # NoCall /\ calls[c] \in ListCall /\ calls' = [calls EXCEPT ![c] = read]
        /\ read.folder = calls[c].folder /\ read.page = calls[c].page
        /\ \/ /\ read.state = "read" /\ read.found = PageOf(calls[c].folder, calls[c].page)
           \/ /\ read.state = "counted" /\ calls[c].state = "read"
              /\ read.found = calls[c].found
              /\ read.total = Cardinality(InFolder(calls[c].folder))
  BY <1>1, ListReadFacts, ListCountedFacts
<1>3. c \in Under("list") /\ ListTrue(c)
  BY <1>1, <1>2 DEF Under, ListCall, PageTrue
<1>4. calls'[c] = read /\ \A d \in Slots \ {c} : calls'[d] = NoCall
  BY <1>1, <1>2, OnlyCall DEF CallTypes
<1>5. /\ read.folder = folder
      /\ read.state # "asked" => read.found = PageOf(folder, read.page)
      /\ read.state = "counted" => read.total = Cardinality(InFolder(folder))
  BY <1>2, <1>3 DEF ListTrue
<1>6. \A f, page : PageOf(f, page)' = PageOf(f, page) /\ InFolder(f)' = InFolder(f)
  BY <1>1 DEF PageOf, InFolder
<1>7. \A d \in Under("list")' : ListTrue(d)'
  BY <1>1, <1>3, <1>4, <1>5, <1>6 DEF Under, ListTrue
<1>8. Under("control")' = {}
  BY <1>2, <1>4 DEF Under, ListCall
<1>9. OneCallAtATime' /\ OneRowEach' /\ Listed(rows') = {}
  BY <1>1, <1>3, <1>4 DEF OneCallAtATime, OneRowEach, ListTrue
<1> QED
  BY <1>7, <1>8, <1>9 DEF PageTrue

LEMMA ControlServedStep ==
    ASSUME HomeInv, trusted', ControlServed
    PROVE  PageTrue'
<1>1. PageTrue /\ HomeTypeOK /\ CallTypes /\ UNCHANGED <<folder, rows>> /\ IsList(rows)
  BY CallTypesAre DEF HomeInv, ControlServed
<1>2. PICK c \in Slots, served \in ControlCall, done \in SUBSET Mails :
        /\ calls[c] # NoCall /\ calls[c] \in ControlCall /\ calls[c].state = "asked"
        /\ calls' = [calls EXCEPT ![c] = served] /\ served.kind = "control"
        /\ served.state # "asked" /\ done \subseteq calls[c].ids
        /\ served.state = "ok" => done = calls[c].ids
        /\ served.to = calls[c].to /\ served.ids = calls[c].ids
        /\ served.keys = calls[c].keys
        /\ served.then = calls[c].then /\ served.listed = calls[c].listed
        /\ place' = [m \in Mails |-> IF m \in done THEN calls[c].to ELSE place[m]]
  BY <1>1, ControlServedFacts
<1>3. c \in Under("control") /\ ControlTrue(c)
  BY <1>1, <1>2 DEF Under, ControlCall, PageTrue
<1>4. calls'[c] = served /\ \A d \in Slots \ {c} : calls[d] = NoCall /\ calls'[d] = NoCall
  BY <1>1, <1>2, OnlyCall DEF CallTypes
<1>5. c \in Under("control")' \/ served = NoCall
  BY <1>2, <1>4 DEF Under
<1>6. served # NoCall
  BY <1>2, NothingAssumption
<1>7. \A m \in served.ids : Served(m)'
  BY <1>2, <1>4, <1>5, <1>6 DEF Served
<1>8. \A m : ~Served(m)
  BY <1>2, <1>4 DEF Served, Under
<1>9. ASSUME NEW k \in Listed(rows') PROVE RowTrue(k)'
  <2>1. PICK m \in Mails : m = rows[k].mail /\ RowTrue(k)
    BY <1>1, <1>9, ListedIsRow DEF PageTrue, Row
  <2>2. CASE m \in served.ids
    <3>1. place'[m] \in {calls[c].to, place[m]} /\ calls[c].to # folder /\ Served(m)'
      BY <1>2, <1>3, <1>7, <2>1, <2>2 DEF ControlTrue
    <3> QED
      BY <1>1, <2>1, <3>1 DEF RowTrue
  <2>3. CASE m \notin served.ids
    <3>1. place'[m] = place[m] /\ ~Served(m)
      BY <1>2, <1>8, <2>1, <2>3
    <3> QED
      BY <1>1, <2>1, <3>1 DEF RowTrue
  <2> QED
    BY <2>2, <2>3
<1>10. ControlTrue(c)'
  <2>1. served.state = "ok" => \A m \in served.ids : place'[m] = served.to
    BY <1>2 DEF ControlCall
  <2> QED
    BY <1>1, <1>2, <1>3, <1>4, <2>1 DEF ControlTrue
<1>11. Under("list")' = {} /\ \A d \in Under("control")' : d = c
  BY <1>2, <1>4 DEF Under
<1>12. OneCallAtATime' /\ OneRowEach'
  BY <1>1, <1>4 DEF PageTrue, OneCallAtATime, OneRowEach
<1> QED
  BY <1>9, <1>10, <1>11, <1>12 DEF PageTrue

\* A list or a search is answered, while no other call is under way.
LEMMA AppendedTrue ==
    ASSUME HomeTypeOK, \A d \in Slots : calls'[d] = NoCall,
           NEW rs, IsList(rs), Listed(rs) = {}, NEW mails \in SUBSET Mails,
           NEW at \in Folders \cup {"search"}, at \in {folder, "search"},
           rows' = Append(rs, mails, at), UNCHANGED <<place, folder>>,
           at = folder => mails \subseteq InFolder(folder)
    PROVE  PageTrue'
<1>0. PICK key : key = NewKeys(rs, mails)
  OBVIOUS
<1>1. /\ IsList(rows')
      /\ \A k \in Keys : (~\E m \in mails : key[m] = k) => rows'[k] = rs[k]
      /\ \A k \in Keys : (\E m \in mails : key[m] = k) =>
           /\ rows'[k] \in Row /\ rows'[k].at = at
           /\ rows'[k].mail \in mails /\ key[rows'[k].mail] = k
           /\ ~rows'[k].selected /\ ~rows'[k].active /\ rows'[k].fades = "no"
  BY <1>0, AppendFacts
<1>2. \A k \in Listed(rows') : /\ rows'[k].at = at /\ rows'[k].fades = "no"
                               /\ rows'[k].mail \in mails /\ key[rows'[k].mail] = k
  BY <1>1 DEF Listed
<1>3. OneRowEach'
  BY <1>2 DEF OneRowEach
<1>4. ASSUME NEW k \in Listed(rows') PROVE RowTrue(k)'
  BY <1>2, <1>4 DEF RowTrue, InFolder
<1>5. OneCallAtATime' /\ Under("list")' = {} /\ Under("control")' = {}
  BY DEF OneCallAtATime, Under
<1> QED
  BY <1>3, <1>4, <1>5 DEF PageTrue

LEMMA ListAnsweredStep ==
    ASSUME HomeInv, trusted', ListAnswered
    PROVE  PageTrue'
<1>1. /\ PageTrue /\ HomeTypeOK /\ CallTypes /\ UNCHANGED <<place, folder>> /\ IsList(rows)
      /\ folder \in Folders
  BY CallTypesAre DEF HomeInv, ListAnswered
<1>2. PICK c \in Slots :
        /\ calls[c] # NoCall /\ calls[c].kind = "list" /\ calls[c].state = "counted" /\ Drop(c)
        /\ \/ rows' = Append(rows, calls[c].found, calls[c].folder)
           \/ UNCHANGED rows
  BY DEF ListAnswered
<1>3. ListTrue(c) /\ calls[c] \in ListCall
  BY <1>1, <1>2, KindOfCall DEF PageTrue, Under, CallTypes
<1>4. \A d \in Slots : calls'[d] = NoCall
  BY <1>1, <1>2, OnlyCall DEF Drop, CallTypes
<1>5. /\ calls[c].folder = folder /\ Listed(rows) = {}
      /\ calls[c].found = PageOf(folder, calls[c].page)
  BY <1>2, <1>3 DEF ListTrue
<1>6. calls[c].found \in SUBSET Mails /\ calls[c].found \subseteq InFolder(folder)
  BY <1>5, FolderSize DEF PageOf
<1>7. CASE rows' = Append(rows, calls[c].found, calls[c].folder)
  BY <1>1, <1>4, <1>5, <1>6, <1>7, AppendedTrue
<1>8. CASE UNCHANGED rows
  <2>1. Listed(rows') = {}
    BY <1>5, <1>8
  <2> QED
    BY <1>4, <2>1 DEF PageTrue, OneCallAtATime, OneRowEach, Under
<1> QED
  BY <1>2, <1>7, <1>8

LEMMA SearchAnsweredStep ==
    ASSUME HomeInv, trusted', SearchAnswered
    PROVE  PageTrue'
<1>1. /\ PageTrue /\ HomeTypeOK /\ CallTypes /\ UNCHANGED <<place, folder>>
      /\ folder \in Folders
  BY CallTypesAre DEF HomeInv, SearchAnswered
<1>2. PICK c \in Slots :
        /\ calls[c] # NoCall /\ calls[c].kind = "search"
        /\ \A d \in Slots : d = c \/ calls[d] = NoCall => calls'[d] = NoCall
        /\ \/ rows' = Append(Empty, calls[c].found, "search")
           \/ UNCHANGED rows
  BY DEF SearchAnswered
<1>3. \A d \in Slots : calls'[d] = NoCall
  BY <1>1, <1>2, OnlyCall
<1>4. calls[c].found \in SUBSET Mails
  BY <1>1, <1>2, KindOfCall DEF CallTypes, SearchCall
<1>5. CASE rows' = Append(Empty, calls[c].found, "search")
  <2>1. "search" # folder
    BY <1>1 DEF Folders
  <2> QED
    BY <1>1, <1>3, <1>4, <1>5, <2>1, EmptyIsList, AppendedTrue
<1>6. CASE UNCHANGED rows
  <2>1. \A d \in Slots : calls[d] # NoCall => d = c
    BY <1>1, <1>2, OnlyCall
  <2>2. \A d \in Slots : \/ calls'[d] = calls[d]
                         \/ /\ calls[d] # NoCall /\ calls[d].kind \notin {"list", "control"}
                            /\ calls'[d] = NoCall
    BY <1>2, <1>3, <2>1
  <2> QED
    BY <1>1, <1>6, <2>2, QuietTrue
<1> QED
  BY <1>2, <1>5, <1>6

LEMMA QuietStep ==
    ASSUME HomeInv, trusted',
           SearchRead \/ Toggle \/ ClickStar \/ OpenAnswered \/ RowVanishes \/ UNCHANGED homeVars
    PROVE  PageTrue'
<1>1. /\ PageTrue /\ HomeTypeOK /\ CallTypes /\ UNCHANGED <<place, folder>> /\ IsList(rows)
  BY CallTypesAre DEF HomeInv, SearchRead, Toggle, ClickStar, OpenAnswered, RowVanishes, homeVars
<1>2. CASE SearchRead
  <2>1. PICK c \in Slots, read \in SearchCall :
          /\ calls[c] # NoCall /\ calls[c] \in SearchCall /\ calls' = [calls EXCEPT ![c] = read]
          /\ read.kind = "search"
    BY <1>1, <1>2, SearchReadFacts
  <2>2. \A d \in Slots : \/ calls'[d] = calls[d]
                         \/ /\ calls[d] # NoCall /\ calls[d].kind \notin {"list", "control"}
                            /\ calls'[d].kind \notin {"list", "control"}
    BY <1>1, <2>1 DEF CallTypes, SearchCall
  <2>3. UNCHANGED rows
    BY <1>2 DEF SearchRead
  <2> QED
    BY <1>1, <2>2, <2>3, QuietTrue
<1>3. CASE Toggle
  <2>1. PICK k \in Listed(rows) : rows' = Toggled(rows, k)
    BY <1>3, Zenon DEF Toggle, Toggled
  <2>2. UNCHANGED calls
    BY <1>3 DEF Toggle
  <2> QED
    BY <1>1, <2>1, <2>2, ToggleFacts, QuietTrue
<1>4. CASE ClickStar \/ UNCHANGED homeVars
  <2>1. UNCHANGED <<rows, calls>>
    BY <1>4 DEF ClickStar, homeVars
  <2> QED
    BY <1>1, <2>1, QuietTrue
<1>5. CASE OpenAnswered
  <2>1. PICK c \in Slots :
          /\ calls[c] # NoCall /\ calls[c].kind = "read" /\ Drop(c)
          /\ rows' = rows \/ rows' = Activated(rows, calls[c].keys)
    BY <1>5 DEF OpenAnswered, Activated
  <2>2. \A d \in Slots : \/ calls'[d] = calls[d]
                         \/ /\ calls[d] # NoCall /\ calls[d].kind \notin {"list", "control"}
                            /\ calls'[d] = NoCall
    BY <1>1, <2>1 DEF CallTypes, Drop
  <2>3. /\ Listed(rows') = Listed(rows)
        /\ \A k \in Listed(rows') : /\ rows'[k].mail = rows[k].mail /\ rows'[k].at = rows[k].at
                                    /\ rows'[k].fades = rows[k].fades
    BY <1>1, <2>1, ActivateFacts
  <2> QED
    BY <1>1, <2>2, <2>3, QuietTrue
<1>6. CASE RowVanishes
  <2>1. PICK k \in Listed(rows) : rows' = [rows EXCEPT ![k] = NoRow]
    BY <1>6 DEF RowVanishes
  <2>2. UNCHANGED calls
    BY <1>6 DEF RowVanishes
  <2>3. /\ Listed(rows') \subseteq Listed(rows)
        /\ \A l \in Listed(rows') : rows'[l] = rows[l]
    BY <1>1, <2>1 DEF Listed, IsList
  <2> QED
    BY <1>1, <2>2, <2>3, QuietTrue
<1> QED
  BY <1>2, <1>3, <1>4, <1>5, <1>6

LEMMA ControlAnsweredStep ==
    ASSUME HomeInv, trusted', ControlAnswered
    PROVE  PageTrue'
<1>1. /\ PageTrue /\ HomeTypeOK /\ CallTypes /\ UNCHANGED <<place, folder>> /\ IsList(rows)
      /\ folder \in Folders
  BY CallTypesAre DEF HomeInv, ControlAnswered
<1>2. PICK c \in Slots :
        /\ calls[c] # NoCall /\ calls[c].kind = "control" /\ calls[c].state = "ok"
        /\ \/ calls[c].then = "reload" /\ Load(c, folder', pages.page)
           \/ calls[c].then # "reload" /\ rows' = RowsAfter(calls[c]) /\ Drop(c)
  BY <1>1 DEF ControlAnswered, LoadMailList
<1>3. c \in Under("control") /\ ControlTrue(c) /\ calls[c] \in ControlCall
  BY <1>1, <1>2, KindOfCall DEF Under, PageTrue, CallTypes
<1>4. \A d \in Slots \ {c} : calls[d] = NoCall
  BY <1>1, <1>2, OnlyCall
<1>5. CASE calls[c].then = "reload"
  BY <1>2, <1>4, <1>5, LoadedTrue
<1>6. CASE calls[c].then # "reload"
  <2>1. \A d \in Slots : calls'[d] = NoCall
    BY <1>1, <1>2, <1>4, <1>6 DEF Drop, CallTypes
  <2>2. /\ Listed(rows') = Listed(rows)
        /\ \A k \in Listed(rows) :
             /\ rows'[k].mail = rows[k].mail /\ rows'[k].at = rows[k].at
             /\ rows[k].mail \in calls[c].ids => rows'[k].fades # "no"
             /\ rows[k].mail \notin calls[c].ids => rows'[k].fades = rows[k].fades
    <3>1. CASE calls[c].then = "removeRows"
      <4>1. rows' = Fade(rows, calls[c].keys, "quietly")
        BY <1>2, <3>1 DEF RowsAfter
      <4>2. \A k \in Listed(rows) : rows[k].mail \in calls[c].ids <=> k \in calls[c].keys
        BY <1>3, <3>1 DEF ControlTrue
      <4> QED
        BY <1>1, <4>1, <4>2, FadeFacts
    <3>2. CASE calls[c].then = "removeById"
      <4> DEFINE ks == {k \in Listed(rows) : rows[k].mail \in calls[c].ids}
      <4>1. rows' = Fade(rows, ks, "updating")
        BY <1>2, <3>2 DEF RowsAfter
      <4>2. \A k \in Listed(rows) : rows[k].mail \in calls[c].ids <=> k \in ks
        OBVIOUS
      <4> HIDE DEF ks
      <4> QED
        BY <1>1, <4>1, <4>2, FadeFacts
    <3> QED
      BY <1>3, <1>6, <3>1, <3>2 DEF ControlCall
  <2>3. OneRowEach'
    BY <1>1, <2>2 DEF PageTrue, OneRowEach
  <2>4. ASSUME NEW k \in Listed(rows') PROVE RowTrue(k)'
    <3>1. RowTrue(k)
      BY <1>1, <2>2, <2>4 DEF PageTrue
    <3>2. CASE rows[k].mail \in calls[c].ids
      <4>1. /\ place[rows[k].mail] = calls[c].to /\ calls[c].to # folder
            /\ folder = "trash" => calls[c].to = "deleted"
        BY <1>2, <1>3, <1>6, <3>2 DEF ControlTrue
      <4> QED
        BY <1>1, <2>2, <2>4, <3>1, <3>2, <4>1 DEF RowTrue
    <3>3. CASE rows[k].mail \notin calls[c].ids
      <4>1. ~Served(rows[k].mail)
        BY <1>4, <3>3 DEF Served, Under
      <4> QED
        BY <1>1, <2>2, <2>4, <3>1, <3>3, <4>1 DEF RowTrue
    <3> QED
      BY <3>2, <3>3
  <2>5. OneCallAtATime' /\ Under("list")' = {} /\ Under("control")' = {}
    BY <2>1 DEF OneCallAtATime, Under
  <2> QED
    BY <2>3, <2>4, <2>5 DEF PageTrue
<1> QED
  BY <1>5, <1>6

LEMMA HomeInvStep ==
    ASSUME HomeInv, [HomeNext]_homeVars
    PROVE  HomeInv'
<1>1. HomeTypeOK'
  BY HomeTypeStep DEF HomeInv
<1>2. ASSUME trusted' PROVE PageTrue'
  BY <1>2, LoadStep, AskStep, ListServedStep, ControlServedStep, ListAnsweredStep,
     SearchAnsweredStep, QuietStep, ControlAnsweredStep DEF HomeNext, CallFails
<1> QED
  BY <1>1, <1>2 DEF HomeInv

LEMMA HomeInvInit == HomeInit => HomeInv
<1> SUFFICES ASSUME HomeInit PROVE HomeInv
  OBVIOUS
<1>1. PICK c \in Slots : calls = [d \in Slots |-> IF d = c THEN ListOf("inbox", 1) ELSE NoCall]
  BY DEF HomeInit
<1>2. Listed(rows) = {} /\ folder = "inbox"
  BY EmptyIsList DEF HomeInit
<1>3. Under("control") = {} /\ \A d \in Under("list") : ListTrue(d)
  BY <1>1, <1>2 DEF Under, ListTrue, ListOf
<1>4. PageTrue
  BY <1>1, <1>2, <1>3 DEF PageTrue, OneCallAtATime, OneRowEach
<1> QED
  BY <1>4, HomeTypeInit DEF HomeInv

\* What the page shows, what it has asked for and where the server has the mails fit
\* together, for as long as the user waits.
THEOREM HomeInvAlways == HomeSpec => []HomeInv
<1>1. HomeInv /\ [HomeNext]_homeVars => HomeInv'
  BY HomeInvStep
<1> QED
  BY <1>1, HomeInvInit, PTL DEF HomeSpec

\* Type correctness of the page and its calls, whatever is answered when.
THEOREM HomeTypesAlways == HomeSpec => []HomeTypeOK
<1>1. HomeInv => HomeTypeOK
  BY DEF HomeInv
<1> QED
  BY <1>1, HomeInvAlways, PTL

\* A user who waits sees the folder whose name is shown.
THEOREM ListIsTrue == HomeSpec => []ListIsTheFolder
<1>1. HomeInv => ListIsTheFolder
  <2> SUFFICES ASSUME PageTrue, AtRest PROVE \A k \in Listed(rows) :
            /\ rows[k].at \in {folder, "search"}
            /\ rows[k].at = folder => place[rows[k].mail] = folder
            /\ \A l \in Listed(rows) : rows[k].mail = rows[l].mail => k = l
    BY DEF HomeInv, ListIsTheFolder
  <2>1. \A m : ~Served(m)
    BY DEF AtRest, Idle, Served, Under
  <2> QED
    BY <2>1 DEF AtRest, PageTrue, RowTrue, OneRowEach
<1> QED
  BY <1>1, HomeInvAlways, PTL

DeletedUnlisted ==
    \A m \in Mails : place[m] = "inbox" /\ place'[m] = "deleted" =>
        \E c \in Slots : calls[c] # NoCall /\ calls'[c] # calls[c] /\ ~calls[c].listed

\* No click on a row of the folder shown deletes a mail that is still in the inbox.
THEOREM TrashComesFirst == HomeSpec => TrashFirst
<1>1. HomeInv /\ [HomeNext]_homeVars => [trusted => DeletedUnlisted]_homeVars
  <2> SUFFICES ASSUME HomeInv, HomeNext, trusted PROVE DeletedUnlisted
    OBVIOUS
  <2> SUFFICES ASSUME NEW m \in Mails, place[m] = "inbox", place'[m] = "deleted"
               PROVE  \E c \in Slots : calls[c] # NoCall /\ calls'[c] # calls[c] /\ ~calls[c].listed
    BY DEF DeletedUnlisted
  <2>1. ASSUME SyncAnswered PROVE FALSE
    BY <2>1 DEF SyncAnswered
  <2>2. CASE ControlServed
    <3>1. PICK c \in Slots, served \in ControlCall, done \in SUBSET Mails :
            /\ calls[c] # NoCall /\ calls[c] \in ControlCall /\ calls[c].state = "asked"
            /\ calls' = [calls EXCEPT ![c] = served]
            /\ served.state # "asked" /\ done \subseteq calls[c].ids
            /\ place' = [n \in Mails |-> IF n \in done THEN calls[c].to ELSE place[n]]
      BY <2>2, ControlServedFacts DEF HomeInv
    <3>2. m \in calls[c].ids /\ calls[c].to = "deleted"
      BY <3>1
    <3>3. ControlTrue(c)
      BY <3>1 DEF HomeInv, PageTrue, Under, ControlCall
    <3>4. ~calls[c].listed
      BY <3>1, <3>2, <3>3 DEF ControlTrue
    <3>5. calls'[c] # calls[c]
      BY <3>1, CallTypesAre DEF HomeInv, CallTypes
    <3> QED
      BY <3>1, <3>4, <3>5
  <2>3. ASSUME UNCHANGED place PROVE FALSE
    BY <2>3
  <2> QED
    BY <2>1, <2>2, <2>3
       DEF HomeNext, SwitchFolder, ClickPrev, ClickNext, ListRead, ListCounted, ListAnswered,
           CallFails, ClickSearch, SearchRead, SearchAnswered, Toggle, ClickStar, OpenRow,
           OpenAnswered, DeleteSelected, DeleteRow, DeleteOpened, MoveSelected, Control,
           ControlAnswered, RowVanishes
<1> QED
  BY <1>1, HomeInvAlways, PTL DEF HomeSpec, TrashFirst, DeletedUnlisted

----
(* Where a mail stands in its folder *)

LEMMA SmallestExists ==
    ASSUME NEW S, S \subseteq Nat, S # {}
    PROVE  \E i \in S : \A j \in S : i <= j
<1>1. IsWellFoundedOn(OpToRel(<, Nat), Nat)
  BY NatLessThanWellFounded
<1>2. PICK i \in S : \A j \in S : ~(<<j, i>> \in OpToRel(<, Nat))
  BY <1>1, WFMin
<1>3. \A j \in S : ~(j < i)
  BY <1>2 DEF OpToRel
<1>4. \A j \in S : i <= j
  BY <1>3
<1> QED
  BY <1>4

LEMMA LargestExists ==
    ASSUME NEW S, S \subseteq Mails, S # {}
    PROVE  \E i \in S : \A j \in S : i >= j
<1>1. MaxMails \in Nat /\ S \subseteq 1..MaxMails
  BY HomeAssumption DEF Mails
<1> DEFINE below == {MaxMails - i : i \in S}
<1>2. below \subseteq Nat /\ below # {}
  BY <1>1
<1>3. PICK d \in below : \A e \in below : d <= e
  BY <1>2, SmallestExists
<1>4. PICK i \in S : d = MaxMails - i
  BY <1>3
<1>5. \A j \in S : d <= MaxMails - j
  BY <1>3
<1>6. \A j \in S : i >= j
  BY <1>1, <1>4, <1>5
<1> QED
  BY <1>6

\* The mails of the folder that are listed before m.
Newer(f, m) == {n \in InFolder(f) : n > m}

LEMMA NewerFacts ==
    ASSUME NEW f, NEW m \in InFolder(f)
    PROVE  /\ m \in Mails /\ m \in Nat
           /\ IsFiniteSet(Newer(f, m)) /\ Newer(f, m) \subseteq InFolder(f) \ {m}
           /\ Cardinality(Newer(f, m)) \in Nat
           /\ Cardinality(Newer(f, m)) <= Cardinality(InFolder(f)) - 1
<1>1. InFolder(f) \in SUBSET Mails /\ IsFiniteSet(InFolder(f)) /\ m \in Nat
  BY FolderSize, HomeAssumption DEF Mails
<1>2. Newer(f, m) \in SUBSET (InFolder(f) \ {m})
  BY <1>1, HomeAssumption DEF Newer
<1>3. /\ IsFiniteSet(InFolder(f) \ {m})
      /\ Cardinality(InFolder(f) \ {m}) = Cardinality(InFolder(f)) - 1
  BY <1>1, FS_RemoveElement
<1>4. IsFiniteSet(Newer(f, m)) /\ Cardinality(Newer(f, m)) <= Cardinality(InFolder(f) \ {m})
  BY <1>2, <1>3, FS_Subset
<1> QED
  BY <1>1, <1>2, <1>3, <1>4, FS_CardinalityType

\* Of a folder with more than n mails, some mail has n before it.
LEMMA PlaceIsTaken ==
    ASSUME NEW f, NEW n \in Nat, n < Cardinality(InFolder(f))
    PROVE  \E m \in InFolder(f) : Cardinality(Newer(f, m)) = n
<1> DEFINE late == {m \in InFolder(f) : Cardinality(Newer(f, m)) >= n}
<1>1. /\ InFolder(f) \subseteq Mails /\ Mails \subseteq Nat /\ IsFiniteSet(InFolder(f))
      /\ Cardinality(InFolder(f)) \in Nat /\ InFolder(f) # {}
  BY FolderSize, FS_EmptySet, HomeAssumption DEF Mails
<1>2. late # {}
  <2>1. PICK last \in InFolder(f) : \A j \in InFolder(f) : last <= j
    BY <1>1, SmallestExists
  <2>2. Newer(f, last) = InFolder(f) \ {last}
    <3>1. ASSUME NEW j \in InFolder(f) PROVE j > last <=> j # last
      <4>1. j \in Nat /\ last \in Nat /\ last <= j
        BY <1>1, <2>1
      <4> QED
        BY <4>1
    <3> QED
      BY <3>1 DEF Newer
  <2>3. Cardinality(Newer(f, last)) = Cardinality(InFolder(f)) - 1
    BY <1>1, <2>1, <2>2, FS_RemoveElement
  <2> QED
    BY <1>1, <2>1, <2>3
<1>3. PICK m \in late : \A j \in late : m >= j
  BY <1>1, <1>2, LargestExists
<1>4. /\ Cardinality(Newer(f, m)) \in Nat /\ Cardinality(Newer(f, m)) >= n
      /\ IsFiniteSet(Newer(f, m))
  BY <1>3, NewerFacts
<1>5. CASE Newer(f, m) = {}
  BY <1>3, <1>4, <1>5, FS_EmptySet
<1>6. CASE Newer(f, m) # {}
  <2>1. PICK p \in Newer(f, m) : \A j \in Newer(f, m) : p <= j
    BY <1>1, <1>6, SmallestExists DEF Newer
  <2>2. p \in InFolder(f) /\ p > m /\ p \in Nat /\ m \in Nat
    BY <1>1, <1>3, <2>1 DEF Newer
  <2>3. Newer(f, p) = Newer(f, m) \ {p}
    <3>1. ASSUME NEW j \in InFolder(f) PROVE j > p <=> j > m /\ j # p
      <4>1. j \in Nat /\ (j > m => p <= j)
        BY <1>1, <2>1 DEF Newer
      <4> QED
        BY <2>2, <4>1
    <3> QED
      BY <3>1 DEF Newer
  <2>4. Cardinality(Newer(f, p)) = Cardinality(Newer(f, m)) - 1
    BY <1>4, <2>1, <2>3, FS_RemoveElement
  <2>5. Cardinality(Newer(f, p)) < n
    <3>1. p \notin late
      BY <1>3, <2>2
    <3> QED
      BY <2>2, <3>1, NewerFacts
  <2> QED
    BY <1>3, <1>4, <2>4, <2>5
<1> QED
  BY <1>5, <1>6

(* The pages of a folder *)

LEMMA PageStart ==
    ASSUME NEW page \in Nat \ {0}
    PROVE  /\ (page - 1) * PageSize \in Nat /\ page * PageSize = (page - 1) * PageSize + PageSize
           /\ \A n \in Nat : n \in ((page - 1) * PageSize)..(page * PageSize - 1)
                <=> (page - 1) * PageSize <= n /\ n < page * PageSize
BY HomeAssumption

LEMMA InPage ==
    ASSUME NEW f, NEW page \in Nat \ {0}, NEW m
    PROVE  m \in PageOf(f, page) <=>
             /\ m \in InFolder(f)
             /\ (page - 1) * PageSize <= Cardinality(Newer(f, m))
             /\ Cardinality(Newer(f, m)) < page * PageSize
<1>1. m \in PageOf(f, page) <=>
        /\ m \in InFolder(f)
        /\ Cardinality(Newer(f, m)) \in ((page - 1) * PageSize)..(page * PageSize - 1)
  BY DEF PageOf, Newer
<1>2. CASE m \in InFolder(f)
  BY <1>1, <1>2, PageStart, NewerFacts
<1> QED
  BY <1>1, <1>2

\* A page is empty only when the pages before it hold the folder.
LEMMA PageHasMails ==
    ASSUME NEW f, NEW page \in Nat \ {0}, (page - 1) * PageSize < Cardinality(InFolder(f))
    PROVE  PageOf(f, page) # {}
<1>1. PICK m \in InFolder(f) : Cardinality(Newer(f, m)) = (page - 1) * PageSize
  BY PageStart, PlaceIsTaken
<1>2. (page - 1) * PageSize \in Nat /\ (page - 1) * PageSize < page * PageSize
  <2>1. (page - 1) * PageSize \in Nat /\ page * PageSize = (page - 1) * PageSize + PageSize
    BY PageStart
  <2> DEFINE first == (page - 1) * PageSize
  <2> HIDE DEF first
  <2>2. first \in Nat /\ page * PageSize = first + PageSize
    BY <2>1 DEF first
  <2>3. first < first + PageSize
    BY <2>2, HomeAssumption
  <2> QED
    BY <2>1, <2>2, <2>3 DEF first
<1>3. m \in PageOf(f, page)
  BY <1>1, <1>2, InPage
<1> QED
  BY <1>3

\* When a page has mails, the pages before it are full.
LEMMA PagesBeforeAreFull ==
    ASSUME NEW f, NEW page \in Nat \ {0}, PageOf(f, page) # {}
    PROVE  Cardinality(InFolder(f) \ PageOf(f, page)) >= (page - 1) * PageSize
<1>1. /\ PageOf(f, page) \subseteq InFolder(f) /\ InFolder(f) \subseteq Mails
      /\ Mails \subseteq Nat /\ IsFiniteSet(InFolder(f))
  BY FolderSize, HomeAssumption DEF PageOf, Mails
<1>2. PICK m \in PageOf(f, page) : \A j \in PageOf(f, page) : m >= j
  BY <1>1, LargestExists
<1>3. Newer(f, m) \in SUBSET (InFolder(f) \ PageOf(f, page))
  <2>1. ASSUME NEW n \in PageOf(f, page) PROVE ~(n > m)
    <3>1. n \in Nat /\ m \in Nat /\ m >= n
      BY <1>1, <1>2
    <3> QED
      BY <3>1
  <2> QED
    BY <2>1 DEF Newer
<1>4. /\ Cardinality(Newer(f, m)) >= (page - 1) * PageSize /\ Cardinality(Newer(f, m)) \in Nat
  BY <1>1, <1>2, InPage, NewerFacts, PageStart
<1>5. IsFiniteSet(InFolder(f) \ PageOf(f, page))
  BY <1>1, FS_Difference
<1>6. /\ Cardinality(Newer(f, m)) <= Cardinality(InFolder(f) \ PageOf(f, page))
      /\ Cardinality(InFolder(f) \ PageOf(f, page)) \in Nat
  BY <1>3, <1>5, FS_Subset, FS_CardinalityType
<1> QED
  BY <1>4, <1>6, PageStart

\* What fits on one page is on the first one.
LEMMA OnePageIsAll ==
    ASSUME NEW f, Cardinality(InFolder(f)) <= PageSize
    PROVE  PageOf(f, 1) = InFolder(f)
<1>1. ASSUME NEW m \in InFolder(f) PROVE m \in PageOf(f, 1)
  <2>1. /\ Cardinality(Newer(f, m)) \in Nat
        /\ Cardinality(Newer(f, m)) <= Cardinality(InFolder(f)) - 1
    BY NewerFacts
  <2>2. Cardinality(InFolder(f)) \in Nat
    BY FolderSize, HomeAssumption
  <2> QED
    BY <2>1, <2>2, InPage, HomeAssumption
<1> QED
  BY <1>1 DEF PageOf

\* Every mail of an answer gets a row of its own.
LEMMA AppendShowsAll ==
    ASSUME NEW rs, IsList(rs), NEW mails \in SUBSET Mails, NEW at \in Folders \cup {"search"},
           Fits(rs, mails), NEW new, new = Append(rs, mails, at)
    PROVE  mails \subseteq {new[k].mail : k \in Listed(new)}
<1> DEFINE free == Keys \ (Listed(rs) \cup Held)
<1>1. IsFiniteSet(mails) /\ IsFiniteSet(free) /\ Cardinality(mails) <= Cardinality(free)
  <2>1. IsFiniteSet(Mails) /\ IsFiniteSet(Keys)
    BY FS_Interval, HomeAssumption DEF Mails, Keys
  <2>2. free \in SUBSET Keys
    OBVIOUS
  <2>3. Cardinality(mails) <= Cardinality(free)
    BY DEF Fits
  <2> QED
    BY <2>1, <2>2, <2>3, FS_Subset
<1>2. Injection(mails, free) # {}
  <2> DEFINE n == Cardinality(mails)
             k == Cardinality(free)
  <2>1. n \in Nat /\ k \in Nat /\ ExistsBijection(1..n, mails) /\ ExistsBijection(1..k, free)
    BY <1>1, FS_CardinalityType
  <2>2. ExistsInjection(mails, 1..n) /\ ExistsInjection(1..k, free)
    BY <2>1, Fun_ExistsBijEquiv
  <2>3. ExistsInjection(1..n, 1..k)
    BY <1>1, <2>1, Fun_NatInjLeq
  <2> HIDE DEF n, k, free
  <2>4. ExistsInjection(mails, 1..k)
    BY <2>2, <2>3, Fun_ExistsInjTransitive
  <2>5. ExistsInjection(mails, free)
    BY <2>2, <2>4, Fun_ExistsInjTransitive
  <2> QED
    BY <2>5, Fun_ExistsInj
<1>3. PICK key : key = NewKeys(rs, mails)
  OBVIOUS
<1>4. key \in Injection(mails, free)
  BY <1>2, <1>3 DEF NewKeys
<1>5. key \in [mails -> free] /\ \A m, n \in mails : key[m] = key[n] => m = n
  BY <1>4, Fun_InjectionProperties
<1>6. ASSUME NEW m \in mails PROVE \E k \in Listed(new) : new[k].mail = m
  <2>1. key[m] \in Keys
    BY <1>5
  <2>2. /\ new[key[m]] \in Row
        /\ new[key[m]].mail \in mails /\ key[new[key[m]].mail] = key[m]
    BY <1>3, <2>1, AppendFacts
  <2>3. key[m] \in Listed(new)
    BY <2>1, <2>2, NothingAssumption DEF Listed
  <2> QED
    BY <1>5, <2>2, <2>3
<1> QED
  BY <1>6

----
(* A user who waits is not left with an empty list *)

Shown(m) == \E k \in Listed(rows) : rows[k].mail = m

\* The mails that the page has in a row, in its pane or in a call.
IsKnown(m) ==
    \/ Shown(m)
    \/ m = pane
    \/ \E c \in Under("control") : m \in calls[c].ids
    \/ \E c \in Under("read") : m = calls[c].mail

\* Whatever the calls under way do, it is not to these.
Rest == {m \in InFolder(folder) : ~IsKnown(m)}

Loads(page) == \E c \in Under("list") : calls[c].page = page

\* On a later page, the button to the page before works, and there is enough left to
\* fill the pages before this one.
LeadsBack ==
    pages.page > 1 =>
        /\ pages.pages > 1 /\ pages.prev = pages.page - 1 /\ "prev" \in enabled
        /\ Cardinality(Rest) >= (pages.page - 1) * PageSize

\* On the first page of several, the button to the second one works.
LeadsOn ==
    pages.page = 1 /\ Cardinality(InFolder(folder)) > PageSize =>
        \/ Loads(1)
        \/ pages.pages > 1 /\ pages.next = 2 /\ "next" \in enabled

\* When there never was a second page, the first one lists the folder.
OnePage ==
    pages.pages = 1 =>
        /\ pages = FirstPage
        /\ \/ Loads(1)
           \/ Under("list") = {} /\ \A m \in InFolder(folder) : Shown(m)

PagesTrue ==
    /\ LeadsBack /\ LeadsOn /\ OnePage
    /\ \A k \in Listed(rows) : rows[k].at = folder

LEMMA InFolderFacts ==
    ASSUME NEW f, NEW m
    PROVE  m \in InFolder(f) <=> m \in Mails /\ place[m] = f
BY DEF InFolder

LEMMA RestFacts ==
    /\ IsFiniteSet(Rest) /\ Cardinality(Rest) \in Nat
    /\ Cardinality(Rest) <= Cardinality(InFolder(folder))
<1>1. IsFiniteSet(InFolder(folder)) /\ Rest \in SUBSET InFolder(folder)
  BY FolderSize DEF Rest
<1> QED
  BY <1>1, FS_Subset, FS_CardinalityType

\* A step that leaves the pages alone, touches mails that the page knows only, and
\* takes no row from a mail of the folder.
LEMMA KeepPages ==
    ASSUME HomeTypeOK, PagesTrue, UNCHANGED <<folder, pages>>,
           \A m \in Mails : place'[m] = folder => place[m] = folder,
           \A m \in Mails : place[m] = folder /\ ~IsKnown(m) => place'[m] = folder,
           Listed(rows') \subseteq Listed(rows),
           \A k \in Listed(rows') : rows'[k].mail = rows[k].mail /\ rows'[k].at = rows[k].at,
           \A k \in Listed(rows) \ Listed(rows') : place'[rows[k].mail] # folder,
           pane' = NoMail \/ IsKnown(pane'),
           \A c \in Under("control")' : \A m \in calls'[c].ids : IsKnown(m),
           \A c \in Under("read")' : IsKnown(calls'[c].mail),
           enabled' \in {enabled, Buttons(pages)},
           Under("list")' = Under("list"),
           \A c \in Under("list") : calls'[c].page = calls[c].page
    PROVE  PagesTrue'
<1>1. pages \in Pagination /\ PageSize \in Nat \ {0} /\ NoMail \notin Mails
  BY CallTypesAre, HomeAssumption DEF NoMail, Mails
<1>2. InFolder(folder)' \subseteq InFolder(folder)
  BY DEF InFolder
<1>3. ASSUME NEW m \in Mails, IsKnown(m)' PROVE IsKnown(m)
  <2>1. CASE Shown(m)'
    BY <2>1 DEF Shown, IsKnown
  <2>2. CASE m = pane'
    BY <1>1, <1>3, <2>2
  <2>3. CASE \E c \in Under("control")' : m \in calls'[c].ids
    BY <2>3
  <2>4. CASE \E c \in Under("read")' : m = calls'[c].mail
    BY <2>4
  <2> QED
    BY <1>3, <2>1, <2>2, <2>3, <2>4 DEF IsKnown
<1>4. Rest \subseteq Rest'
  <2>1. ASSUME NEW m \in Rest PROVE m \in Rest'
    <3>1. m \in Mails /\ place[m] = folder /\ ~IsKnown(m)
      BY DEF Rest, InFolder
    <3>2. place'[m] = folder /\ ~IsKnown(m)'
      BY <1>3, <3>1
    <3> QED
      BY <3>1, <3>2 DEF Rest, InFolder
  <2> QED
    BY <2>1
<1>5. /\ Cardinality(Rest) \in Nat /\ Cardinality(Rest') \in Nat
      /\ Cardinality(Rest) <= Cardinality(Rest')
  <2>1. IsFiniteSet(Rest')
    <3>1. IsFiniteSet(InFolder(folder)') /\ Rest' \in SUBSET InFolder(folder)'
      BY <1>2, FolderSize, FS_Subset DEF Rest
    <3> QED
      BY <3>1, FS_Subset
  <2> QED
    BY <1>4, <2>1, RestFacts, FS_Subset, FS_CardinalityType
<1>6. /\ Cardinality(InFolder(folder)') <= Cardinality(InFolder(folder))
      /\ Cardinality(InFolder(folder)') \in Nat /\ Cardinality(InFolder(folder)) \in Nat
  <2>1. IsFiniteSet(InFolder(folder))
    BY FolderSize
  <2>2. IsFiniteSet(InFolder(folder)') /\ Cardinality(InFolder(folder)') <= Cardinality(InFolder(folder))
    BY <1>2, <2>1, FS_Subset
  <2> QED
    BY <2>1, <2>2, FS_CardinalityType
<1>7. Loads(1)' <=> Loads(1)
  BY DEF Loads
<1>8. LeadsBack'
  <2>1. pages.page > 1 => "prev" \in enabled'
    BY <1>1 DEF PagesTrue, LeadsBack, Buttons
  <2>2. pages.page > 1 => Cardinality(Rest') >= (pages.page - 1) * PageSize
    <3> DEFINE n == (pages.page - 1) * PageSize
    <3>1. n \in Int
      BY <1>1 DEF Pagination
    <3>2. pages.page > 1 => Cardinality(Rest) >= n
      BY DEF PagesTrue, LeadsBack
    <3> HIDE DEF n
    <3>3. pages.page > 1 => Cardinality(Rest') >= n
      BY <1>5, <3>1, <3>2
    <3> QED
      BY <3>3 DEF n
  <2> QED
    BY <2>1, <2>2 DEF PagesTrue, LeadsBack
<1>9. LeadsOn'
  <2>1. pages.page = 1 /\ pages.pages > 1 => "next" \in Buttons(pages)
    BY <1>1 DEF Buttons, Pagination
  <2>2. Cardinality(InFolder(folder)') > PageSize => Cardinality(InFolder(folder)) > PageSize
    BY <1>1, <1>6
  <2>3. ASSUME pages.page = 1, Cardinality(InFolder(folder)') > PageSize, ~Loads(1)
        PROVE  pages.pages > 1 /\ pages.next = 2 /\ "next" \in enabled'
    <3>1. pages.pages > 1 /\ pages.next = 2 /\ "next" \in enabled
      BY <2>2, <2>3 DEF PagesTrue, LeadsOn
    <3> QED
      BY <2>1, <2>3, <3>1
  <2> QED
    BY <1>7, <2>3 DEF LeadsOn
<1>10. OnePage'
  <2>1. ASSUME \A m \in InFolder(folder) : Shown(m), NEW m \in InFolder(folder)'
        PROVE  Shown(m)'
    <3>1. PICK k \in Listed(rows) : rows[k].mail = m
      BY <1>2, <2>1 DEF Shown
    <3>2. place'[m] = folder
      BY <2>1 DEF InFolder
    <3> QED
      BY <3>1, <3>2 DEF Shown
  <2> QED
    BY <1>7, <2>1 DEF PagesTrue, OnePage
<1>11. \A k \in Listed(rows') : rows'[k].at = folder'
  BY DEF PagesTrue
<1> QED
  BY <1>8, <1>9, <1>10, <1>11 DEF PagesTrue

LEMMA UIFacts ==
    ASSUME NEW rs, NEW mail, UpdateUI(rs, pages, mail)
    PROVE  enabled' \in {enabled, Buttons(pages)} /\ pane' \in {mail, NoMail}
BY DEF UpdateUI

\* A call goes out that is no list.
LEMMA AskKeeps ==
    ASSUME HomeTypeOK, PagesTrue, Idle, NEW c \in Slots, NEW call \in Call, Ask(c, call),
           UNCHANGED <<place, folder, pages, rows>>,
           call.kind # "list",
           call.kind = "control" => \A m \in call.ids : IsKnown(m),
           call.kind = "read" => IsKnown(call.mail),
           pane' \in {pane, NoMail}, enabled' \in {enabled, Buttons(pages)}
    PROVE  PagesTrue'
<1>1. CallTypes /\ \A d \in Slots : calls[d] = NoCall
  BY CallTypesAre DEF Idle
<1>2. calls'[c] = call /\ \A d \in Slots \ {c} : calls'[d] = NoCall
  BY <1>1 DEF Ask, CallTypes
<1>3. Under("list") = {} /\ Under("list")' = {}
  BY <1>1, <1>2 DEF Under
<1>4. /\ \A d \in Under("control")' : \A m \in calls'[d].ids : IsKnown(m)
      /\ \A d \in Under("read")' : IsKnown(calls'[d].mail)
  BY <1>2 DEF Under
<1>5. pane' = NoMail \/ IsKnown(pane')
  BY DEF IsKnown
<1> QED
  BY <1>3, <1>4, <1>5, KeepPages

\* The only call is answered, it was no list, and no row leaves the list yet.
LEMMA AnswerKeeps ==
    ASSUME HomeTypeOK, PagesTrue, NEW c \in Slots, calls[c].kind # "list",
           \A d \in Slots \ {c} : calls[d] = NoCall, \A d \in Slots : calls'[d] = NoCall,
           UNCHANGED <<place, folder, pages>>,
           Listed(rows') = Listed(rows),
           \A k \in Listed(rows) : rows'[k].mail = rows[k].mail /\ rows'[k].at = rows[k].at,
           pane' = NoMail \/ IsKnown(pane'), enabled' \in {enabled, Buttons(pages)}
    PROVE  PagesTrue'
<1>1. /\ Under("list") = {} /\ Under("list")' = {}
      /\ Under("control")' = {} /\ Under("read")' = {}
  BY DEF Under
<1> QED
  BY <1>1, KeepPages

LEMMA AskKeepsPages ==
    ASSUME HomeInv, PagesTrue, trusted',
           ClickSearch \/ OpenRow \/ DeleteSelected \/ DeleteRow \/ DeleteOpened \/ MoveSelected
    PROVE  PagesTrue'
<1>1. Idle /\ HomeTypeOK /\ IsList(rows) /\ pane \in Mails \cup {NoMail}
  BY WaitedMeansIdle, CallTypesAre
     DEF HomeInv, ClickSearch, OpenRow, DeleteSelected, DeleteRow, DeleteOpened, MoveSelected,
         Control
<1>2. ASSUME NEW c \in Slots, NEW to \in {"inbox", "trash", "deleted"}, NEW ids \in SUBSET Mails,
             NEW keys \in SUBSET Keys, NEW then \in {"removeRows", "removeById", "reload"},
             NEW listed \in BOOLEAN, Control(c, to, ids, keys, then, listed),
             \A m \in ids : IsKnown(m), pane' \in {pane, NoMail},
             enabled' \in {enabled, Buttons(pages)}
      PROVE  PagesTrue'
  <2> DEFINE call == [kind |-> "control", state |-> "asked", to |-> to, ids |-> ids,
                      keys |-> keys, then |-> then, listed |-> listed]
  <2>1. call \in Call /\ call.kind = "control" /\ call.ids = ids
    BY DEF Call, ControlCall
  <2>2. Ask(c, call) /\ UNCHANGED <<place, folder, pages, rows>>
    BY <1>2 DEF Control
  <2> HIDE DEF call
  <2> QED
    BY <1>1, <1>2, <2>1, <2>2, AskKeeps
<1>3. \A ks \in SUBSET Listed(rows) : \A m \in MailsOf(ks) : IsKnown(m)
  BY DEF MailsOf, IsKnown, Shown
<1>4. Selected(rows) \in SUBSET Listed(rows) /\ DeleteOrTrash \in {"trash", "deleted"}
  BY DEF Selected, DeleteOrTrash
<1>5. CASE ClickSearch
  <2> DEFINE call == [kind |-> "search", state |-> "asked", found |-> {}, keys |-> {}]
  <2>1. PICK c \in Slots : Ask(c, call) /\ UNCHANGED <<place, folder, pages, rows, uiVars>>
    BY <1>5 DEF ClickSearch
  <2>2. call \in Call /\ call.kind = "search"
    BY DEF Call, SearchCall
  <2> HIDE DEF call
  <2> QED
    BY <1>1, <2>1, <2>2, AskKeeps DEF uiVars
<1>6. CASE OpenRow
  <2> DEFINE call(k) == [kind |-> "read", mail |-> rows[k].mail, keys |-> {k}]
  <2>1. PICK c \in Slots, k \in Listed(rows) :
          Ask(c, call(k)) /\ UNCHANGED <<place, folder, pages, rows, uiVars>>
    BY <1>6 DEF OpenRow
  <2>2. call(k) \in Call /\ call(k).kind = "read" /\ call(k).mail = rows[k].mail
    BY <1>1, ListedIsRow DEF Call, ReadCall, Row
  <2>3. IsKnown(rows[k].mail)
    BY DEF IsKnown, Shown
  <2> HIDE DEF call
  <2> QED
    BY <1>1, <2>1, <2>2, <2>3, AskKeeps DEF uiVars
<1>7. CASE DeleteSelected
  <2>1. PICK c \in Slots :
          /\ Control(c, DeleteOrTrash, MailsOf(Selected(rows)), Selected(rows), "removeRows",
                     Own(Selected(rows)))
          /\ UNCHANGED uiVars
    BY <1>7 DEF DeleteSelected
  <2>2. /\ MailsOf(Selected(rows)) \in SUBSET Mails /\ Selected(rows) \in SUBSET Keys
        /\ Own(Selected(rows)) \in BOOLEAN
    BY <1>1, <1>4, SelectedRows
  <2> QED
    BY <1>2, <1>3, <1>4, <2>1, <2>2 DEF uiVars
<1>8. CASE DeleteRow
  <2>1. PICK c \in Slots, k \in Listed(rows) :
          /\ Control(c, "deleted", {rows[k].mail}, {k}, "removeRows", Own({k}))
          /\ UpdateUI(rows, pages, pane)
    BY <1>8 DEF DeleteRow
  <2>2. {rows[k].mail} \in SUBSET Mails /\ {k} \in SUBSET Keys /\ Own({k}) \in BOOLEAN
    BY <1>1, SelectedRows DEF MailsOf
  <2>3. \A m \in {rows[k].mail} : IsKnown(m)
    BY DEF IsKnown, Shown
  <2> QED
    BY <1>2, <2>1, <2>2, <2>3, UIFacts
<1>9. CASE DeleteOpened
  <2> DEFINE listed == \E k \in Listed(rows) : rows[k].mail = pane /\ Own({k})
  <2>1. PICK c \in Slots :
          /\ pane # NoMail /\ Control(c, DeleteOrTrash, {pane}, {}, "removeById", listed)
          /\ UNCHANGED uiVars
    BY <1>9 DEF DeleteOpened
  <2>2. {pane} \in SUBSET Mails /\ listed \in BOOLEAN /\ \A m \in {pane} : IsKnown(m)
    BY <1>1, <2>1 DEF IsKnown
  <2> HIDE DEF listed
  <2> QED
    BY <1>2, <1>4, <2>1, <2>2 DEF uiVars
<1>10. CASE MoveSelected
  <2> DEFINE listed == FALSE
  <2>1. PICK c \in Slots, f \in Folders :
          Control(c, f, MailsOf(Selected(rows)), {}, "reload", listed) /\ UNCHANGED uiVars
    BY <1>10 DEF MoveSelected
  <2>2. /\ MailsOf(Selected(rows)) \in SUBSET Mails /\ f \in {"inbox", "trash", "deleted"}
        /\ listed \in BOOLEAN
    BY <1>1, <1>4, SelectedRows DEF Folders
  <2> HIDE DEF listed
  <2> QED
    BY <1>2, <1>3, <1>4, <2>1, <2>2 DEF uiVars
<1> QED
  BY <1>5, <1>6, <1>7, <1>8, <1>9, <1>10

\* The server works on a call.
LEMMA ChangeKeeps ==
    ASSUME HomeTypeOK, PagesTrue, NEW c \in Slots, NEW call \in Call, calls[c] # NoCall,
           calls' = [calls EXCEPT ![c] = call], call.kind = calls[c].kind,
           call.kind = "list" => call.page = calls[c].page,
           call.kind = "control" => call.ids = calls[c].ids,
           call.kind = "read" => call.mail = calls[c].mail,
           UNCHANGED <<folder, pages, rows, pane, enabled>>,
           \A m \in Mails : place'[m] = folder => place[m] = folder,
           \A m \in Mails : place[m] = folder /\ ~IsKnown(m) => place'[m] = folder
    PROVE  PagesTrue'
<1>1. /\ calls'[c] = call /\ call # NoCall
      /\ \A d \in Slots \ {c} : calls'[d] = calls[d]
  BY CallTypesAre, NothingAssumption DEF CallTypes, Call
<1>2. \A kind : Under(kind)' = Under(kind)
  BY <1>1 DEF Under
<1>3. /\ \A d \in Under("list") : calls'[d].page = calls[d].page
      /\ \A d \in Under("control") : calls'[d].ids = calls[d].ids
      /\ \A d \in Under("read") : calls'[d].mail = calls[d].mail
  BY <1>1 DEF Under
<1>4. /\ \A d \in Under("control")' : \A m \in calls'[d].ids : IsKnown(m)
      /\ \A d \in Under("read")' : IsKnown(calls'[d].mail)
  BY <1>2, <1>3 DEF IsKnown
<1>5. pane' = NoMail \/ IsKnown(pane')
  BY DEF IsKnown
<1>6. Under("list")' = Under("list")
  BY <1>2
<1> QED
  BY <1>3, <1>4, <1>5, <1>6, KeepPages

LEMMA ServeKeepsPages ==
    ASSUME HomeInv, PageTrue, PagesTrue, ListRead \/ ListCounted \/ SearchRead \/ ControlServed
    PROVE  PagesTrue'
<1>1. HomeTypeOK /\ UNCHANGED <<folder, pages, rows, pane, enabled>>
  BY DEF HomeInv, ListRead, ListCounted, SearchRead, ControlServed, uiVars
<1>2. CASE ListRead \/ ListCounted
  <2>1. PICK c \in Slots, read \in ListCall :
          /\ calls[c] # NoCall /\ calls[c] \in ListCall /\ calls' = [calls EXCEPT ![c] = read]
          /\ read.page = calls[c].page
    BY <1>1, <1>2, ListReadFacts, ListCountedFacts
  <2>2. read \in Call /\ read.kind = "list" /\ calls[c].kind = "list"
    BY <2>1 DEF Call, ListCall
  <2>3. UNCHANGED place
    BY <1>2 DEF ListRead, ListCounted
  <2> QED
    BY <1>1, <2>1, <2>2, <2>3, ChangeKeeps
<1>3. CASE SearchRead
  <2>1. PICK c \in Slots, read \in SearchCall :
          /\ calls[c] # NoCall /\ calls[c] \in SearchCall /\ calls' = [calls EXCEPT ![c] = read]
    BY <1>1, <1>3, SearchReadFacts
  <2>2. read \in Call /\ read.kind = "search" /\ calls[c].kind = "search"
    BY <2>1 DEF Call, SearchCall
  <2>3. UNCHANGED place
    BY <1>3 DEF SearchRead
  <2> QED
    BY <1>1, <2>1, <2>2, <2>3, ChangeKeeps
<1>4. CASE ControlServed
  <2>1. PICK c \in Slots, served \in ControlCall, done \in SUBSET Mails :
          /\ calls[c] # NoCall /\ calls[c] \in ControlCall
          /\ calls' = [calls EXCEPT ![c] = served] /\ done \subseteq calls[c].ids
          /\ served.ids = calls[c].ids
          /\ place' = [m \in Mails |-> IF m \in done THEN calls[c].to ELSE place[m]]
    BY <1>1, <1>4, ControlServedFacts
  <2>2. served \in Call /\ served.kind = "control" /\ calls[c].kind = "control"
    BY <2>1 DEF Call, ControlCall
  <2>3. calls[c].to # folder
    BY <2>1, <2>2 DEF PageTrue, ControlTrue, Under
  <2>4. \A m \in calls[c].ids : IsKnown(m)
    BY <2>1, <2>2 DEF IsKnown, Under
  <2>5. /\ \A m \in Mails : place'[m] = folder => place[m] = folder
        /\ \A m \in Mails : place[m] = folder /\ ~IsKnown(m) => place'[m] = folder
    BY <2>1, <2>3, <2>4
  <2> QED
    BY <1>1, <2>1, <2>2, <2>5, ChangeKeeps
<1> QED
  BY <1>2, <1>3, <1>4

\* The answers that load no list.
LEMMA AnswerKeepsPages ==
    ASSUME HomeInv, PageTrue, PagesTrue, menu' # "none",
           \/ SearchAnswered \/ OpenAnswered
           \/ ControlAnswered /\ \A c \in Slots : calls'[c] = NoCall
    PROVE  PagesTrue'
<1>1. HomeTypeOK /\ CallTypes /\ IsList(rows)
  BY CallTypesAre DEF HomeInv
<1>2. IsKnown(pane)
  BY DEF IsKnown
<1>3. CASE SearchAnswered
  <2>1. PICK c \in Slots :
          /\ calls[c] # NoCall /\ calls[c].kind = "search"
          /\ \A d \in Slots : d = c \/ calls[d] = NoCall => calls'[d] = NoCall
          /\ UNCHANGED <<place, folder, rows, pages, uiVars>>
    BY <1>3 DEF SearchAnswered
  <2>2. \A d \in Slots \ {c} : calls[d] = NoCall
    BY <1>1, <2>1, OnlyCall
  <2>3. \A d \in Slots : calls'[d] = NoCall
    BY <2>1, <2>2
  <2> QED
    BY <1>1, <1>2, <2>1, <2>2, <2>3, AnswerKeeps DEF uiVars
<1>4. CASE OpenAnswered
  <2>1. PICK c \in Slots :
          /\ calls[c] # NoCall /\ calls[c].kind = "read" /\ Drop(c)
          /\ rows' = rows \/ rows' = Activated(rows, calls[c].keys)
          /\ UpdateUI(rows', pages, calls[c].mail)
          /\ UNCHANGED <<place, folder, pages>>
    BY <1>4 DEF OpenAnswered, Activated
  <2>2. \A d \in Slots \ {c} : calls[d] = NoCall
    BY <1>1, <2>1, OnlyCall
  <2>3. \A d \in Slots : calls'[d] = NoCall
    BY <1>1, <2>1, <2>2 DEF Drop, CallTypes
  <2>4. /\ Listed(rows') = Listed(rows)
        /\ \A k \in Listed(rows) : rows'[k].mail = rows[k].mail /\ rows'[k].at = rows[k].at
    BY <1>1, <2>1, ActivateFacts
  <2>5. IsKnown(calls[c].mail)
    BY <2>1 DEF IsKnown, Under
  <2>6. enabled' \in {enabled, Buttons(pages)} /\ (pane' = NoMail \/ IsKnown(pane'))
    BY <2>1, <2>5, UIFacts
  <2> QED
    BY <1>1, <2>1, <2>2, <2>3, <2>4, <2>6, AnswerKeeps
<1>5. CASE ControlAnswered /\ \A c \in Slots : calls'[c] = NoCall
  <2>1. PICK c \in Slots :
          /\ calls[c] # NoCall /\ calls[c].kind = "control"
          /\ \/ calls[c].then = "reload" /\ Load(c, folder, pages.page)
             \/ calls[c].then # "reload" /\ rows' = RowsAfter(calls[c]) /\ UNCHANGED uiVars
          /\ UNCHANGED <<place, folder, pages>>
    BY <1>5 DEF ControlAnswered, LoadMailList
  <2>2. calls[c].then # "reload"
    <3>1. ASSUME Load(c, folder, pages.page) PROVE FALSE
      <4>1. calls'[c] = ListOf(folder, pages.page) /\ pages.page \in 1..MaxMails
            /\ folder \in Folders
        BY <1>1, <3>1, CallTypesAre DEF Load, Pagination
      <4> QED
        BY <1>5, <4>1, ListOfIsCall, NothingAssumption
    <3> QED
      BY <2>1, <3>1
  <2>3. \A d \in Slots \ {c} : calls[d] = NoCall
    BY <1>1, <2>1, OnlyCall
  <2>4. /\ Listed(rows') = Listed(rows)
        /\ \A k \in Listed(rows) : rows'[k].mail = rows[k].mail /\ rows'[k].at = rows[k].at
    <3>1. calls[c].then \in {"removeRows", "removeById"}
      BY <1>1, <2>1, <2>2, KindOfCall DEF CallTypes, ControlCall
    <3>2. CASE calls[c].then = "removeRows"
      BY <1>1, <2>1, <3>2, FadeFacts DEF RowsAfter
    <3>3. CASE calls[c].then = "removeById"
      BY <1>1, <2>1, <3>3, FadeFacts DEF RowsAfter
    <3> QED
      BY <3>1, <3>2, <3>3
  <2> QED
    BY <1>1, <1>2, <1>5, <2>1, <2>2, <2>3, <2>4, AnswerKeeps DEF uiVars
<1> QED
  BY <1>3, <1>4, <1>5

LEMMA QuietKeepsPages ==
    ASSUME HomeInv, PageTrue, PagesTrue, Toggle \/ ClickStar \/ RowVanishes \/ UNCHANGED homeVars
    PROVE  PagesTrue'
<1>1. HomeTypeOK /\ IsList(rows) /\ UNCHANGED <<place, folder, pages, calls>>
  BY CallTypesAre DEF HomeInv, Toggle, ClickStar, RowVanishes, homeVars
<1>2. /\ enabled' \in {enabled, Buttons(pages)}
      /\ pane' = NoMail \/ IsKnown(pane')
  BY UIFacts DEF Toggle, ClickStar, RowVanishes, homeVars, uiVars, IsKnown
<1>3. /\ Under("list")' = Under("list") /\ Under("control")' = Under("control")
      /\ Under("read")' = Under("read")
  BY <1>1 DEF Under
<1>4. /\ \A d \in Under("control")' : \A m \in calls'[d].ids : IsKnown(m)
      /\ \A d \in Under("read")' : IsKnown(calls'[d].mail)
  BY <1>1, <1>3 DEF IsKnown
<1>5. /\ Listed(rows') \subseteq Listed(rows)
      /\ \A l \in Listed(rows') : rows'[l].mail = rows[l].mail /\ rows'[l].at = rows[l].at
      /\ \A l \in Listed(rows) \ Listed(rows') : place'[rows[l].mail] # folder
  <2>1. CASE Toggle
    <3>1. PICK k \in Listed(rows) : rows' = Toggled(rows, k)
      BY <2>1, Zenon DEF Toggle, Toggled
    <3> QED
      BY <1>1, <3>1, ToggleFacts
  <2>2. CASE ClickStar \/ UNCHANGED homeVars
    BY <2>2 DEF ClickStar, homeVars
  <2>3. CASE RowVanishes
    <3>1. PICK k \in Listed(rows) : rows[k].fades # "no" /\ rows' = [rows EXCEPT ![k] = NoRow]
      BY <2>3 DEF RowVanishes
    <3>2. place[rows[k].mail] # folder
      BY <3>1 DEF PageTrue, RowTrue, PagesTrue
    <3>3. Listed(rows') = Listed(rows) \ {k} /\ \A l \in Listed(rows') : rows'[l] = rows[l]
      BY <1>1, <3>1 DEF Listed, IsList
    <3>4. \A l \in Listed(rows) \ Listed(rows') : l = k
      BY <3>3
    <3> QED
      BY <1>1, <3>2, <3>3, <3>4
  <2> QED
    BY <2>1, <2>2, <2>3
<1> QED
  BY <1>1, <1>2, <1>3, <1>4, <1>5, KeepPages

\* A list is asked for, and every row leaves.
LEMMA LoadKeeps ==
    ASSUME HomeTypeOK, PagesTrue, NEW c \in Slots, \A d \in Slots \ {c} : calls[d] = NoCall,
           NEW page \in 1..MaxMails, Load(c, folder, page), UNCHANGED <<folder, pages>>,
           InFolder(folder) \subseteq InFolder(folder)',
           \/ page = pages.page
           \/ Idle /\ page \in {pages.prev, pages.next} /\ UNCHANGED place
    PROVE  PagesTrue'
<1>1. /\ pages \in Pagination /\ PageSize \in Nat \ {0} /\ UNCHANGED <<pane, enabled>>
      /\ folder \in Folders
  BY CallTypesAre, HomeAssumption DEF Load, uiVars
<1>2. /\ calls'[c] = ListOf(folder, page) /\ calls'[c] # NoCall
      /\ \A d \in Slots \ {c} : calls'[d] = NoCall
      /\ Listed(rows') = {}
  BY <1>1, ListOfIsCall, NothingAssumption, EmptyIsList DEF Load
<1>3. /\ Under("list")' = {c} /\ Under("control")' = {} /\ Under("read")' = {}
      /\ calls'[c].page = page
  BY <1>2 DEF Under, ListOf
<1>4. Loads(1)' <=> page = 1
  BY <1>3 DEF Loads
<1>5. \A m : IsKnown(m)' => IsKnown(m)
  BY <1>1, <1>2, <1>3 DEF IsKnown, Shown
<1>6. Rest \subseteq Rest'
  BY <1>5 DEF Rest
<1>7. /\ Cardinality(Rest) \in Nat /\ Cardinality(Rest') \in Nat
      /\ Cardinality(Rest) <= Cardinality(Rest')
  <2>1. IsFiniteSet(Rest')
    <3>1. IsFiniteSet(Mails) /\ Rest' \in SUBSET Mails
      BY FS_Interval, HomeAssumption DEF Mails, Rest, InFolder
    <3> QED
      BY <3>1, FS_Subset
  <2> QED
    BY <1>6, <2>1, RestFacts, FS_Subset, FS_CardinalityType
<1>8. LeadsBack'
  <2> DEFINE n == (pages.page - 1) * PageSize
  <2>1. n \in Int
    BY <1>1 DEF Pagination
  <2>2. pages.page > 1 => /\ pages.pages > 1 /\ pages.prev = pages.page - 1
                         /\ "prev" \in enabled /\ Cardinality(Rest) >= n
    BY DEF PagesTrue, LeadsBack
  <2> HIDE DEF n
  <2>3. pages.page > 1 => Cardinality(Rest') >= n
    BY <1>7, <2>1, <2>2
  <2> QED
    BY <1>1, <2>2, <2>3 DEF LeadsBack, n
<1>9. LeadsOn'
  <2> SUFFICES ASSUME pages.page = 1, Cardinality(InFolder(folder)') > PageSize, page # 1
               PROVE  pages.pages > 1 /\ pages.next = 2 /\ "next" \in enabled
    BY <1>1, <1>4 DEF LeadsOn
  <2>1. Idle /\ UNCHANGED <<place, folder>>
    OBVIOUS
  <2>2. ~Loads(1)
    BY <2>1 DEF Idle, Loads, Under
  <2>3. InFolder(folder)' = InFolder(folder)
    BY <2>1 DEF InFolder
  <2> QED
    BY <2>2, <2>3 DEF PagesTrue, LeadsOn
<1>10. OnePage'
  <2> SUFFICES ASSUME pages.pages = 1 PROVE pages = FirstPage /\ page = 1
    BY <1>4 DEF OnePage
  <2>1. pages = FirstPage
    BY DEF PagesTrue, OnePage
  <2> QED
    BY <2>1 DEF FirstPage
<1> QED
  BY <1>2, <1>8, <1>9, <1>10 DEF PagesTrue

\* The folder is opened.
LEMMA OpenedTrue ==
    ASSUME NEW c \in Slots, Load(c, folder', 1), folder' \in Folders, pages' = FirstPage
    PROVE  PagesTrue'
<1>1. calls'[c] = ListOf(folder', 1) /\ Listed(rows') = {}
  BY EmptyIsList DEF Load
<1>2. calls'[c] # NoCall
  BY <1>1, ListOfIsCall, NothingAssumption, HomeAssumption
<1>3. Loads(1)'
  BY <1>1, <1>2 DEF Loads, Under, ListOf
<1>4. LeadsBack' /\ LeadsOn' /\ OnePage'
  BY <1>3 DEF LeadsBack, LeadsOn, OnePage, FirstPage
<1> QED
  BY <1>1, <1>4 DEF PagesTrue

LEMMA LoadKeepsPages ==
    ASSUME HomeInv, trusted => PageTrue /\ (menu # "none" => PagesTrue), trusted', menu' # "none",
           \/ SwitchFolder \/ ClickPrev \/ ClickNext \/ SyncAnswered
           \/ ControlAnswered /\ ~\A c \in Slots : calls'[c] = NoCall
    PROVE  PagesTrue'
<1>1. HomeTypeOK /\ CallTypes /\ pages \in Pagination /\ folder \in Folders
  BY CallTypesAre DEF HomeInv
<1>2. CASE SwitchFolder
  BY <1>2, OpenedTrue DEF SwitchFolder, LoadMailList
<1>3. CASE ClickPrev \/ ClickNext \/ SyncAnswered
  <2>1. /\ trusted /\ Idle /\ menu # "none" /\ UNCHANGED <<folder, pages>>
    BY <1>3, WaitedMeansIdle DEF ClickPrev, ClickNext, SyncAnswered
  <2>2. PICK c \in Slots, page \in {pages.prev, pages.next, pages.page} :
          /\ Load(c, folder, page)
          /\ page # pages.page => page \in {pages.prev, pages.next} /\ UNCHANGED place
    BY <1>3 DEF ClickPrev, ClickNext, SyncAnswered, LoadMailList
  <2>3. page \in 1..MaxMails /\ \A d \in Slots \ {c} : calls[d] = NoCall
    BY <1>1, <2>1 DEF Pagination, Idle
  <2>4. InFolder(folder) \subseteq InFolder(folder)'
    BY <1>1, <1>3, <2>1 DEF ClickPrev, ClickNext, SyncAnswered, InFolder, Folders
  <2> QED
    BY <1>1, <2>1, <2>2, <2>3, <2>4, LoadKeeps
<1>4. CASE ControlAnswered /\ ~\A c \in Slots : calls'[c] = NoCall
  <2>1. /\ trusted /\ menu # "none" /\ PageTrue /\ PagesTrue
        /\ UNCHANGED <<place, folder, pages>>
    BY <1>4 DEF ControlAnswered
  <2>2. PICK c \in Slots : /\ calls[c] # NoCall
                           /\ Load(c, folder, pages.page) \/ Drop(c)
    BY <1>4 DEF ControlAnswered, LoadMailList
  <2>3. \A d \in Slots \ {c} : calls[d] = NoCall
    BY <1>1, <2>1, <2>2, OnlyCall
  <2>4. Load(c, folder, pages.page)
    BY <1>1, <1>4, <2>2, <2>3 DEF Drop, CallTypes
  <2>5. pages.page \in 1..MaxMails /\ InFolder(folder) \subseteq InFolder(folder)'
    BY <1>1, <2>1 DEF Pagination, InFolder
  <2> QED
    BY <1>1, <2>1, <2>3, <2>4, <2>5, LoadKeeps
<1> QED
  BY <1>2, <1>3, <1>4

\* The list is there.
LEMMA ListAnsweredKeepsPages ==
    ASSUME HomeInv, PageTrue, PagesTrue, ListAnswered
    PROVE  PagesTrue'
<1>1. /\ HomeTypeOK /\ CallTypes /\ pages \in Pagination /\ IsList(rows)
      /\ folder \in Folders /\ PageSize \in Nat \ {0} /\ NoMail \notin Mails
      /\ UNCHANGED <<place, folder>>
  BY CallTypesAre, HomeAssumption DEF HomeInv, ListAnswered, NoMail, Mails
<1>2. PICK c \in Slots :
        /\ calls[c] # NoCall /\ calls[c].kind = "list" /\ calls[c].state = "counted" /\ Drop(c)
        /\ \/ /\ calls[c].found # {} /\ calls[c].total > 0
              /\ Fits(rows, calls[c].found)
              /\ rows' = Append(rows, calls[c].found, calls[c].folder)
              /\ pages' = UpdatePages(calls[c].page, calls[c].total)
              /\ UpdateUI(rows', pages', pane)
           \/ /\ calls[c].found = {} \/ ~(calls[c].total > 0)
              /\ UNCHANGED <<rows, pages, uiVars>>
  BY DEF ListAnswered
<1>3. PICK q \in 1..MaxMails : q = calls[c].page
  BY <1>1, <1>2, KindOfCall DEF CallTypes, ListCall
<1>4. PICK n \in 0..MaxMails : n = Cardinality(InFolder(folder))
  BY FolderSize
<1>5. PICK found \in SUBSET Mails : found = PageOf(folder, q)
  <2>1. PageOf(folder, q) \in SUBSET Mails
    BY FolderSize DEF PageOf
  <2> QED
    BY <2>1
<1>6. /\ calls[c].folder = folder /\ Listed(rows) = {}
      /\ calls[c].found = found /\ calls[c].total = n
  BY <1>2, <1>3, <1>4, <1>5 DEF PageTrue, ListTrue, Under
<1>7. /\ \A d \in Slots \ {c} : calls[d] = NoCall
      /\ \A d \in Slots : calls'[d] = NoCall
  BY <1>1, <1>2, OnlyCall DEF Drop, CallTypes
<1>8. /\ Under("list") = {c}
      /\ Under("list")' = {} /\ Under("control")' = {} /\ Under("read")' = {}
  BY <1>2, <1>7 DEF Under
<1>9. Loads(1) <=> q = 1
  BY <1>3, <1>8 DEF Loads
<1>10. q \in Nat \ {0} /\ n \in Nat /\ (q - 1) * PageSize \in Nat
  BY <1>1, HomeAssumption, PageStart
<1>11. InFolder(folder)' = InFolder(folder) /\ IsFiniteSet(InFolder(folder))
  BY <1>1, FolderSize DEF InFolder
<1>12. CASE UNCHANGED <<rows, pages, uiVars>> /\ (found = {} \/ n = 0)
  <2>1. q = 1 => n = 0
    <3>1. SUFFICES ASSUME q = 1, n > 0 PROVE FALSE
      BY <1>10
    <3>2. (q - 1) * PageSize < n
      BY <1>1, <1>10, <3>1
    <3>3. found # {}
      BY <1>4, <1>5, <1>10, <3>2, PageHasMails
    <3> QED
      BY <1>12, <3>1, <3>3
  <2>2. \A m : IsKnown(m)' => IsKnown(m)
    BY <1>8, <1>12 DEF IsKnown, Shown, uiVars
  <2>3. Rest \subseteq Rest'
    BY <1>11, <2>2 DEF Rest
  <2>4. /\ Cardinality(Rest) \in Nat /\ Cardinality(Rest') \in Nat
        /\ Cardinality(Rest) <= Cardinality(Rest')
    <3>1. IsFiniteSet(Rest')
      <4>1. Rest' \in SUBSET InFolder(folder)
        BY <1>11 DEF Rest
      <4> QED
        BY <1>11, <4>1, FS_Subset
    <3> QED
      BY <2>3, <3>1, RestFacts, FS_Subset, FS_CardinalityType
  <2>5. LeadsBack'
    <3> DEFINE k == (pages.page - 1) * PageSize
    <3>1. k \in Int
      BY <1>1 DEF Pagination
    <3>2. pages.page > 1 => /\ pages.pages > 1 /\ pages.prev = pages.page - 1
                           /\ "prev" \in enabled /\ Cardinality(Rest) >= k
      BY DEF PagesTrue, LeadsBack
    <3> HIDE DEF k
    <3>3. pages.page > 1 => Cardinality(Rest') >= k
      BY <2>4, <3>1, <3>2
    <3> QED
      BY <1>12, <3>2, <3>3 DEF LeadsBack, k, uiVars
  <2>6. LeadsOn'
    <3>1. n > PageSize => q # 1
      BY <1>1, <1>10, <2>1
    <3> QED
      BY <1>4, <1>9, <1>11, <1>12, <3>1 DEF PagesTrue, LeadsOn, uiVars
  <2>7. OnePage'
    <3> SUFFICES ASSUME pages.pages = 1
                 PROVE  pages = FirstPage /\ InFolder(folder) = {}
      BY <1>8, <1>11, <1>12 DEF OnePage
    <3>1. pages = FirstPage /\ q = 1
      BY <1>8, <1>9 DEF PagesTrue, OnePage
    <3>2. n = 0
      BY <2>1, <3>1
    <3> QED
      BY <1>4, <1>11, <3>1, <3>2, FS_EmptySet
  <2> QED
    BY <1>6, <1>12, <2>5, <2>6, <2>7 DEF PagesTrue
<1>13. ASSUME found # {}, n > 0, Fits(rows, found), rows' = Append(rows, found, folder),
              pages' = UpdatePages(q, n), UpdateUI(rows', pages', pane)
       PROVE  PagesTrue'
  <2>1. PICK key : key = NewKeys(rows, found)
    OBVIOUS
  <2>2. /\ \A k \in Keys : (~\E m \in found : key[m] = k) => rows'[k] = rows[k]
        /\ \A k \in Keys : (\E m \in found : key[m] = k) =>
             /\ rows'[k].at = folder /\ rows'[k].mail \in found /\ ~rows'[k].active
    BY <1>1, <1>13, <2>1, AppendFacts
  <2>3. \A k \in Listed(rows') :
            rows'[k].at = folder /\ rows'[k].mail \in found /\ ~rows'[k].active
    BY <1>6, <2>2 DEF Listed
  <2>4. pane' = NoMail /\ enabled' = Buttons(pages')
    BY <1>13, <2>3 DEF UpdateUI
  <2>5. \A m \in found : Shown(m)'
    BY <1>1, <1>13, AppendShowsAll DEF Shown
  <2>6. n \in 1..MaxMails
    BY <1>10, <1>13
  <2>7. /\ pages' \in Pagination
        /\ n <= PageSize =>
             /\ pages'.page = 1 /\ pages'.pages = pages.pages /\ pages'.prev = pages.prev
             /\ pages'.next = pages.next
        /\ n > PageSize =>
             /\ pages'.page = q /\ pages'.pages > 1
             /\ q > 1 => pages'.prev = q - 1
             /\ q = 1 => pages'.next = 2
    BY <1>1, <1>13, <2>6, UpdatePagesFacts
  <2>8. CASE n <= PageSize
    <3>1. LeadsBack' /\ LeadsOn'
      BY <1>1, <1>4, <1>10, <1>11, <2>7, <2>8 DEF LeadsBack, LeadsOn
    <3>2. OnePage'
      <4> SUFFICES ASSUME pages'.pages = 1
                   PROVE  pages' = FirstPage /\ \A m \in InFolder(folder) : Shown(m)'
        BY <1>8, <1>11 DEF OnePage
      <4>1. pages = FirstPage /\ q = 1
        BY <1>8, <1>9, <2>7, <2>8 DEF PagesTrue, OnePage
      <4>2. found = InFolder(folder)
        BY <1>4, <1>5, <2>8, <4>1, OnePageIsAll
      <4>3. pages' = FirstPage
        BY <2>7, <2>8, <4>1 DEF FirstPage, Pagination
      <4> QED
        BY <2>5, <4>2, <4>3
    <3> QED
      BY <1>1, <2>3, <3>1, <3>2 DEF PagesTrue
  <2>9. CASE n > PageSize
    <3>1. Cardinality(Rest') >= (q - 1) * PageSize
      <4>1. \A m \in InFolder(folder) \ found : ~IsKnown(m)'
        BY <1>1, <1>8, <2>3, <2>4 DEF IsKnown, Shown, InFolder
      <4>2. InFolder(folder) \ found \in SUBSET Rest'
        BY <1>11, <4>1 DEF Rest
      <4>3. IsFiniteSet(Rest')
        <5>1. Rest' \in SUBSET InFolder(folder)
          BY <1>11 DEF Rest
        <5> QED
          BY <1>11, <5>1, FS_Subset
      <4>4. /\ Cardinality(InFolder(folder) \ found) <= Cardinality(Rest')
            /\ Cardinality(InFolder(folder) \ found) \in Nat /\ Cardinality(Rest') \in Nat
        BY <4>2, <4>3, FS_Subset, FS_CardinalityType
      <4>5. Cardinality(InFolder(folder) \ found) >= (q - 1) * PageSize
        BY <1>5, <1>10, <1>13, PagesBeforeAreFull
      <4> QED
        BY <1>10, <4>4, <4>5
    <3>2. LeadsBack'
      BY <1>10, <2>4, <2>7, <2>9, <3>1 DEF LeadsBack, Buttons
    <3>3. LeadsOn'
      <4>1. q = 1 => "next" \in enabled'
        BY <2>4, <2>7, <2>9 DEF Buttons
      <4> QED
        BY <2>7, <2>9, <4>1 DEF LeadsOn
    <3>4. OnePage'
      BY <2>7, <2>9 DEF OnePage, Pagination
    <3> QED
      BY <1>1, <2>3, <3>2, <3>3, <3>4 DEF PagesTrue
  <2> QED
    BY <1>1, <1>10, <2>8, <2>9
<1> QED
  BY <1>2, <1>3, <1>6, <1>10, <1>12, <1>13

WayInv == HomeInv /\ (trusted /\ menu # "none" => PagesTrue)

LEMMA WayInvInit == HomeInit => WayInv
<1> SUFFICES ASSUME HomeInit PROVE WayInv
  OBVIOUS
<1>1. PICK c \in Slots : calls = [d \in Slots |-> IF d = c THEN ListOf("inbox", 1) ELSE NoCall]
  BY DEF HomeInit
<1>2. Listed(rows) = {} /\ pages = FirstPage
  BY EmptyIsList DEF HomeInit
<1>3. calls[c] = ListOf("inbox", 1) /\ calls[c] # NoCall
  BY <1>1, ListOfIsCall, NothingAssumption, HomeAssumption DEF Folders
<1>4. Loads(1)
  BY <1>3 DEF Loads, Under, ListOf
<1>5. PagesTrue
  BY <1>2, <1>4 DEF PagesTrue, LeadsBack, LeadsOn, OnePage, FirstPage
<1> QED
  BY <1>5, HomeInvInit DEF WayInv

LEMMA WayInvStep ==
    ASSUME WayInv, [HomeNext]_homeVars
    PROVE  WayInv'
<1>1. HomeInv /\ HomeInv' /\ (trusted => PageTrue /\ (menu # "none" => PagesTrue))
  BY HomeInvStep DEF WayInv, HomeInv
<1>2. ASSUME trusted', menu' # "none" PROVE PagesTrue'
  <2>1. CASE SwitchFolder \/ ClickPrev \/ ClickNext \/ SyncAnswered
    BY <1>1, <1>2, <2>1, LoadKeepsPages
  <2>2. CASE ClickSearch \/ OpenRow \/ DeleteSelected \/ DeleteRow \/ DeleteOpened \/ MoveSelected
    <3>1. trusted /\ menu # "none"
      BY <1>2, <2>2, WaitedMeansIdle
         DEF ClickSearch, OpenRow, DeleteSelected, DeleteRow, DeleteOpened, MoveSelected, Control
    <3> QED
      BY <1>1, <1>2, <2>2, <3>1, AskKeepsPages
  <2>3. CASE ListRead \/ ListCounted \/ SearchRead \/ ControlServed
    <3>1. trusted /\ menu # "none"
      BY <1>2, <2>3 DEF ListRead, ListCounted, SearchRead, ControlServed
    <3> QED
      BY <1>1, <2>3, <3>1, ServeKeepsPages
  <2>4. CASE ListAnswered
    <3>1. trusted /\ menu # "none"
      BY <1>2, <2>4 DEF ListAnswered
    <3> QED
      BY <1>1, <2>4, <3>1, ListAnsweredKeepsPages
  <2>5. CASE SearchAnswered \/ OpenAnswered \/ ControlAnswered
    <3>1. trusted /\ menu # "none"
      BY <1>2, <2>5 DEF SearchAnswered, OpenAnswered, ControlAnswered
    <3> QED
      BY <1>1, <1>2, <2>5, <3>1, AnswerKeepsPages, LoadKeepsPages
  <2>6. CASE Toggle \/ ClickStar \/ RowVanishes \/ UNCHANGED homeVars
    <3>1. trusted /\ menu # "none"
      BY <1>2, <2>6 DEF Toggle, ClickStar, RowVanishes, homeVars
    <3> QED
      BY <1>1, <2>6, <3>1, QuietKeepsPages
  <2>7. ASSUME CallFails PROVE FALSE
    BY <1>2, <2>7 DEF CallFails
  <2> QED
    BY <2>1, <2>2, <2>3, <2>4, <2>5, <2>6, <2>7 DEF HomeNext
<1> QED
  BY <1>1, <1>2 DEF WayInv

\* The buttons and the pages lead to the mails that the list does not show, for as long
\* as the user waits.
THEOREM WayInvAlways == HomeSpec => []WayInv
<1>1. WayInv /\ [HomeNext]_homeVars => WayInv'
  BY WayInvStep
<1> QED
  BY <1>1, WayInvInit, PTL DEF HomeSpec

\* Whatever is deleted, moved and received meanwhile: a user who waits and empties the
\* page of the list finds a button that leads to the other mails of the folder, for any
\* page size and any number of pages.  It is not so on the first of several pages when the
\* other mails fit on one (LeftBehind), which the statement leaves out.
THEOREM EmptiedPagesLeadOn == HomeSpec => []EmptiedPageLeadsOn
<1>1. WayInv => EmptiedPageLeadsOn
  <2> SUFFICES ASSUME WayInv, trusted, AtRest, Listed(rows) = {}, InFolder(folder) # {},
                      menu # "none", ~LeftBehind
               PROVE  \/ "prev" \in enabled /\ PageOf(folder, pages.prev) # {}
                      \/ "next" \in enabled /\ PageOf(folder, pages.next) # {}
    BY DEF EmptiedPageLeadsOn, APagingButtonLeads
  <2>1. /\ PagesTrue /\ pages \in Pagination /\ PageSize \in Nat \ {0}
        /\ Under("list") = {} /\ ~Loads(1) /\ \A m : ~Shown(m)
    BY CallTypesAre, HomeAssumption DEF WayInv, HomeInv, AtRest, Idle, Under, Loads, Shown
  <2>2. PICK n \in Nat : n = Cardinality(InFolder(folder))
    BY FolderSize, FS_CardinalityType
  <2>3. CASE pages.page > 1
    <3>1. PICK k \in Nat \ {0} : k = pages.prev
      BY <2>1, HomeAssumption DEF Pagination
    <3>2. k = pages.page - 1 /\ "prev" \in enabled /\ Cardinality(Rest) >= k * PageSize
      BY <2>1, <2>3, <3>1 DEF PagesTrue, LeadsBack
    <3>3. n >= k * PageSize
      <4>1. Cardinality(Rest) \in Nat /\ Cardinality(Rest) <= n
        BY <2>2, RestFacts
      <4>2. k * PageSize \in Int
        BY <2>1
      <4> QED
        BY <3>2, <4>1, <4>2
    <3>4. (k - 1) * PageSize < n
      BY <2>1, <3>3, PageStart
    <3>5. PageOf(folder, k) # {}
      BY <2>2, <3>4, PageHasMails
    <3> QED
      BY <3>1, <3>2, <3>5
  <2>4. CASE pages.page = 1 /\ n > PageSize
    <3>1. pages.next = 2 /\ "next" \in enabled
      BY <2>1, <2>2, <2>4 DEF PagesTrue, LeadsOn
    <3>2. PageOf(folder, 2) # {}
      BY <2>1, <2>2, <2>4, PageHasMails
    <3> QED
      BY <3>1, <3>2
  <2>5. CASE pages.page = 1 /\ n <= PageSize
    <3>1. pages.pages # 1
      BY <2>1 DEF PagesTrue, OnePage
    <3> QED
      BY <2>1, <2>2, <2>5, <3>1 DEF Pagination, LeftBehind
  <2> QED
    BY <2>1, <2>3, <2>4, <2>5 DEF Pagination
<1> QED
  BY <1>1, WayInvAlways, PTL
====
