---------------------------- MODULE ContactLinks ----------------------------
(***************************************************************************)
(* One account's emergency contacts and the Telegram chats they are linked *)
(* to: adding and removing contacts (server.ts), the invitation that makes *)
(* a one-time code and the bot's webhook that spends it                    *)
(* (routes/telegram.ts).                                                   *)
(*                                                                         *)
(* An invitation locks the contact and then its codes, a /start the code   *)
(* and then the contact: when each waits for the other, Postgres aborts    *)
(* one.  An aborted /start is answered 500, and Telegram delivers it       *)
(* again; it may also deliver again what was answered.                     *)
(***************************************************************************)
EXTENDS Naturals, FiniteSets

CONSTANTS
    Rows, Numbers, Codes, Chats, NoChat, NoRow,
    Adds, Invites, Starts,  \* requests that may be in flight at a time
    MaxContacts             \* five

ASSUME ContactsAssumption == MaxContacts \in Nat /\ NoRow \notin Rows \cup Numbers \cup Codes

VARIABLES
    contact,        \* contact[x]: a row of emergency_contacts
    code,           \* code[k]: a row of telegram_link_codes
    adding,         \* adding[r]: a request that holds the account's advisory lock
    inviting,       \* inviting[r]: the contact it has locked, and the codes it has withdrawn
    starting,       \* starting[r]: the code it has claimed, and for which chat
    links           \* links[k]: how often code k linked a chat

rowsOfContacts == <<contact, code, links>>
contactVars == <<rowsOfContacts, adding, inviting, starting>>

NotAdding == [number |-> NoRow, seen |-> {}]
NotInviting == [of |-> NoRow, wrote |-> FALSE, old |-> {}]
NotStarting == [code |-> NoRow, chat |-> NoChat]
Absent == [state |-> "absent", number |-> NoRow, chat |-> NoChat]
Unmade == [state |-> "unmade", of |-> NoRow]

ContactsTypeOK ==
    /\ contact \in [Rows -> [state : {"absent", "listed", "removed"}, number : Numbers \cup {NoRow},
                             chat : Chats \cup {NoChat}]]
    /\ code \in [Codes -> [state : {"unmade", "live", "used", "withdrawn", "expired"}, of : Rows \cup {NoRow}]]
    /\ adding \in [Adds -> [number : Numbers \cup {NoRow}, seen : SUBSET Rows]]
    /\ inviting \in [Invites -> [of : Rows \cup {NoRow}, wrote : BOOLEAN, old : SUBSET Codes]]
    /\ starting \in [Starts -> [code : Codes \cup {NoRow}, chat : Chats \cup {NoChat}]]
    /\ links \in [Codes -> Nat]

ContactsInit ==
    /\ contact = [x \in Rows |-> Absent]
    /\ code = [k \in Codes |-> Unmade]
    /\ adding = [r \in Adds |-> NotAdding]
    /\ inviting = [r \in Invites |-> NotInviting]
    /\ starting = [r \in Starts |-> NotStarting]
    /\ links = [k \in Codes |-> 0]

Listed == {x \in Rows : contact[x].state = "listed"}
ContactFree(x) == \A r \in Invites : inviting[r].of # x
CodeFree(k) == (\A r \in Starts : starting[r].code # k) /\ \A r \in Invites : k \notin inviting[r].old
LiveCodes(x) == {k \in Codes : code[k].of = x /\ code[k].state = "live"}

-----------------------------------------------------------------------------
(* The list *)

\* POST /v1/me/emergency-contacts: counted and inserted under pg_advisory_xact_lock.
ListUnlocked == TRUE                             \* variant: no lock
ListFree == \A r \in Adds : adding[r] = NotAdding

AddRead(r, n) ==
    /\ adding[r] = NotAdding /\ ListFree
    /\ adding' = [adding EXCEPT ![r] = [number |-> n, seen |-> Listed]]
    /\ UNCHANGED <<rowsOfContacts, inviting, starting>>

AddInsert(r) ==
    LET a == adding[r]
    IN /\ a # NotAdding
       /\ adding' = [adding EXCEPT ![r] = NotAdding]
       /\ IF (\E x \in a.seen : contact[x].number = a.number) \/ Cardinality(a.seen) >= MaxContacts
            THEN UNCHANGED contact
            ELSE \E x \in Rows :
                   /\ contact[x].state = "absent"
                   /\ contact' = [contact EXCEPT ![x] = [Absent EXCEPT !.state = "listed", !.number = a.number]]
       /\ UNCHANGED <<code, links, inviting, starting>>

\* DELETE: a soft delete.  The row keeps its chat, its codes stay as they are.
Unlist(x) ==
    /\ x \in Listed /\ ContactFree(x)
    /\ contact' = [contact EXCEPT ![x].state = "removed"]
    /\ UNCHANGED <<code, links, adding, inviting, starting>>

-----------------------------------------------------------------------------
(* The invitation *)

InviteAny(x) == TRUE                             \* variant: SELECT without FOR UPDATE
MayInvite(x) == ContactFree(x)

InviteLock(r, x) ==
    /\ inviting[r] = NotInviting
    /\ x \in Listed /\ MayInvite(x)
    /\ inviting' = [inviting EXCEPT ![r].of = x]
    /\ UNCHANGED <<rowsOfContacts, adding, starting>>

\* The old code is withdrawn, once no other transaction holds it, ...
InviteWithdraw(r) ==
    LET v == inviting[r]
    IN /\ v.of # NoRow /\ ~v.wrote
       /\ \A k \in LiveCodes(v.of) : CodeFree(k)
       /\ inviting' = [inviting EXCEPT ![r].wrote = TRUE, ![r].old = LiveCodes(v.of)]
       /\ UNCHANGED <<rowsOfContacts, adding, starting>>

\* ... the new one inserted, and both committed.
InviteInsert(r) ==
    /\ inviting[r].wrote
    /\ \E k \in Codes :
         /\ code[k].state = "unmade"
         /\ code' = [j \in Codes |-> IF j = k THEN [state |-> "live", of |-> inviting[r].of]
                                     ELSE IF j \in inviting[r].old THEN [code[j] EXCEPT !.state = "withdrawn"]
                                     ELSE code[j]]
    /\ inviting' = [inviting EXCEPT ![r] = NotInviting]
    /\ UNCHANGED <<contact, links, adding, starting>>

CodeExpires(k) ==
    /\ code[k].state = "live" /\ CodeFree(k)
    /\ code' = [code EXCEPT ![k].state = "expired"]
    /\ UNCHANGED <<contact, links, adding, inviting, starting>>

-----------------------------------------------------------------------------
(* The webhook *)

\* /start: the claim, by one conditional update.
CodeClaimable(k) == code[k].state = "live"

StartClaim(r, k, h) ==
    /\ starting[r] = NotStarting
    /\ CodeClaimable(k) /\ CodeFree(k)
    /\ starting' = [starting EXCEPT ![r] = [code |-> k, chat |-> h]]
    /\ UNCHANGED <<rowsOfContacts, adding, inviting>>

\* The contact, unless it is removed; the code is spent either way.
StartLink(r) ==
    LET s == starting[r]
        x == code[s.code].of
    IN /\ s # NotStarting
       /\ ContactFree(x)
       /\ code' = [code EXCEPT ![s.code].state = "used"]
       /\ IF x \in Listed
            THEN /\ contact' = [contact EXCEPT ![x].chat = s.chat]
                 /\ links' = [links EXCEPT ![s.code] = @ + 1]
            ELSE UNCHANGED <<contact, links>>
       /\ starting' = [starting EXCEPT ![r] = NotStarting]
       /\ UNCHANGED <<adding, inviting>>

\* /stop unlinks the chat from whoever listed it.
Stop(h) ==
    /\ \E x \in Rows : contact[x].chat = h
    /\ \A x \in Rows : contact[x].chat = h => ContactFree(x)
    /\ contact' = [x \in Rows |-> IF contact[x].chat = h THEN [contact[x] EXCEPT !.chat = NoChat] ELSE contact[x]]
    /\ UNCHANGED <<code, links, adding, inviting, starting>>

-----------------------------------------------------------------------------
(* The deadlock of an invitation and a /start, and its two outcomes *)

Crossed(i, r) ==
    /\ inviting[i].of # NoRow /\ ~inviting[i].wrote /\ starting[r] # NotStarting
    /\ code[starting[r].code].of = inviting[i].of

InviteAborts(i) ==
    /\ \E r \in Starts : Crossed(i, r)
    /\ inviting' = [inviting EXCEPT ![i] = NotInviting]
    /\ UNCHANGED <<rowsOfContacts, adding, starting>>

StartAborts(r) ==
    /\ \E i \in Invites : Crossed(i, r)
    /\ starting' = [starting EXCEPT ![r] = NotStarting]
    /\ UNCHANGED <<rowsOfContacts, adding, inviting>>

ContactsNext ==
    \/ \E r \in Adds : AddInsert(r) \/ \E n \in Numbers : AddRead(r, n)
    \/ \E x \in Rows : Unlist(x)
    \/ \E r \in Invites :
         InviteWithdraw(r) \/ InviteInsert(r) \/ InviteAborts(r) \/ \E x \in Rows : InviteLock(r, x)
    \/ \E k \in Codes : CodeExpires(k)
    \/ \E r \in Starts : StartLink(r) \/ StartAborts(r) \/ \E k \in Codes, h \in Chats : StartClaim(r, k, h)
    \/ \E h \in Chats : Stop(h)

ContactsSpec == ContactsInit /\ [][ContactsNext]_contactVars

-----------------------------------------------------------------------------
(* Safety *)

\* "simultaneous adds all saw four or fewer and all inserted, past the cap and with
\* the same number twice": never again.
ContactsCapped ==
    /\ Cardinality(Listed) <= MaxContacts
    /\ \A x, y \in Listed : contact[x].number = contact[y].number => x = y

\* "It works once, for 7 days; making a new one cancels this one": a contact has one
\* live code however invitations overlap, and a chat is linked only by the code that
\* is live as it is spent, so neither a /start delivered again nor a withdrawn link
\* undoes a /stop or a newer invitation.
OneLiveInvite == \A x \in Rows : Cardinality(LiveCodes(x)) <= 1
InviteLinksOnce == OneLiveInvite /\ \A k \in Codes : links[k] <= 1

\* Both of the above: the list stays within its cap, and its links mean what they say.
ContactsHold == ContactsCapped /\ InviteLinksOnce
=============================================================================
