---------------------------- MODULE DeviceInventory ----------------------------
(***************************************************************************)
(* The paged device list: listDevices and its cache of snapshots           *)
(* (packages/mcp/src/server.ts), read page by page by an agent or by       *)
(* loadAvailableDevices (packages/app/src/index.tsx), while devices come   *)
(* and go.                                                                 *)
(***************************************************************************)
EXTENDS Integers, SequencesExt, Lists

CONSTANTS
    DeviceCount,        \* the devices are numbered in the order of the list
    Readers,            \* lists that may be in progress
    PageLimit,          \* devices in a page
    RetainedLimit,      \* DEVICE_INVENTORY_RETAINED_LIMIT
    SnapshotLimit,      \* DEVICE_INVENTORY_SNAPSHOT_LIMIT
    MaxLists, MaxListChanges, MaxExpiries       \* bounds

\* What is assumed of the constants; the TLC module asserts it.
InventoryAssumption ==
    /\ {DeviceCount, RetainedLimit, MaxLists, MaxListChanges, MaxExpiries} \subseteq Nat
    /\ PageLimit \in Nat \ {0} /\ SnapshotLimit \in Nat \ {0}

Listed == 1..DeviceCount

VARIABLES
    inventory,      \* the devices there are
    pages,          \* #entries, oldest first
    reader,         \* a list in progress: see Reading
    shown,          \* availableDevices of the viewer
    cursors,        \* cursors made
    lists, listChanges, expiries

inventoryVars == <<inventory, pages, reader, shown, cursors, lists, listChanges, expiries>>

\* cursor: of the next page, 0 when there is none.  got: the devices so far.
\* of: history, the devices that were there when the list was begun.
Reading(of, truncated) ==
    [at |-> "reading", cursor |-> 0, got |-> <<>>, of |-> of, truncated |-> truncated]
Resting == [Reading(<<>>, FALSE) EXCEPT !.at = "resting"]

InventoryTypeOK ==
    /\ inventory \subseteq Listed /\ Len(pages) <= SnapshotLimit
    /\ \A k \in DOMAIN pages :
          /\ pages[k].cursor \in 1..cursors /\ pages[k].devices \in Seq(Listed)
          /\ pages[k].offset \in 1..(Len(pages[k].devices) - 1)
    /\ \A r \in Readers : /\ reader[r].at \in {"reading", "resting", "listed", "failed"}
                          /\ reader[r].got \in Seq(Listed)
    /\ shown \in Seq(Listed) /\ cursors \in Nat

InventoryInit ==
    /\ inventory \in SUBSET Listed
    /\ pages = <<>> /\ cursors = 0 /\ shown = <<>>
    /\ reader = [r \in Readers |-> Resting]
    /\ lists = 0 /\ listChanges = 0 /\ expiries = 0

\* sortedDeviceInventory.
Sorted(devices) == Filter([d \in Listed |-> d], devices)

\* create: the oldest snapshots make room for the new one.
Created(kept, snapshot) ==
    LET room == SnapshotLimit - 1
    IN  (IF Len(kept) > room THEN SubSeq(kept, Len(kept) - room + 1, Len(kept)) ELSE kept)
            \o <<snapshot>>

\* Mutant: a page is cut from the devices there are now.
MutantPage(devices, offset) ==
    LET now == Sorted(inventory) IN SubSeq(now, offset + 1, IF offset + PageLimit < Len(now) THEN offset + PageLimit ELSE Len(now))

\* The next page of a snapshot.
Page(devices, offset) ==
    SubSeq(devices, offset + 1, IF offset + PageLimit < Len(devices) THEN offset + PageLimit
                                ELSE Len(devices))

\* The answer to a list or to a cursor: a page, and the cursor of the rest.
Answer(r, kept, devices, offset, was) ==
    LET page == Page(devices, offset)
        next == offset + Len(page)
        more == next < Len(devices)
    IN  /\ cursors' = IF more THEN cursors + 1 ELSE cursors
        /\ pages' = IF more THEN Created(kept, [cursor |-> cursors', devices |-> devices, offset |-> next])
                              ELSE kept
        /\ reader' = [reader EXCEPT ![r] = [was EXCEPT !.at = IF more THEN "reading" ELSE "listed",
                                                       !.cursor = IF more THEN cursors' ELSE 0,
                                                       !.got = @ \o page]]

\* listDevices without a cursor.
List(r) ==
    /\ reader[r].at # "reading" /\ lists < MaxLists
    /\ lists' = lists + 1
    /\ LET sorted == Sorted(inventory)
           retained == SubSeq(sorted, 1, IF Len(sorted) < RetainedLimit THEN Len(sorted) ELSE RetainedLimit)
       IN  Answer(r, pages, retained, 0, Reading(sorted, Len(retained) < Len(sorted)))
    /\ UNCHANGED <<inventory, shown, listChanges, expiries>>

\* continue: a cursor is good for one page.
Continue(r) ==
    /\ reader[r].at = "reading"
    /\ \E k \in DOMAIN pages :
         /\ pages[k].cursor = reader[r].cursor
         /\ Answer(r, Filter(pages, {e \in ToSet(pages) : e.cursor # reader[r].cursor}),
                   pages[k].devices, pages[k].offset, reader[r])
    /\ UNCHANGED <<inventory, shown, lists, listChanges, expiries>>

\* "Device inventory cursor is invalid or expired".
Refused(r) ==
    /\ reader[r].at = "reading"
    /\ \A k \in DOMAIN pages : pages[k].cursor # reader[r].cursor
    /\ reader' = [reader EXCEPT ![r].at = "failed"]
    /\ UNCHANGED <<inventory, pages, shown, cursors, lists, listChanges, expiries>>

\* setAvailableDevices: devices keep their place in the menu.
ShowList(r) ==
    /\ reader[r].at = "listed"
    /\ LET listed == reader[r].got
           retained == Filter(shown, ToSet(listed))
       IN  shown' = retained \o Filter(listed, Listed \ ToSet(retained))
    /\ reader' = [reader EXCEPT ![r] = Resting]
    /\ UNCHANGED <<inventory, pages, cursors, lists, listChanges, expiries>>

\* #pruneExpired: entries expire in the order in which they were made.
Expire ==
    /\ pages # <<>> /\ expiries < MaxExpiries
    /\ expiries' = expiries + 1 /\ pages' = Tail(pages)
    /\ UNCHANGED <<inventory, reader, shown, cursors, lists, listChanges>>

Change ==
    /\ listChanges < MaxListChanges /\ listChanges' = listChanges + 1
    /\ \E d \in Listed : inventory' = (inventory \ {d}) \cup ({d} \ inventory)
    /\ UNCHANGED <<pages, reader, shown, cursors, lists, expiries>>

InventoryNext ==
    \/ \E r \in Readers : List(r) \/ Continue(r) \/ Refused(r) \/ ShowList(r)
    \/ Expire \/ Change

InventorySpec == InventoryInit /\ [][InventoryNext]_inventoryVars

----------------------------------------------------------------------------
\* However devices come and go between the pages and whoever else lists them,
\* what a reader has is the beginning of one inventory, nothing twice and
\* nothing skipped; a list that ends is all of it unless it says it was
\* truncated; and the menu holds every device it shows once.
PagesAreOfOneInventory ==
    /\ \A r \in Readers :
        /\ IsPrefix(reader[r].got, reader[r].of)
        /\ reader[r].at = "listed" /\ ~reader[r].truncated => reader[r].got = reader[r].of
    /\ IsInjective(shown)
=============================================================================
