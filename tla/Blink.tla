-------------------------------- MODULE Blink --------------------------------
(***************************************************************************)
(* The blinking characters of the fish program: blink.S keeps a linked     *)
(* list of structures taken from the array of fish.c, in which a location  *)
(* of 0 marks a free one.  The program calls mp1_ioctl to add, remove,     *)
(* find and synchronise characters, and the tasklet after every RTC tick.  *)
(***************************************************************************)
EXTENDS Integers, Sequences

CONSTANTS
    SLOTS,      \* structures in blink_array (80 * 25)
    CELLS,      \* cells of the screen (80 * 25): locations are 0..CELLS - 1
    USHORT,     \* values of an unsigned short (2^16): locations, lengths and countdowns
    LiveScreen, \* what the screen shows when the program begins, which clears nothing
    Blinks,     \* structures programs add: location, characters and lengths of the phases
    Locations   \* locations programs pass to the other calls

\* fish adds nothing at location 0, which would mark the structure free again.
ASSUME BlinkAssumption ==
    /\ SLOTS \in Nat /\ USHORT \in Nat /\ CELLS \in 1..USHORT
    /\ LiveScreen = [cell \in 0..(CELLS - 1) |-> LiveScreen[cell]]
    /\ Locations \subseteq 0..(USHORT - 1)
    /\ \A b \in Blinks :
          /\ b.location \in 1..(USHORT - 1)
          /\ b.on_length \in 1..(USHORT - 1) /\ b.off_length \in 1..(USHORT - 1)

Null == -1
Chars == {b.on_char : b \in Blinks} \cup {b.off_char : b \in Blinks}
Slots == 0..(SLOTS - 1)
Fields == [location : 0..(CELLS - 1), on_char : Chars \cup {"zero"}, off_char : Chars \cup {"zero"},
           on_length : 0..(USHORT - 1), off_length : 0..(USHORT - 1),
           countdown : 0..(USHORT - 1), status : {0, 1},
           next : Slots \cup {Null}]

VARIABLES
    blink_array,    \* the structures
    mp1_list_head,  \* the first of the list, or Null
    vmem,           \* the character in each cell
    eax,            \* what the last call returned
    sole,           \* history: cells written for the one structure on them only
    dark            \* history: cells last written by a synchronisation with an on phase

blinkVars == <<blink_array, mp1_list_head, vmem, eax, sole, dark>>

Zero == [location |-> 0, on_char |-> "zero", off_char |-> "zero", on_length |-> 0,
         off_length |-> 0, countdown |-> 0, status |-> 0, next |-> Null]

-------------------------------------------------------------------------------
\* The list as the loops walk it, cut off after more steps than there are structures.
Walk(arr, head) ==
    LET from[w \in Seq(Slots)] ==
            LET p == IF w = <<>> THEN head ELSE arr[w[Len(w)]].next
            IN  IF p = Null \/ Len(w) > SLOTS THEN w ELSE from[Append(w, p)]
    IN  from[<<>>]

List == Walk(blink_array, mp1_list_head)

mp1_find_helper(loc) ==
    LET at == {j \in 1..Len(List) : blink_array[List[j]].location = loc}
    IN  IF at = {} THEN Null ELSE List[CHOOSE j \in at : \A m \in at : j <= m]

\* The first structure whose location is 0.
mp1_malloc ==
    LET free == {s \in Slots : blink_array[s].location = 0}
    IN  IF free = {} THEN Null ELSE CHOOSE s \in free : \A t \in free : s <= t

mp1_free(arr, p) == [arr EXCEPT ![p] = Zero]

Fail == eax' = -1 /\ UNCHANGED <<blink_array, mp1_list_head, vmem, sole, dark>>

ValidLocation(loc) == loc < CELLS

\* A new structure goes to the front of the list and its character is shown.
mp1_ioctl_add(b) ==
    LET p == mp1_malloc
        loc == b.location IN
    IF ~ValidLocation(loc) \/ p = Null
    THEN Fail
    ELSE /\ blink_array' = [blink_array EXCEPT ![p] =
                [location |-> loc, on_char |-> b.on_char, off_char |-> b.off_char,
                 on_length |-> b.on_length, off_length |-> b.off_length,
                 countdown |-> b.on_length, status |-> 1, next |-> mp1_list_head]]
         /\ mp1_list_head' = p
         /\ vmem' = [vmem EXCEPT ![loc] = b.on_char]
         /\ eax' = 0
         /\ sole' = IF mp1_find_helper(loc) = Null THEN sole \cup {loc} ELSE sole \ {loc}
         /\ dark' = dark \ {loc}

\* Mutant: the structure is freed before its successor is read.
Unlink_Freed(arr, p, q) == [arr EXCEPT ![q].next = Null]

\* The predecessor q takes over the successor of p.
Unlink(arr, p, q) == [arr EXCEPT ![q].next = arr[p].next]

mp1_ioctl_remove(loc) ==
    LET p == mp1_find_helper(loc)
        before == {q \in {List[j] : j \in 1..Len(List)} : blink_array[q].next = p} IN
    IF p = Null
    THEN Fail
    ELSE /\ IF mp1_list_head = p
            THEN /\ mp1_list_head' = blink_array[p].next
                 /\ blink_array' = mp1_free(blink_array, p)
            ELSE /\ blink_array' = mp1_free(Unlink(blink_array, p, CHOOSE q \in before : TRUE), p)
                 /\ UNCHANGED mp1_list_head
         /\ eax' = 0
         /\ sole' = sole \ {loc} /\ dark' = dark \ {loc}
         /\ UNCHANGED vmem

mp1_ioctl_find(loc) ==
    /\ eax' = IF mp1_find_helper(loc) = Null THEN -1 ELSE 0
    /\ UNCHANGED <<blink_array, mp1_list_head, vmem, sole, dark>>

\* Mutant: the phase is not taken over.
SyncFields_NoStatus(d, s) ==
    [d EXCEPT !.on_length = s.on_length, !.off_length = s.off_length, !.countdown = s.countdown]

SyncFields(d, s) ==
    [d EXCEPT !.on_length = s.on_length, !.off_length = s.off_length,
              !.countdown = s.countdown, !.status = s.status]

\* cmovl after testb never moves: whatever the phase, the off character is shown.
mp1_ioctl_sync(src, dst) ==
    LET p == mp1_find_helper(src)
        q == mp1_find_helper(dst) IN
    IF p = Null \/ q = Null
    THEN Fail
    ELSE /\ blink_array' = [blink_array EXCEPT ![q] = SyncFields(@, blink_array[p])]
         /\ vmem' = [vmem EXCEPT ![dst] = blink_array[q].off_char]
         /\ eax' = 0
         /\ dark' = IF blink_array[p].status = 1 THEN dark \cup {dst} ELSE dark \ {dst}
         /\ UNCHANGED <<mp1_list_head, sole>>

\* decw, and the signed comparison with 0 that follows: the upper half counts as negative.
Dec(count) == IF count = 0 THEN USHORT - 1 ELSE count - 1
Expired(count) == count = 0 \/ count >= USHORT \div 2

\* One structure at one tick.
Tick(b) ==
    IF ~Expired(Dec(b.countdown)) THEN [b EXCEPT !.countdown = Dec(@)]
    ELSE [b EXCEPT !.status = 1 - @,
                   !.countdown = IF b.status = 1 THEN b.off_length ELSE b.on_length]

\* Mutant: the character of the phase that ends.
NewChar_Old(b) == IF b.status = 1 THEN b.on_char ELSE b.off_char

\* The character of the phase that begins.
NewChar(b) == IF b.status = 1 THEN b.off_char ELSE b.on_char

\* The structures of the list in turn: of two on one cell the later one is seen.
mp1_rtc_tasklet ==
    LET hit(c) == {j \in 1..Len(List) : /\ blink_array[List[j]].location = c
                                         /\ Expired(Dec(blink_array[List[j]].countdown))}
        shown(c) == blink_array[List[CHOOSE j \in hit(c) : \A m \in hit(c) : m <= j]] IN
    /\ blink_array' = [s \in Slots |-> IF \E j \in 1..Len(List) : List[j] = s
                                       THEN Tick(blink_array[s]) ELSE blink_array[s]]
    /\ vmem' = [c \in DOMAIN vmem |-> IF hit(c) = {} THEN vmem[c]
                                      ELSE NewChar(shown(c))]
    /\ dark' = {c \in dark : hit(c) = {}}
    /\ UNCHANGED <<mp1_list_head, eax, sole>>

BlinkInit ==
    /\ blink_array = [s \in Slots |-> Zero]
    /\ mp1_list_head = Null
    /\ vmem = LiveScreen
    /\ eax = 0
    /\ sole = {} /\ dark = {}

BlinkNext ==
    \/ \E b \in Blinks : mp1_ioctl_add(b)
    \/ \E loc \in Locations : mp1_ioctl_remove(loc)
    \/ \E loc \in Locations : mp1_ioctl_find(loc)
    \/ \E src, dst \in Locations : mp1_ioctl_sync(src, dst)
    \/ mp1_rtc_tasklet

BlinkSpec == BlinkInit /\ [][BlinkNext]_blinkVars

-------------------------------------------------------------------------------
\* However characters are added and removed, the list ends, passes each structure once,
\* and holds exactly those that are not free: none leaks and none is given out twice.
ListIsAllocated ==
    /\ Len(List) <= SLOTS
    /\ {List[j] : j \in 1..Len(List)} = {s \in Slots : blink_array[s].location # 0}
    /\ \A j, m \in 1..Len(List) : List[j] = List[m] => j = m

\* The countdown of a listed structure is never longer than the phase it is in, and never
\* used up, also after it took its phase from another: decw does not pass zero, and no
\* phase outlasts its length (one longer than a signed word holds ends at once).
CountdownInPhase ==
    \A j \in 1..Len(List) :
        LET b == blink_array[List[j]] IN
        b.countdown \in 1..(IF b.status = 1 THEN b.on_length ELSE b.off_length)

\* A cell with one structure on it shows the character of the phase that one is in,
\* whatever the screen showed before and whatever was added, removed and synchronised.
\* The one exception is a synchronisation with an on phase, after which the cell shows the
\* off character until that phase ends: testb leaves cmovl nothing to move on.
PhaseShown ==
    \A j \in 1..Len(List) :
        LET b == blink_array[List[j]]
            on == b.status = 1 /\ b.location \notin dark IN
        b.location \in sole => vmem[b.location] = IF on THEN b.on_char ELSE b.off_char

===============================================================================
