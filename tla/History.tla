-------------------------------- MODULE History --------------------------------
(***************************************************************************)
(* The histories of liflines/browse.c, of the records visited and of the   *)
(* persons changed: circular buffers of keys that the browse screens fill, *)
(* that the user walks back and forth, picks from and clears, and that the *)
(* database keeps from one program to the next.  The two know nothing of   *)
(* each other: the model follows one of them, which.                       *)
(***************************************************************************)
EXTENDS Integers, Sequences, FiniteSets, SequencesExt, FiniteSetsExt

CONSTANTS Key,        \* the keys of records
          Person,     \* those of persons
          NoKey,      \* a cell of a buffer without a key, or no record
          Options     \* what a program can be started with

(* init_hist_lists does not take more from the options, nor less than none.  *)
MaxHistorySize == 9999

ASSUME HistoryAssumption ==
    /\ Person \subseteq Key /\ NoKey \notin Key
    /\ \A o \in Options : /\ o.HistorySize \in 0..MaxHistorySize
                          /\ o.HistoryBounceSuppress \in Int
                          /\ {o.SaveHistory, o.readonly} \subseteq BOOLEAN

VARIABLES which,      \* "visited" or "changed"
          histp,      \* the buffer
          options,    \* those of the program that runs
          stored,     \* keys of the records in the database
          at,         \* "top" of the loop of a screen, "ask" for a command, "other": elsewhere
          shown,      \* the record on the screen, or NoKey
          saved,      \* the record HISTV or HISTC
          dead        \* an ASSERT failed

vars == <<which, histp, options, stored, at, shown, saved, dead>>

-----------------------------------------------------------------------------
(* The buffer: start is its earliest entry, past_end just beyond the latest; *)
(* start is -1 if there are none, and the buffer is full if they are equal.  *)

Empty(size) == [start |-> -1, past_end |-> 0, size |-> size, list |-> [n \in 0..size - 1 |-> NoKey]]

get_hist_count(h) ==
    IF h.size = 0 \/ h.start = -1 THEN 0
    ELSE IF h.past_end > h.start THEN h.past_end - h.start
    ELSE h.size - h.start + h.past_end

Up(h, n) == (n + 1) % h.size
Down(h, n) == IF n = 0 THEN h.size - 1 ELSE n - 1

(* The cells from one on, so many, around the end of the buffer.             *)
Cells(h, from, count) == [n \in 1..count |-> h.list[(from + n - 1) % h.size]]

(* How far back a record may be for it not to be recorded again.             *)
Protect(h, wanted) ==
    Min({IF wanted < 1 \/ wanted > 99 THEN 1 ELSE wanted, get_hist_count(h)})

Recent(h, protect) == {h.list[(h.past_end + h.size - n) % h.size] : n \in 1..protect}

PushedMutant(h, k) ==
    [h EXCEPT !.list[h.past_end] = k, !.past_end = Up(h, @),
              !.start = IF @ = -1 THEN h.past_end ELSE @]
Pushed(h, k) ==
    [h EXCEPT !.list[h.past_end] = k, !.past_end = Up(h, @),
              !.start = IF @ = -1 THEN h.past_end ELSE IF @ = h.past_end THEN Up(h, @) ELSE @]

history_record(h, k) ==
    IF h.size = 0 \/ (h.start # -1 /\ k \in Recent(h, Protect(h, options.HistoryBounceSuppress)))
    THEN h ELSE Pushed(h, k)

(* The walk back from the latest entry, which is passed over first: over the *)
(* deleted ones to a record, or to none.                                     *)
Behind(h) ==
    LET last == Down(h, h.past_end)
        entries == get_hist_count(h)
    IN {n \in 1..entries - 1 : h.list[(last + h.size - n) % h.size] \in stored}

BackTo(h) == [h EXCEPT !.past_end = (Down(h, @) + h.size - Min(Behind(h)) + 1) % h.size]

(* The record that the latest entry is of. *)
Latest(h) == h.list[Down(h, h.past_end)]

(* history_fwd also reads cells that were never written, or not lately.      *)
Ahead(h) ==
    IF h.size = 0 \/ h.past_end = h.start \/ h.list[h.past_end] \notin stored THEN NoKey
    ELSE h.list[h.past_end]

(* get_history_list: the records that are left of the entries, to choose one *)
(* from; none if there are no entries.                                       *)
Listing(h) == ToSet(Cells(h, h.start, get_hist_count(h))) \cap stored
HasEntries(h) == h.size # 0 /\ h.start # -1

(* save_nkey_list counts the entries and walks until it meets past_end.      *)
SavedList(h) == Cells(h, h.start, get_hist_count(h))

(* load_nkey_list takes the first entries, the oldest, if there is not room. *)
Loaded(size, entries) ==
    LET count == Min({Len(entries), size})
    IN IF count = 0 THEN Empty(size)
       ELSE [Empty(size) EXCEPT !.start = 0, !.past_end = count % size,
                                !.list = [n \in 0..size - 1 |-> IF n < count THEN entries[n + 1] ELSE NoKey]]

-----------------------------------------------------------------------------

Init ==
    /\ which \in {"visited", "changed"}
    /\ options \in Options
    /\ histp = Empty(options.HistorySize)
    /\ stored = Key
    /\ at = "other" /\ shown = NoKey
    /\ saved = <<>> /\ dead = FALSE

Alive == ~dead
Screen(k) == shown' = k /\ at' = "top" /\ UNCHANGED <<which, options, stored, saved, dead>>

(* A screen of a person, family, source, event or other record comes up, or  *)
(* the next record on it, by whatever command leads there; or the same again.*)
Browse(k) == Alive /\ at # "top" /\ k \in stored /\ Screen(k) /\ UNCHANGED histp

(* The top of the loop of each such screen; then it waits for a command.     *)
TopMutant ==
    /\ Alive /\ at = "top"
    /\ histp' = IF which = "visited" /\ histp.start = -1 THEN history_record(histp, shown) ELSE histp
    /\ at' = "ask"
    /\ UNCHANGED <<which, options, stored, shown, saved, dead>>
Top ==
    /\ Alive /\ at = "top"
    /\ histp' = IF which = "visited" THEN history_record(histp, shown) ELSE histp
    /\ at' = "ask"
    /\ UNCHANGED <<which, options, stored, shown, saved, dead>>

(* A screen is left for the main menu, a list or a screen of two records.    *)
Leave ==
    /\ Alive /\ at = "ask"
    /\ at' = "other" /\ shown' = NoKey
    /\ UNCHANGED <<which, histp, options, stored, saved, dead>>

(* edit_indi, when the user has changed the person and confirms it: from the *)
(* screen of the person, or from that of two persons.                        *)
EditIndi(k) ==
    /\ Alive /\ ~options.readonly /\ k \in Person \cap stored
    /\ \/ at = "ask" /\ k = shown /\ at' = "top"
       \/ at = "other" /\ UNCHANGED at
    /\ histp' = IF which = "changed" THEN history_record(histp, k) ELSE histp
    /\ UNCHANGED <<which, options, stored, shown, saved, dead>>

(* CMD_VHISTORY_BACK or CMD_CHISTORY_BACK: without a record to go back to    *)
(* the screen stays.                                                         *)
HistoryBack ==
    /\ Alive /\ at = "ask"
    /\ IF HasEntries(histp) /\ Behind(histp) # {}
       THEN histp' = BackTo(histp) /\ Screen(Latest(histp'))
       ELSE UNCHANGED histp /\ Screen(shown)

HistoryFwd ==
    /\ Alive /\ at = "ask"
    /\ Screen(IF Ahead(histp) # NoKey THEN Ahead(histp) ELSE shown)
    /\ UNCHANGED histp

(* An entry is chosen from a list.  A list that has lost all its records is  *)
(* shown too, and to choose from it ends the program.                        *)
Die == dead' = TRUE /\ UNCHANGED <<which, histp, options, stored, at, shown, saved>>

HistoryList ==
    /\ Alive /\ at = "ask" /\ HasEntries(histp)
    /\ \/ Listing(histp) = {} /\ Die
       \/ \E k \in Listing(histp) : Screen(k) /\ UNCHANGED histp

(* Where any command asks for a record, the user may look for it in a        *)
(* history; when a record is found there it does with it what Browse and     *)
(* EditIndi do.                                                              *)
Search == Alive /\ at # "top" /\ HasEntries(histp) /\ Listing(histp) = {} /\ Die

(* ask_clear_history leaves the entries, and past_end, where they are.       *)
ClearHistory ==
    /\ Alive /\ at = "ask" /\ HasEntries(histp)
    /\ histp' = [histp EXCEPT !.start = -1]
    /\ Screen(shown)

(* Records come and go while no screen shows one of them; a key that was     *)
(* freed is used again.                                                      *)
Delete(k) ==
    /\ Alive /\ at = "other" /\ ~options.readonly /\ k \in stored
    /\ stored' = stored \ {k}
    /\ UNCHANGED <<which, histp, options, at, shown, saved, dead>>

Create(k) ==
    /\ Alive /\ at # "top" /\ ~options.readonly /\ k \notin stored
    /\ stored' = stored \cup {k}
    /\ UNCHANGED <<which, histp, options, at, shown, saved, dead>>

(* init_browse_module of the next program.                                   *)
Start(entries, o) ==
    /\ options' = o
    /\ histp' = IF o.SaveHistory THEN Loaded(o.HistorySize, entries) ELSE Empty(o.HistorySize)
    /\ at' = "other" /\ shown' = NoKey /\ dead' = FALSE
    /\ UNCHANGED <<which, stored>>

(* term_browse_module, when the program ends from its main menu.             *)
Quit ==
    /\ Alive /\ at = "other"
    /\ saved' = IF options.SaveHistory /\ ~options.readonly THEN SavedList(histp) ELSE saved
    /\ \E o \in Options : Start(saved', o)

(* The program dies, then or earlier. *)
Crash == UNCHANGED saved /\ \E o \in Options : Start(saved, o)

Next ==
    \/ Top \/ Leave \/ HistoryBack \/ HistoryFwd \/ HistoryList \/ Search \/ ClearHistory
    \/ \E k \in Key : Browse(k) \/ EditIndi(k) \/ Delete(k) \/ Create(k)
    \/ Quit \/ Crash

Spec == Init /\ [][Next]_vars

-----------------------------------------------------------------------------
(* The records before past_end, and the cells from there around to the first *)
(* of them: what the buffer is as a tape.                                    *)
Past == Cells(histp, histp.start, get_hist_count(histp))
Rest == Cells(histp, histp.past_end, histp.size - get_hist_count(histp))

(* The buffers of a size: the ranges of the indices are those that the       *)
(* comment on struct hist gives.                                             *)
Hists(size) ==
    [start : -1..size - 1, past_end : 0..(IF size = 0 THEN 0 ELSE size - 1), size : {size},
     list : [0..size - 1 -> Key \cup {NoKey}]]

(* Indices, keys and options are of their kinds. *)
TypeOK ==
    /\ which \in {"visited", "changed"} /\ at \in {"top", "ask", "other"} /\ dead \in BOOLEAN
    /\ options \in Options /\ histp \in Hists(options.HistorySize)
    /\ stored \subseteq Key /\ shown \in Key \cup {NoKey}
    /\ saved \in Seq(Key)

Tape == INSTANCE Trail WITH past <- Past, rest <- Rest, kept <- saved,
                            Sizes <- {o.HistorySize : o \in Options}

(* The circular buffer with its two indices, the full and the empty one told *)
(* apart by start, is the tape of Trail: recording, going back over deleted  *)
(* records, clearing, and a saved history that another size cuts off never   *)
(* lose or swap an entry, and going forward leads over what was gone back    *)
(* over (browse.c, struct hist and the functions on it).                     *)
ImplementsTrail == Tape!Spec

(* While a screen waits for a command, its record is in the history of the   *)
(* visited ones, whatever was suppressed, cleared or gone back over: so that *)
(* list is never without a record, and choosing from it is safe there.  The  *)
(* assertion that a list without records runs into (get_indiseq_ival) is met *)
(* only in the history of changes or outside of these screens.               *)
ShownIsListed ==
    which = "visited" /\ at = "ask" /\ options.HistorySize > 0 =>
        shown \in Listing(histp) /\ ~dead
=============================================================================
