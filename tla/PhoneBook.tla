------------------------------ MODULE PhoneBook ------------------------------
(***************************************************************************)
(* ledward6_phone_directory.c: a directory in an array, with a quick sort  *)
(* that draws its pivots and a binary search.  A name is a pair, the first *)
(* and the last name; names and numbers are compared as naturals.          *)
(***************************************************************************)
EXTENDS Integers, SequencesExt

CONSTANTS Lists,    \* the contacts of the input file, in its order
          Names, Phones,
          Draws,    \* what rand returns for each part of the array in a sort
          MaxSize   \* bound: contacts in the directory

Contacts == [name : Names, phone_number : Phones]

\* start and end of a part; a sort comes to a part with two contacts once at most.
Parts == (1 .. MaxSize) \X (1 .. MaxSize)

ASSUME NamesAssumption == Names \subseteq Nat \X Nat
ASSUME PhonesAssumption == Phones \subseteq Nat
ASSUME SizeAssumption == MaxSize \in Nat
ASSUME ListsAssumption == Lists \subseteq {s \in Seq(Contacts) : Len(s) <= MaxSize}
ASSUME DrawsAssumption == Draws \subseteq [Parts -> Nat]

VARIABLES menu,     \* start, or what was done last: create, sort, search, delete, insert
          contents, \* contents[0 .. size - 1], from 1 on here
          index,    \* the result of the last search
          wanted,   \* the name that was searched for
          sorted,   \* history: the array has been sorted since it was filled
          before    \* history: contents before the last choice

phoneVars == <<menu, contents, index, wanted, sorted, before>>

NoName == <<0, 0>>

PhoneInit == /\ menu = "start"
             /\ contents = <<>>
             /\ index = -1
             /\ wanted = NoName
             /\ sorted = FALSE
             /\ before = <<>>

\* strcmp on the first names, the last names and, to sort, the numbers.
NameLess(m, n) == m[1] < n[1] \/ (m[1] = n[1] /\ m[2] < n[2])
_compare_contacts(c, d, should_check_phone) ==
    IF NameLess(c.name, d.name) THEN -1
    ELSE IF NameLess(d.name, c.name) THEN 1
    ELSE IF should_check_phone = 1 THEN c.phone_number - d.phone_number ELSE 0

_swap_contact(s, x, y) == [s EXCEPT ![x] = s[y], ![y] = s[x]]

\* passed[k]: the array and pIndex after the first k contacts of the part
_do_partition(s, start, end) ==
    LET passed[k \in 0 .. end - start] ==
          IF k = 0 THEN [s |-> s, pIndex |-> start]
          ELSE LET acc == passed[k - 1]
               IN  IF _compare_contacts(acc.s[start + k - 1], s[end], 1) < 1
                   THEN [s |-> _swap_contact(acc.s, start + k - 1, acc.pIndex), pIndex |-> acc.pIndex + 1]
                   ELSE acc
        last == passed[end - start]
    IN  [s |-> _swap_contact(last.s, last.pIndex, end), pIndex |-> last.pIndex]

\* srand(time(NULL)) comes before every rand: calls within a second draw the
\* same number, and the second may end between any two calls.
_get_random(start, range, drawn) == (drawn % (range - start)) + start

\* The calls of quick_sort on an array of n contacts: the array, start and end
Calls(n) == [1 .. n -> Contacts] \X (1 .. n + 1) \X (0 .. n)

_quick_sort(s, rand) ==
    LET quick[call \in Calls(Len(s))] ==
          LET start == call[2]
              end == call[3]
              rand_no == _get_random(start, end + 1, rand[<<start, end>>])
              part == _do_partition(_swap_contact(call[1], rand_no, end), start, end)
              lower == quick[<<part.s, start, part.pIndex - 1>>]
          IN  IF start >= end THEN call[1] ELSE quick[<<lower, part.pIndex + 1, end>>]
    IN  quick[<<s, 1, Len(s)>>]

sort_contact(s, rand) == IF Len(s) < 2 THEN s ELSE _quick_sort(s, rand)

\* A round of the loop of _binary_search; status is what it returns.
Halve(s, target, range) ==
    LET mid == range.start + (range.end - range.start) \div 2
        comp == _compare_contacts(s[mid], target, 0)
    IN  IF range.status > 0 \/ range.start > range.end THEN range
        ELSE IF comp = 0 THEN [range EXCEPT !.status = mid]
        ELSE IF comp < 0 THEN [range EXCEPT !.start = mid + 1]
        ELSE [range EXCEPT !.end = mid - 1]

\* A round leaves a smaller range, so that Len(s) of them are enough.
_binary_search(s, target) ==
    LET range[n \in 0 .. Len(s)] ==
          IF n = 0 THEN [start |-> 1, end |-> Len(s), status |-> -1]
          ELSE Halve(s, target, range[n - 1])
    IN  range[Len(s)].status

search_contact(name) == _binary_search(contents, [name |-> name, phone_number |-> 0])

----------------------------------------------------------------------------
\* main reads the file and does not sort what it has read.
create(list) == /\ menu = "start"
                /\ menu' = "create"
                /\ contents' = list
                /\ before' = list
                /\ UNCHANGED <<index, wanted, sorted>>

\* The choices of show_menu.
Choose(choice) == /\ menu # "start"
                  /\ menu' = choice
                  /\ before' = contents

ChooseSort(rand) == /\ Choose("sort")
                    /\ contents' = sort_contact(contents, rand)
                    /\ sorted' = TRUE
                    /\ UNCHANGED <<index, wanted>>

ChooseSearch(name) == /\ Choose("search")
                      /\ index' = search_contact(name)
                      /\ wanted' = name
                      /\ UNCHANGED <<contents, sorted>>

\* Mistaken variant: the array is not sorted after the exchange.
delete_contact_unsorted(i, rand) == contents' = Front(_swap_contact(contents, i, Len(contents)))

\* The last contact takes the place of the one that was found.
delete_contact(i, rand) ==
    contents' = sort_contact(Front(_swap_contact(contents, i, Len(contents))), rand)

ChooseDelete(name, rand) ==
    /\ Choose("delete")
    /\ index' = search_contact(name)
    /\ wanted' = name
    /\ IF index' < 0 THEN UNCHANGED <<contents, sorted>>
       ELSE /\ delete_contact(index', rand)
            /\ sorted' = TRUE

\* The number goes into the line that is shown, and phone_number, by which
\* namesakes are sorted, is left as malloc returned it.
insert_contact(name, junk, rand) ==
    /\ Choose("insert")
    /\ Len(contents) < MaxSize
    /\ contents' = sort_contact(Append(contents, [name |-> name, phone_number |-> junk]), rand)
    /\ wanted' = name
    /\ sorted' = TRUE
    /\ UNCHANGED index

PhoneNext == \/ menu = "start" /\ \E list \in Lists : create(list)
             \/ \E rand \in Draws :
                  \/ ChooseSort(rand)
                  \/ \E name \in Names :
                       \/ ChooseDelete(name, rand)
                       \/ \E junk \in Phones : insert_contact(name, junk, rand)
             \/ \E name \in Names : ChooseSearch(name)

PhoneSpec == PhoneInit /\ [][PhoneNext]_phoneVars

----------------------------------------------------------------------------
Times(s, contact) == Cardinality({i \in DOMAIN s : s[i] = contact})
Named(s, name) == {i \in DOMAIN s : s[i].name = name}

ContactsInOrder(s) == \A i, j \in DOMAIN s : i < j => _compare_contacts(s[i], s[j], 1) < 1

\* The contacts that t has fewer times than s
Fewer(s, t) == {c \in ToSet(s) : Times(t, c) < Times(s, c)}

SearchIsRight == IF index < 0 THEN Named(contents, wanted) = {} ELSE index \in Named(contents, wanted)

OnlyTheChosenChange ==
    LET gone == Fewer(before, contents)
        new == Fewer(contents, before)
    IN  CASE menu = "insert" -> /\ gone = {}
                                /\ Len(contents) = Len(before) + 1
                                /\ \A c \in new : c.name = wanted
          [] menu = "delete" /\ index > 0 -> /\ new = {}
                                             /\ Len(contents) = Len(before) - 1
                                             /\ \A c \in gone : c.name = wanted
          [] OTHER -> gone = {} /\ new = {}

\* Every sort, whatever it draws, leaves an ordered array; a search of an
\* ordered array finds a name exactly when it is there; and no contact is lost
\* or doubled but the one that a choice removes or adds.
DirectoryIsKept == /\ sorted => ContactsInOrder(contents)
                   /\ sorted /\ menu = "search" => SearchIsRight
                   /\ OnlyTheChosenChange
=============================================================================
