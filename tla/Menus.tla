------------------------------- MODULE Menus --------------------------------
(***************************************************************************)
(* The navigation menu (src/src/context/menus).  The menus are sown by     *)
(* SQL, which also switches them on and off; the API shows the active ones *)
(* as a tree and changes only the mark of a new one.                       *)
(*                                                                         *)
(* A table holds the menus the constraints of 04-menus.sql let in.  The    *)
(* tree is built in one pass over the active menus, which looks at each    *)
(* menu and at its parent.  Titles, icons, addresses and codes are carried *)
(* along and decide nothing but the order of menus that share theirs.      *)
(***************************************************************************)
EXTENDS Naturals, Sequences, SequencesExt

CONSTANTS
  Menu,   \* the ids, numbers in the order of the titles, which are
          \* taken to differ
  Order,  \* values of menu_order
  NoParent

ASSUME MenuAssumption ==
  Menu \subseteq Nat /\ IsFiniteSet(Menu) /\ Order \subseteq Nat /\ NoParent \notin Menu

VARIABLES
  menu,   \* the table, without the mark
  isNew   \* the mark

menusVars == <<menu, isNew>>

-----------------------------------------------------------------------------
MenuType == {"PRIMARY", "SECONDARY", "TERTIARY"}

\* fk_menu_parent, ck_menu_root_is_primary (Menu.ensureRootIsPrimary asks the
\* same again).
MenuRow ==
  {r \in [parent : Menu \cup {NoParent}, type : MenuType, order : Order, isActive : BOOLEAN] :
     (r.parent = NoParent) <=> (r.type = "PRIMARY")}

ExpectedParentType(type) ==
  CASE type = "SECONDARY" -> "PRIMARY"
    [] type = "TERTIARY" -> "SECONDARY"

Active == {m \in Menu : menu[m].isActive}

\* ORDER BY menu_order, title.
ComesFirst(m, n) ==
  \/ menu[m].order < menu[n].order
  \/ menu[m].order = menu[n].order /\ m < n

\* The menus of S in that order.
Sorted(S) == CHOOSE s \in SetToSeqs(S) : IsSorted(s, ComesFirst)

\* findAllActive.
AllActive == Sorted(Active)

(***************************************************************************)
(* MenuTreeBuilder.build: the roots, and the items of each menu; or the    *)
(* error that a menu hangs from one of the wrong type.                     *)
(***************************************************************************)

Bare == [error |-> FALSE, roots |-> <<>>, items |-> [m \in Menu |-> <<>>]]

Orphan(m) == menu[m].parent \notin Active

\* Mutant of Hang: what has lost its parent is a root.
HangLoose(tree, m) ==
  IF menu[m].parent = NoParent \/ Orphan(m) THEN [tree EXCEPT !.roots = Append(@, m)]
  ELSE IF menu[menu[m].parent].type # ExpectedParentType(menu[m].type)
       THEN [tree EXCEPT !.error = TRUE]
  ELSE [tree EXCEPT !.items[menu[m].parent] = Append(@, m)]

Hang(tree, m) ==
  IF menu[m].parent = NoParent THEN [tree EXCEPT !.roots = Append(@, m)]
  ELSE IF Orphan(m) THEN tree
  ELSE IF menu[menu[m].parent].type # ExpectedParentType(menu[m].type)
       THEN [tree EXCEPT !.error = TRUE]
  ELSE [tree EXCEPT !.items[menu[m].parent] = Append(@, m)]

Build == FoldLeft(Hang, Bare, AllActive)

\* PATCH /menus/:id/is-new: nothing but the mark is written, whatever it was.
UpdateIsNew(m, value) ==
  /\ isNew' = [isNew EXCEPT ![m] = value]
  /\ UNCHANGED menu

\* By hand, on the database.
SwitchBySql(m) ==
  /\ menu' = [menu EXCEPT ![m].isActive = ~@]
  /\ UNCHANGED isNew

-----------------------------------------------------------------------------
MenusInit ==
  /\ menu \in [Menu -> MenuRow]
  /\ isNew = [m \in Menu |-> TRUE]

MenusNext ==
  \E m \in Menu : (\E value \in BOOLEAN : UpdateIsNew(m, value)) \/ SwitchBySql(m)

MenusSpec == MenusInit /\ [][MenusNext]_menusVars

-----------------------------------------------------------------------------
(***************************************************************************)
(* Properties.                                                             *)
(***************************************************************************)

\* Type correctness of the table and of the marks.
MenusTypeOK ==
  /\ menu \in [Menu -> MenuRow]
  /\ isNew \in [Menu -> BOOLEAN]

Siblings(parent) == {m \in Active : menu[m].parent = parent}

Hanging(tree, S) == S \cup UNION {ToSet(tree.items[m]) : m \in S}

\* Menus of which every ancestor is active too, by the depth three the types
\* allow.
Visible ==
  {m \in Active :
     LET up == menu[m].parent IN
       \/ up = NoParent
       \/ up \in Active /\ menu[up].parent \in Active \cup {NoParent}}

Misplaced(m) ==
  menu[m].parent \in Active /\
    <<menu[menu[m].parent].type, menu[m].type>>
      \notin {<<"PRIMARY", "SECONDARY">>, <<"SECONDARY", "TERTIARY">>}

\* The one pass, which looks no further than the parent, shows exactly the
\* active menus none of whose ancestors is switched off, each under its parent
\* and its siblings in order; switching a branch off takes all of it along and
\* leaves none of it loose in the sidebar.  A menu hung from one of the wrong
\* type stops the whole tree exactly when both are active, even where an
\* inactive ancestor hides them (MenuTreeBuilder.build).
TreeIsWhatIsVisible ==
  LET tree == Build
      shown == Hanging(tree, Hanging(tree, ToSet(tree.roots)))
  IN IF \E m \in Active : Misplaced(m) THEN tree.error ELSE
       /\ ~tree.error
       /\ shown = Visible
       /\ tree.roots = Sorted(Siblings(NoParent))
       /\ \A m \in shown : tree.items[m] = Sorted(Siblings(m))

=============================================================================
