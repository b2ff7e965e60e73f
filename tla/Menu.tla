----------------------------------- MODULE Menu -----------------------------------
(***************************************************************************)
(* The menu a branch sells from: MenuService (browse groups, modifier      *)
(* groups and what an item is assigned), RecipesService.setRecipe, and     *)
(* the cost OrdersService works out of the recipe for a line it sells.     *)
(*                                                                         *)
(* A request is a sequence of single database calls; the two replacements  *)
(* (of an item's modifier groups, of its recipe) are transactions that     *)
(* delete what they see and insert anew, at the isolation the database     *)
(* has by default: the rows of another one that commits in between are     *)
(* neither seen nor deleted.  One menu item; names, prices, servings and   *)
(* the order of things are left out.                                       *)
(***************************************************************************)
EXTENDS Naturals, Sequences, FiniteSets, FiniteSetsExt

CONSTANTS
    Shelves,        \* browse groups, with one subgroup each, named alike
    Groups,         \* modifier groups, with one option each
    Limits,         \* values of min and max; 0 is no limit
    Recipes,        \* what setRecipe is given: the costs of base and of option
    Requests,       \* requests in progress at a time
    None,
    MaxLines, MaxArrivals, MaxCrashes   \* bounds

VARIABLES
    bounds,         \* min and max of each modifier group
    shelf, sub,     \* browseGroupId and browseSubgroupId of the item
    links,          \* its menu_item_on_groups rows
    ingredients,    \* its recipe_ingredients rows; by tells the request that wrote them
    lines,          \* the costs of the lines sold
    chosen,         \* the modifier groups last assigned
    regrouped,      \* whether the group was changed, and the subgroup left, since
                    \* a subgroup was given
    emptied,        \* whether a recipe without base was ever asked for
    crossed,        \* what two requests were at work on at once
    req,            \* req[r]: the request's next call and what it carries
    arrived, crashes

rows == <<bounds, shelf, sub, links, ingredients, lines>>
history == <<chosen, regrouped, emptied>>
vars == <<rows, history, crossed, req, arrived, crashes>>

PC == {"idle", "bounds", "shelf", "unlink", "link", "clear", "fill", "base", "option", "line"}

Idle == [pc |-> "idle", about |-> <<"none", None>>, arg |-> None, seen |-> {}, cost |-> 0, known |-> FALSE]

TypeOK ==
    /\ bounds \in [Groups -> [min : Limits, max : Limits]]
    /\ shelf \in Shelves \cup {None} /\ sub \in Shelves \cup {None}
    /\ links \subseteq Groups /\ chosen \subseteq Groups
    /\ \A i \in ingredients :
           i.by \in 1..MaxArrivals /\ i.kind \in {"base", "option"} /\ i.cost \in Nat \ {0}
    /\ lines \in Seq([cost : Nat, known : BOOLEAN]) /\ Len(lines) <= MaxLines
    /\ regrouped \in BOOLEAN /\ emptied \in BOOLEAN
    /\ \A r \in Requests : req[r].pc \in PC
    /\ arrived \in 0..MaxArrivals /\ crashes \in 0..MaxCrashes

Init ==
    /\ bounds = [g \in Groups |-> [min |-> 0, max |-> 0]]
    /\ shelf = None /\ sub = None
    /\ links = {} /\ ingredients = {} /\ lines = <<>>
    /\ chosen = {} /\ regrouped = FALSE /\ emptied = FALSE
    /\ crossed = {}
    /\ req = [r \in Requests |-> Idle]
    /\ arrived = 0 /\ crashes = 0

-----------------------------------------------------------------------------
(* Building blocks                                                         *)

Sells(pc) == pc \in {"base", "option", "line"}

\* The request starts at d; two sales do not cross each other.
Start(r, d) ==
    /\ req[r].pc = "idle"
    /\ arrived < MaxArrivals
    /\ arrived' = arrived + 1
    /\ req' = [req EXCEPT ![r] = d]
    /\ crossed' = IF \E q \in Requests \ {r} :
                         req[q].about = d.about /\ ~(Sells(req[q].pc) /\ Sells(d.pc))
                  THEN crossed \cup {d.about} ELSE crossed
    /\ UNCHANGED <<rows, crashes>>

Goto(r, d) == req' = [req EXCEPT ![r] = d] /\ UNCHANGED <<rows, history, crossed, arrived, crashes>>

Finish(r) == req' = [req EXCEPT ![r] = Idle] /\ UNCHANGED <<crossed, arrived, crashes>>

-----------------------------------------------------------------------------
(* updateModifierGroup                                                     *)

Consistent(b) == b.min > 0 /\ b.max > 0 => b.min <= b.max

\* Mutant: only the value that is given is looked at.
BoundsReadGiven(r, g, field, n) ==
    /\ Start(r, [Idle EXCEPT !.pc = "bounds", !.about = <<"bounds", g>>, !.arg = <<field, n>>])
    /\ UNCHANGED history

\* The value given is checked with the one that is stored.
BoundsRead(r, g, field, n) ==
    /\ Consistent([bounds[g] EXCEPT ![field] = n])
    /\ Start(r, [Idle EXCEPT !.pc = "bounds", !.about = <<"bounds", g>>, !.arg = <<field, n>>])
    /\ UNCHANGED history

\* Only the value given is written.
SaveBounds(r) ==
    /\ req[r].pc = "bounds"
    /\ bounds' = [bounds EXCEPT ![req[r].about[2]][req[r].arg[1]] = req[r].arg[2]]
    /\ Finish(r)
    /\ UNCHANGED <<shelf, sub, links, ingredients, lines, history>>

-----------------------------------------------------------------------------
(* assignItemBrowse: a group, a subgroup or both; "null" takes one off     *)

\* Mutant: a subgroup given alone is not compared with the item's group.
ShelfReadAny(r, g, s) ==
    /\ <<g, s>> # <<"same", "same">>
    /\ s \in Shelves => g # None
    /\ Start(r, [Idle EXCEPT !.pc = "shelf", !.about = <<"shelf", None>>, !.arg = <<g, s>>])
    /\ UNCHANGED history

\* g and s are what is given, "same" if nothing.  The subgroup must belong to
\* the group given, or else to the item's; a null group falls back to it too.
ShelfRead(r, g, s) ==
    /\ <<g, s>> # <<"same", "same">>
    /\ s \in Shelves => s = (IF g \in Shelves THEN g ELSE shelf)
    /\ Start(r, [Idle EXCEPT !.pc = "shelf", !.about = <<"shelf", None>>, !.arg = <<g, s>>])
    /\ UNCHANGED history

\* A null group takes the subgroup off as well, unless one is given.
SaveShelf(r) ==
    LET g == req[r].arg[1]
        s == req[r].arg[2]
    IN
    /\ req[r].pc = "shelf"
    /\ shelf' = IF g = "same" THEN shelf ELSE g
    /\ sub' = IF s # "same" THEN s ELSE IF g = None THEN None ELSE sub
    /\ regrouped' = (sub' # None /\ IF s = "same" THEN regrouped \/ g \in Shelves ELSE g = None)
    /\ Finish(r)
    /\ UNCHANGED <<bounds, links, ingredients, lines, chosen, emptied>>

-----------------------------------------------------------------------------
(* assignItemModifierGroups                                                *)

AssignGroups(r, gs) ==
    /\ Start(r, [Idle EXCEPT !.pc = "unlink", !.about = <<"links", None>>, !.arg = gs])
    /\ UNCHANGED history

\* Mutant: the rows of before are left.
UnlinkNone(r) == req[r].pc = "unlink" /\ Goto(r, [req[r] EXCEPT !.pc = "link"])

\* deleteMany; nobody else sees it yet.
Unlink(r) ==
    /\ req[r].pc = "unlink"
    /\ Goto(r, [req[r] EXCEPT !.pc = "link", !.seen = links])

\* createMany and the commit.  The unique (itemId, groupId) refuses a row that
\* another transaction left.
Link(r) ==
    LET left == links \ req[r].seen
    IN
    /\ req[r].pc = "link"
    /\ IF left \cap req[r].arg = {}
       THEN links' = left \cup req[r].arg /\ chosen' = req[r].arg
       ELSE UNCHANGED <<links, chosen>>
    /\ Finish(r)
    /\ UNCHANGED <<bounds, shelf, sub, ingredients, lines, regrouped, emptied>>

-----------------------------------------------------------------------------
(* setRecipe                                                               *)

\* Options are checked to exist, not to be of a group of the item.
SetRecipe(r, c) ==
    /\ Start(r, [Idle EXCEPT !.pc = "clear", !.about = <<"recipe", None>>, !.arg = c, !.cost = arrived + 1])
    /\ emptied' = (emptied \/ c.base = 0)
    /\ UNCHANGED <<chosen, regrouped>>

\* Mutant: the rows are deleted ahead of the transaction.
ClearNow(r) ==
    /\ req[r].pc = "clear"
    /\ req' = [req EXCEPT ![r].pc = "fill"]
    /\ ingredients' = {}
    /\ UNCHANGED <<bounds, shelf, sub, links, lines, history, crossed, arrived, crashes>>

\* deleteMany, in the transaction.
Clear(r) ==
    /\ req[r].pc = "clear"
    /\ Goto(r, [req[r] EXCEPT !.pc = "fill", !.seen = ingredients])

\* The creates and the commit.
Fill(r) ==
    /\ req[r].pc = "fill"
    /\ ingredients' = (ingredients \ req[r].seen) \cup
           {i \in [by : {req[r].cost}, kind : {"base", "option"}, cost : {req[r].arg.base, req[r].arg.option}] :
                i.cost = req[r].arg[i.kind] /\ i.cost > 0}
    /\ Finish(r)
    /\ UNCHANGED <<bounds, shelf, sub, links, lines, history>>

-----------------------------------------------------------------------------
(* addOrderItem: the cost computeLinePricing snapshots on the line         *)

Cost(kind) == MapThenSumSet(LAMBDA i : i.cost, {i \in ingredients : i.kind = kind})

\* arg is whether an option is ordered with it; a sale knows the recipe if the
\* item had one as it began.
Sell(r, withOption) ==
    /\ Len(lines) < MaxLines
    /\ Start(r, [Idle EXCEPT !.pc = "base", !.about = <<"recipe", None>>, !.arg = withOption,
                             !.known = Cost("base") > 0])
    /\ UNCHANGED history

\* Without a base the option's ingredients are not read.
ReadBase(r) ==
    /\ req[r].pc = "base"
    /\ Goto(r, [req[r] EXCEPT !.pc = IF req[r].arg /\ Cost("base") > 0 THEN "option" ELSE "line",
                              !.cost = Cost("base")])

ReadOption(r) ==
    /\ req[r].pc = "option"
    /\ Goto(r, [req[r] EXCEPT !.pc = "line", !.cost = @ + Cost("option")])

InsertLine(r) ==
    /\ req[r].pc = "line"
    /\ Len(lines) < MaxLines
    /\ lines' = Append(lines, [cost |-> req[r].cost, known |-> req[r].known])
    /\ Finish(r)
    /\ UNCHANGED <<bounds, shelf, sub, links, ingredients, history>>

-----------------------------------------------------------------------------

\* An open transaction is rolled back.
Crash(r) ==
    /\ req[r].pc # "idle"
    /\ crashes < MaxCrashes
    /\ crashes' = crashes + 1
    /\ req' = [req EXCEPT ![r] = Idle]
    /\ UNCHANGED <<rows, history, crossed, arrived>>

Arrive(r) ==
    \/ \E g \in Groups, field \in {"min", "max"}, n \in Limits : BoundsRead(r, g, field, n)
    \/ \E g, s \in Shelves \cup {None, "same"} : ShelfRead(r, g, s)
    \/ \E gs \in SUBSET Groups : AssignGroups(r, gs)
    \/ \E c \in Recipes : SetRecipe(r, c)
    \/ \E withOption \in BOOLEAN : Sell(r, withOption)

Proceed(r) ==
    \/ SaveBounds(r) \/ SaveShelf(r)
    \/ Unlink(r) \/ Link(r) \/ Clear(r) \/ Fill(r)
    \/ ReadBase(r) \/ ReadOption(r) \/ InsertLine(r)

Next == \E r \in Requests : Arrive(r) \/ Proceed(r) \/ Crash(r)

Spec == Init /\ [][Next]_vars

-----------------------------------------------------------------------------
(* What must hold.                                                         *)

\* "min cannot exceed max", although a request gives one of them and the other
\* is the row's: unless two requests change the group at once.
BoundsKept == \A g \in Groups : <<"bounds", g>> \notin crossed => Consistent(bounds[g])

\* "Subgroup does not belong to the specified browse group": an item is in a
\* subgroup of its own group, whatever combination of the two is given and in
\* whatever order, unless the group alone was changed under the subgroup, a
\* subgroup was given with a null group, or two assignments crossed.
ShelfKept == <<"shelf", None>> \notin crossed /\ ~regrouped => sub \in {None, shelf}

\* Unless two assignments crossed, the item has the modifier groups it was
\* assigned last, whoever died on the way.
LinksKept == <<"links", None>> \notin crossed => links = chosen

\* A line sold when the item had a recipe has a cost, whatever replacement of
\* the recipe is under way or died; and unless requests crossed, the cost is
\* that of one recipe: its base, with its option or without.
CostsWhole ==
    \A l \in DOMAIN lines :
        /\ lines[l].known /\ ~emptied => lines[l].cost > 0
        /\ <<"recipe", None>> \notin crossed =>
               \/ lines[l].cost = 0
               \/ \E c \in Recipes : lines[l].cost \in {c.base, c.base + c.option}

\* The menu as a whole.
MenuAgrees == BoundsKept /\ ShelfKept /\ LinksKept /\ CostsWhole

=============================================================================
