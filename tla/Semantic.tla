-------------------------------- MODULE Semantic --------------------------------
(***************************************************************************)
(* Semantic observations as their readers see them (src/src/semantic.rs):  *)
(* the caller that is handed an observation, and the command line that is  *)
(* given one as text, which may hold anything.  An observation is a list   *)
(* of elements in a tree, good for a while.  The caller names an element   *)
(* by its tag and gets a target; the target is resolved, later and         *)
(* possibly in another observation, to the element that an action may be   *)
(* routed to.                                                              *)
(*                                                                         *)
(* number stands for what provenance_hash covers: the identifier, the      *)
(* generation, the origin and the times.  The elements are not covered.    *)
(***************************************************************************)
EXTENDS Naturals, Sequences, FiniteSets

CONSTANTS
  Id, Tag, Fingerprint,  \* identifiers, tags and fingerprints of elements
  Given,           \* the lists of elements that observations have
  Age,             \* stands for MAX_SEMANTIC_OBSERVATION_AGE_MS
  MaxTime,         \* bound on the time
  MaxHanded        \* bound on the observations that are handed over

(* steady: visible, enabled, unambiguous and stable.                       *)
Flag == {"steady", "invokable", "editable"}
Element == [tag : Tag, id : Id, parent : Id \union {"none"}, print : Fingerprint,
            flags : SUBSET Flag]

ASSUME SemanticAssumption ==
  /\ "none" \notin Id
  /\ Given \subseteq Seq(Element)
  /\ Age \in Nat \ {0} /\ MaxTime \in Nat \ {0} /\ MaxHanded \in Nat \ {0}

VARIABLES
  now,      \* the time
  handed,   \* how many observations were handed to the caller
  held,     \* the observation that it has
  target,   \* the target that it made of one
  named,    \* the element that it then named
  answer    \* what its last question led to

semanticVars == <<now, handed, held, target, named, answer>>

Nobody == [id |-> "none"]
NoTarget == [number |-> 0]

-----------------------------------------------------------------------------
(* Reading an observation                                                  *)

Positions(elements) == 1..Len(elements)
Ids(elements) == {elements[i].id : i \in Positions(elements)}

(* The parent of the element with an identifier.                           *)
ParentOf(elements, id) ==
  IF id \in Ids(elements)
  THEN (elements[CHOOSE i \in Positions(elements) : elements[i].id = id]).parent
  ELSE "none"

(* Whether the parents of an element, one after the other, end.            *)
Climbs(elements, parent) ==
  LET climb[seen \in SUBSET Id] ==
        [id \in Id \union {"none"} |->
           \/ id = "none"
           \/ id \notin seen /\ climb[seen \union {id}][ParentOf(elements, id)]]
  IN climb[{}][parent]

(* Mutant of BuildMapping: an element must not be its own parent, nothing  *)
(* more.                                                                   *)
OwnParentOnly(elements) ==
  LET Distinct(part(_)) ==
        \A i, j \in Positions(elements) : part(elements[i]) = part(elements[j]) => i = j
  IN IF ~Distinct(LAMBDA e : e.tag) \/ ~Distinct(LAMBDA e : e.id) THEN "ambiguous"
     ELSE IF \E i \in Positions(elements) :
               LET e == elements[i] IN
               e.parent # "none" /\ (e.parent = e.id \/ e.parent \notin Ids(elements))
     THEN "invalid" ELSE "good"

(* build_mapping: an element that is malformed by itself is left out here. *)
BuildMapping(elements) ==
  LET Distinct(part(_)) ==
        \A i, j \in Positions(elements) : part(elements[i]) = part(elements[j]) => i = j
  IN IF ~Distinct(LAMBDA e : e.tag) \/ ~Distinct(LAMBDA e : e.id) THEN "ambiguous"
     ELSE IF \E i \in Positions(elements) :
               LET e == elements[i] IN
               \/ e.parent # "none" /\ (e.parent = e.id \/ e.parent \notin Ids(elements))
               \/ ~Climbs(elements, e.parent)
     THEN "invalid" ELSE "good"

(* SemanticObservation::validate                                           *)
Validate(o, time) ==
  IF o.until <= o.since \/ o.until > o.since + Age \/ time < o.since THEN "invalid"
  ELSE IF time >= o.until THEN "stale"
  ELSE BuildMapping(o.elements)

Answer(kind, i) == [kind |-> kind, at |-> i, time |-> now]

(* Mutant of Resolve: elements keep their identifiers, whatever they are.  *)
SameId(o, t) ==
  LET valid == Validate(o, now)
      matches == {i \in Positions(o.elements) : o.elements[i].id = t.id} IN
  IF valid # "good" THEN Answer(valid, 0)
  ELSE IF t.number # o.number THEN Answer("stale_target", 0)
  ELSE IF matches = {} THEN Answer("not_found", 0)
  ELSE Answer("found", CHOOSE i \in matches : TRUE)

(* SemanticObservation::resolve                                            *)
Resolve(o, t) ==
  LET valid == Validate(o, now)
      matches == {i \in Positions(o.elements) : o.elements[i].id = t.id} IN
  IF valid # "good" THEN Answer(valid, 0)
  ELSE IF t.number # o.number THEN Answer("stale_target", 0)
  ELSE IF matches = {} THEN Answer("not_found", 0)
  ELSE IF Cardinality(matches) > 1 THEN Answer("ambiguous", 0)
  ELSE LET i == CHOOSE i \in matches : TRUE IN
       IF o.elements[i].print # t.print THEN Answer("stale_target", 0)
       ELSE Answer("found", i)

(* semantic_actionable                                                     *)
Actionable(action, e) ==
  /\ "steady" \in e.flags
  /\ action = "invoke" => "invokable" \in e.flags
  /\ action = "set_value" => "editable" \in e.flags

(* route_action                                                            *)
Route(action, o, t) ==
  LET found == Resolve(o, t) IN
  IF found.kind # "found" THEN found
  ELSE IF Actionable(action, o.elements[found.at]) THEN Answer("routed", found.at)
  ELSE Answer("not_actionable", 0)

-----------------------------------------------------------------------------
SemanticInit ==
  /\ now = 1
  /\ handed = 0
  /\ held = [number |-> 0, elements |-> <<>>, since |-> 1, until |-> 1]
  /\ target = NoTarget
  /\ named = Nobody
  /\ answer = Answer("none", 0)

(* The caller gets an observation, or the text of one: number may be that  *)
(* of the one it had, and its time may be yet to come.                     *)
Hand ==
  /\ handed < MaxHanded
  /\ handed' = handed + 1
  /\ \E elements \in Given, number \in {handed + 1, held.number} \ {0},
        since \in {now, now + 1}, until \in now..now + Age + 1 :
       held' = [number |-> number, elements |-> elements, since |-> since, until |-> until]
  /\ answer' = Answer("none", 0)
  /\ UNCHANGED <<now, target, named>>

(* SemanticObservation::target does not validate; no tag, or several, are  *)
(* an error.                                                               *)
Point(tag) ==
  LET matches == {i \in Positions(held.elements) : held.elements[i].tag = tag} IN
  /\ handed > 0
  /\ IF Cardinality(matches) = 1
     THEN LET e == held.elements[CHOOSE i \in matches : TRUE] IN
          /\ target' = [number |-> held.number, id |-> e.id, print |-> e.print]
          /\ named' = e
          /\ answer' = Answer("none", 0)
     ELSE answer' = Answer("none", 0) /\ UNCHANGED <<target, named>>
  /\ UNCHANGED <<now, handed, held>>

Ask ==
  /\ target # NoTarget
  /\ \/ answer' = Resolve(held, target)
     \/ \E action \in {"invoke", "set_value"} :
          answer' = [Route(action, held, target) EXCEPT !.kind = IF @ = "routed" THEN action ELSE @]
  /\ UNCHANGED <<now, handed, held, target, named>>

Pass ==
  /\ now < MaxTime
  /\ now' = now + 1
  /\ UNCHANGED <<handed, held, target, named, answer>>

SemanticNext == Hand \/ (\E tag \in Tag : Point(tag)) \/ Ask \/ Pass

SemanticSpec == SemanticInit /\ [][SemanticNext]_semanticVars

-----------------------------------------------------------------------------
(* Properties                                                              *)

Refused == {"invalid", "stale", "ambiguous", "stale_target", "not_found"}
Found == {"found", "invoke", "set_value", "not_actionable"}

SemanticTypeOK ==
  /\ now \in 1..MaxTime /\ handed \in 0..MaxHanded
  /\ held.elements \in Given \union {<<>>} /\ held.number \in 0..handed
  /\ held.since \in 1..now + 1 /\ held.until \in 1..now + Age + 1
  /\ target = NoTarget \/ target.number \in 1..handed
  /\ named = Nobody \/ named \in Element
  /\ answer.kind \in Refused \union Found \union {"none"}
  /\ answer.at \in 0..Len(held.elements) /\ answer.time \in 1..now

(* A list is a forest with one element for each tag and identifier: every  *)
(* parent is there, and whatever elements one takes, the parent of one of  *)
(* them is not among them.                                                 *)
IsForest(elements) ==
  /\ \A i, j \in Positions(elements) :
       (elements[i].id = elements[j].id \/ elements[i].tag = elements[j].tag) => i = j
  /\ \A i \in Positions(elements) : elements[i].parent \in Ids(elements) \union {"none"}
  /\ \A some \in (SUBSET Positions(elements)) \ {{}} :
       \E i \in some : elements[i].parent \notin {elements[j].id : j \in some}

Good ==
  /\ held.until \in held.since + 1..held.since + Age
  /\ answer.time \in held.since..held.until - 1

(* What is found is what the caller named: in an observation of the same   *)
(* origin and time that is still good, the one element that has the        *)
(* identifier and the fingerprint, whatever has become of the others; and  *)
(* an action is routed only to an element that takes it (resolve,          *)
(* route_action).                                                          *)
FoundIsNamed ==
  answer.kind \in Found \ {"not_actionable"} =>
    LET e == held.elements[answer.at] IN
    /\ Good /\ target.number = held.number
    /\ e.id = named.id /\ e.print = named.print
    /\ \A i \in Positions(held.elements) : held.elements[i].id = e.id => i = answer.at
    /\ answer.kind = "invoke" => {"steady", "invokable"} \subseteq e.flags
    /\ answer.kind = "set_value" => {"steady", "editable"} \subseteq e.flags

(* Nothing is found in what is not a forest, however its parents run in    *)
(* circles; and in a forest, while it is good, what was named in it is     *)
(* found (build_mapping, resolve).                                         *)
OnlyForests ==
  /\ answer.kind \in Found => IsForest(held.elements)
  /\ answer.kind # "none" /\ Good /\ IsForest(held.elements) =>
       /\ answer.kind \notin {"invalid", "ambiguous"}
       /\ ( /\ target.number = held.number
            /\ \E i \in Positions(held.elements) : held.elements[i] = named )
          => answer.kind \in Found

=============================================================================
