--------------------------- MODULE ResponseValues ---------------------------
(***************************************************************************)
(* The typed values of QTI processing (packages/qti-react/src/rp/          *)
(* values.ts) and the standard scorings of a response                      *)
(* (src/response-processing.ts).                                           *)
(*                                                                         *)
(* A scalar is tagged with its runtime type; a value is a cardinality, a   *)
(* base type and its members, or Null.  A response is a sequence of texts  *)
(* (records are left out), a declaration a record.  Numbers are whole.     *)
(* What number, pair or point a text stands for is a constant operator.    *)
(***************************************************************************)
EXTENDS Integers, SequencesExt

CONSTANTS
  Absent,            \* no number, no truth value, no attribute, no pair or point
  NumberOf(_),       \* the number a text reads as, "" as 0, or Absent
  PairOf(_),         \* the two identifiers a text names, or Absent
  PointOf(_),        \* the point a text names, or Absent
  Normalize(_),      \* the consumer's response normalization of a text
  LowerCase(_)       \* a text in lower case

(***************************************************************************)
(* Values                                                                  *)
(***************************************************************************)
Num(n)  == <<"number", n>>
Str(t)  == <<"text", t>>
Bool(b) == <<"boolean", b>>

Value(cardinality, baseType, members) ==
  [cardinality |-> cardinality, baseType |-> baseType, members |-> members, fields |-> <<>>]

Null == Value("null", "none", <<>>)

Boolean(b) == Value("single", "boolean", <<Bool(b)>>)

\* A computed number, float or integer: the two are compared alike.
Float(n) == Value("single", "float", <<Num(n)>>)

\* A result outside the numbers is NULL.
FloatOrNull(n) == IF n = Absent THEN Null ELSE Float(n)

\* An empty container is NULL.
Container(cardinality, baseType, members) ==
  IF members = <<>> THEN Null ELSE Value(cardinality, baseType, members)

Numeric == {"float", "integer", "duration"}

\* Numbers and booleans may arrive as text; a text no number can be read from stays one.
CoerceScalar(scalar, baseType) ==
  CASE baseType \in Numeric /\ scalar[1] = "text" /\ scalar[2] # ""
         /\ NumberOf(scalar[2]) # Absent                -> Num(NumberOf(scalar[2]))
    [] baseType = "boolean" /\ scalar[1] = "text"       -> Bool(scalar[2] = "true")
    [] OTHER                                            -> scalar

Coerced(texts, baseType) == [k \in DOMAIN texts |-> CoerceScalar(Str(texts[k]), baseType)]

\* The one member of a value, if it has the runtime type.
SingleOf(type, v) ==
  IF Len(v.members) = 1 /\ v.members[1][1] = type THEN v.members[1][2] ELSE Absent

AllNumbers(v) == v # Null /\ \A k \in DOMAIN v.members : v.members[k][1] = "number"

\* A pair is unordered, a directed pair is not.
PairsEqual(a, b, directed) ==
  /\ PairOf(a) # Absent /\ PairOf(b) # Absent
  /\ \/ PairOf(a) = PairOf(b)
     \/ ~directed /\ PairOf(a) = Reverse(PairOf(b))

\* JavaScript's Number() of a scalar.
AsNumber(scalar) ==
  CASE scalar[1] = "number"  -> scalar[2]
    [] scalar[1] = "text"    -> NumberOf(scalar[2])
    [] scalar[1] = "boolean" -> IF scalar[2] THEN 1 ELSE 0

ScalarsEqual(a, b, baseType) ==
  LET texts == a[1] = "text" /\ b[1] = "text"
  IN CASE baseType \in {"pair", "directedPair"} ->
            texts /\ PairsEqual(a[2], b[2], baseType = "directedPair")
       [] baseType = "point" ->
            texts /\ PointOf(a[2]) # Absent /\ PointOf(a[2]) = PointOf(b[2])
       [] baseType \notin {"pair", "directedPair", "point"} /\ "number" \in {a[1], b[1]} ->
            AsNumber(a) # Absent /\ AsNumber(a) = AsNumber(b)
       [] OTHER ->
            IF texts /\ baseType = "string" THEN Normalize(a[2]) = Normalize(b[2]) ELSE a = b

\* Each of as strikes off the first of what is left of bs that equals it.
StrikeOff(as, bs, Equal(_, _)) ==
  FoldLeft(LAMBDA left, a :
             LET hit == IF left = Absent THEN 0 ELSE SelectInSeq(left, LAMBDA b : Equal(b, a))
             IN IF hit = 0 THEN Absent ELSE RemoveAt(left, hit),
           bs, as) # Absent

BaseTypeOf(a, b) == IF a.baseType # "none" THEN a.baseType ELSE b.baseType

\* match: sequences where either side is ordered, bags otherwise.
ValuesMatch(a, b) ==
  LET Equal(x, y) == ScalarsEqual(x, y, BaseTypeOf(a, b))
  IN /\ Len(a.members) = Len(b.members)
     /\ IF "ordered" \in {a.cardinality, b.cardinality}
        THEN \A k \in DOMAIN a.members : Equal(a.members[k], b.members[k])
        ELSE StrikeOff(a.members, b.members, Equal)

\* A value as it is handed out, and read again under a declaration.
Flat(v) == IF v.cardinality = "single" /\ v.members # <<>> THEN <<Head(v.members)>> ELSE v.members

Declared(d, scalars) ==
  Value(d.cardinality, d.baseType, [k \in DOMAIN scalars |-> CoerceScalar(scalars[k], d.baseType)])

FromFlat(d, scalars) == IF scalars = <<>> THEN Null ELSE Declared(d, scalars)

\* A declared correct response as a value.
CorrectValue(d) ==
  IF d.correct = Absent THEN Null ELSE Value(d.cardinality, d.baseType, Coerced(d.correct, d.baseType))

\* A candidate's response as a value.
FromResponse(d, response) == Container(d.cardinality, d.baseType, Coerced(response, d.baseType))

(***************************************************************************)
(* Scoring a response                                                      *)
(***************************************************************************)

\* Equality of two texts under a declared base type.
TextsEqual(a, b, baseType) ==
  CASE baseType \in {"pair", "directedPair"} -> PairsEqual(a, b, baseType = "directedPair")
    [] baseType \in {"float", "integer"} ->
         "" \notin {a, b} /\ NumberOf(a) # Absent /\ NumberOf(a) = NumberOf(b)
    [] baseType = "point"  -> PointOf(a) # Absent /\ PointOf(a) = PointOf(b)
    [] baseType = "string" -> Normalize(a) = Normalize(b)
    [] OTHER               -> a = b

\* Mutant: an ordered response is compared as a bag.
MatchCorrectAsBag(d, response) ==
  LET Equal(x, y) == TextsEqual(x, y, d.baseType)
  IN /\ d.correct # Absent
     /\ Len(d.correct) = Len(response) /\ StrikeOff(d.correct, response, Equal)

\* match_correct, over the texts as they were given.
MatchCorrect(d, response) ==
  LET Equal(x, y) == TextsEqual(x, y, d.baseType)
  IN /\ d.correct # Absent
     /\ Len(d.correct) = Len(response)
     /\ IF d.cardinality = "ordered" THEN \A k \in DOMAIN response : Equal(d.correct[k], response[k])
        ELSE StrikeOff(d.correct, response, Equal)

Clamp(n, lower, upper) ==
  LET raised == IF lower # Absent /\ n < lower THEN lower ELSE n
  IN IF upper # Absent /\ raised > upper THEN upper ELSE raised

\* The first of the entries that meets a test, or Absent.
FirstEntry(entries, Meets(_)) ==
  IF \E k \in DOMAIN entries : Meets(entries[k]) THEN entries[SelectInSeq(entries, Meets)] ELSE Absent

\* map_response: every member adds the value of the first entry it meets, or the default.
MapResponse(d, response) ==
  LET Folded(entry, t) == IF entry.caseSensitive THEN t ELSE LowerCase(t)
      Key(entry, t) == IF d.baseType = "string" THEN Normalize(Folded(entry, t)) ELSE Folded(entry, t)
      Meets(entry, t) ==
        IF d.baseType \in {"pair", "directedPair"} THEN PairsEqual(entry.key, t, d.baseType = "directedPair")
        ELSE Key(entry, entry.key) = Key(entry, t)
      Mapped(t) == LET entry == FirstEntry(d.mapping.entries, LAMBDA e : Meets(e, t))
                   IN IF entry = Absent THEN d.mapping.default ELSE entry.value
  IN IF d.mapping = Absent THEN 0
     ELSE Clamp(FoldLeft(LAMBDA total, t : total + Mapped(t), 0, response),
                d.mapping.lower, d.mapping.upper)

\* map_response_point: every point takes the first area it lies in that no point
\* before it took, and adds its value, or the default.
MapResponsePoint(d, response) ==
  LET areas == d.areas.entries
      Hit(used, t) == {k \in DOMAIN areas \ used : PointOf(t) \in areas[k].area}
      Add(sum, t) ==
        CASE PointOf(t) = Absent -> sum
          [] PointOf(t) # Absent /\ Hit(sum.used, t) = {} -> [sum EXCEPT !.total = @ + d.areas.default]
          [] OTHER -> LET k == CHOOSE h \in Hit(sum.used, t) : \A n \in Hit(sum.used, t) : h <= n
                      IN [total |-> sum.total + areas[k].value, used |-> sum.used \union {k}]
  IN IF d.areas = Absent THEN 0
     ELSE Clamp(FoldLeft(Add, [total |-> 0, used |-> {}], response).total, d.areas.lower, d.areas.upper)

\* scoreResponse, behind the feedback and the flags of an attempt: by areas, by
\* mapping, or by the correct response.
ScoreResponse(d, response) ==
  LET Gain(total, entry) == total + Max({entry.value, 0})
      Top(map) == IF map.upper # Absent THEN map.upper ELSE FoldLeft(Gain, 0, map.entries)
      Against(score, top) == [score |-> score, maxScore |-> top, correct |-> top > 0 /\ score >= top]
      right == MatchCorrect(d, response)
  IN CASE d.areas # Absent -> Against(MapResponsePoint(d, response), Top(d.areas))
       [] d.areas = Absent /\ d.mapping # Absent -> Against(MapResponse(d, response), Top(d.mapping))
       [] OTHER -> [score |-> IF right THEN 1 ELSE 0, maxScore |-> 1, correct |-> right]
=============================================================================
