------------------------------ MODULE AmlTerms ------------------------------
(***************************************************************************)
(* What module Aml promises.  A definition block is given as a list of      *)
(* terms; its encoding is what the parser reads, and its meaning, computed  *)
(* from the terms alone, is what the namespaces must hold in the end.       *)
(*                                                                         *)
(* A term has an operator, a length if it is sized, a head and a body:      *)
(*   op  length  head  body                                                 *)
(***************************************************************************)
EXTENDS Aml

Root(segs) == [prefix |-> ROOT_CHAR, segs |-> segs]
Up(segs) == [prefix |-> PREFIX_CHAR, segs |-> segs]
Rel(segs) == [prefix |-> 0, segs |-> segs]

Concat(seqs) == FoldLeft(LAMBDA a, b : a \o b, <<>>, seqs)

NameString(name) ==
  LET n == Len(name.segs)
  IN  (IF name.prefix = 0 THEN <<>> ELSE <<name.prefix>>)
      \o (CASE n = 0 -> <<0>> [] n = 1 -> <<>> [] n = 2 -> <<46>> [] OTHER -> <<47, n>>)
      \o Concat([i \in DOMAIN name.segs |-> <<name.segs[i], Char, Char, Char>>])

(* A length counts its own bytes: one up to 63, else two. *)
Sized(cells) ==
  LET n == Len(cells)
  IN  (IF n < 63 THEN <<n + 1>> ELSE <<64 + ((n + 2) % 16), (n + 2) \div 16>>) \o cells

RECURSIVE Data(_)
Data(v) ==
  CASE v.type = "byte"    -> IF v.v \in {0, 1} THEN <<v.v>> ELSE <<10, v.v>>
    [] v.type = "short"   -> <<11, v.v % 256, v.v \div 256>>
    [] v.type = "int"     -> <<12, v.v % 256, (v.v \div 256) % 256, v.v \div 65536, 0>>
    [] v.type = "string"  -> <<13>> \o [i \in 1 .. v.v |-> 65] \o <<0>>
    [] v.type = "buffer"  -> <<17>> \o Sized(<<10, v.v>> \o [i \in 1 .. v.v |-> 0])
    [] v.type = "package" -> <<18>> \o Sized(<<Len(v.v)>> \o Concat([i \in DOMAIN v.v |-> Data(v.v[i])]))
    [] v.type = "name"    -> NameString(v.v)

Nothing == [type |-> "none"]

Node(kind, op, sized, head, terms, name, value) ==
  [kind |-> kind, op |-> op, sized |-> sized, head |-> head, body |-> terms, name |-> name, value |-> value]

NameTerm(seg, v) == Node("name", <<8>>, FALSE, NameString(Rel(<<seg>>)) \o Data(v), <<>>, Rel(<<seg>>), v)
AliasTerm(from, to) ==
  Node("alias", <<6>>, FALSE, NameString(Rel(<<from>>)) \o NameString(Rel(<<to>>)), <<>>, Rel(<<to>>), Rel(<<from>>))
MutexTerm(seg) == Node("mutex", <<91, 1>>, FALSE, NameString(Rel(<<seg>>)) \o <<0>>, <<>>, Rel(<<seg>>), Nothing)
RegionTerm(seg, space, offset, len) ==
  Node("region", <<91, 128>>, FALSE,
       NameString(Rel(<<seg>>)) \o <<space>> \o Data(Variable("short", offset)) \o Data(Variable("byte", len)),
       <<>>, Rel(<<seg>>), [space |-> space, offset |-> offset, len |-> len])
(* A gap of gap bits and named fields: pairs of a segment and of a length   *)
(* in bits.                                                                 *)
FieldTerm(region, flags, gap, fields) ==
  Node("field", <<91, 129>>, TRUE,
       NameString(region) \o <<flags, 0, gap>>
         \o Concat([i \in DOMAIN fields |-> <<fields[i][1], Char, Char, Char, fields[i][2]>>]),
       <<>>, region, [access |-> flags % 16, gap |-> gap, fields |-> fields])
IndexFieldTerm(a, b, seg, len) ==
  Node("index", <<91, 134>>, TRUE,
       NameString(Rel(<<a>>)) \o NameString(Rel(<<b>>)) \o <<1>> \o <<seg, Char, Char, Char, len>>,
       <<>>, Rel(<<seg>>), Nothing)
ProcessorTerm(seg) ==
  Node("processor", <<91, 131>>, TRUE, NameString(Rel(<<seg>>)) \o <<0, 0, 0>>, <<>>, Rel(<<seg>>), Nothing)
WordFieldTerm(buffer, index, seg) ==
  Node("word", <<139>>, FALSE,
       NameString(Rel(<<buffer>>)) \o Data(Variable("byte", index)) \o NameString(Rel(<<seg>>)), <<>>, Rel(<<seg>>), Nothing)
IfTerm(predicate, terms) == Node("if", <<160>>, TRUE, predicate, terms, Rel(<<>>), Nothing)
ElseTerm(terms) == Node("else", <<161>>, TRUE, <<>>, terms, Rel(<<>>), Nothing)
MethodTerm(name, terms) == Node("method", <<20>>, TRUE, NameString(name) \o <<0>>, terms, name, Nothing)
ScopeTerm(name, terms) == Node("scope", <<16>>, TRUE, NameString(name), terms, name, Nothing)
DeviceTerm(name, terms) == Node("device", <<91, 130>>, TRUE, NameString(name), terms, name, Nothing)

RECURSIVE Encode(_)
Encode(terms) ==
  Concat([i \in DOMAIN terms |->
    LET t     == terms[i]
        cells == t.head \o Encode(t.body)
    IN  t.op \o (IF t.sized THEN Sized(cells) ELSE cells)])

Block(terms) == [code |-> Encode(terms), terms |-> terms]

(* Where the terms start, with those of scopes and devices, in the order    *)
(* they are written.                                                        *)
BodyStart(t, at) ==
  LET all == Encode(<<t>>)
  IN  at + Len(all) - Len(Encode(t.body))

RECURSIVE Starts(_, _)
Starts(terms, at) ==
  IF terms = <<>> THEN <<>>
  ELSE LET t == Head(terms)
       IN  <<at>> \o (IF t.kind \in {"scope", "device"} THEN Starts(t.body, BodyStart(t, at)) ELSE <<>>)
                  \o Starts(Tail(terms), at + Len(Encode(<<t>>)))

(* The terms of the methods that are defined, by where they start. *)
RECURSIVE Bodies(_, _)
Bodies(terms, at) ==
  IF terms = <<>> THEN {}
  ELSE LET t     == Head(terms)
           start == BodyStart(t, at)
       IN  (CASE t.kind = "method" -> {<<start, t.body>>}
              [] t.kind \in {"scope", "device"} -> Bodies(t.body, start)
              [] OTHER -> {})
           \union Bodies(Tail(terms), at + Len(Encode(<<t>>)))
-----------------------------------------------------------------------------
(* The meaning: the namespaces by their paths and the objects by path and   *)
(* name.  Methods are not entered.  What a term declares lies where its     *)
(* name says; only a name that refers to something, if it is one segment,   *)
(* is searched for upwards among what has been written before.              *)
Nearest(path, Has(_)) ==
  LET depths == {n \in 0 .. Len(path) : Has(SubSeq(path, 1, n))}
  IN  IF depths = {} THEN path
      ELSE SubSeq(path, 1, CHOOSE n \in depths : \A m \in depths : m <= n)

(* The path of what a term declares. *)
Declared(path, name) ==
  CASE name.prefix = ROOT_CHAR -> name.segs
    [] name.prefix = PREFIX_CHAR -> Front(path) \o name.segs
    [] OTHER -> path \o name.segs

(* The path of what a name refers to; the empty name is the root. *)
Target(path, name, Has(_)) ==
  CASE name.prefix = 0 /\ Len(name.segs) = 0 -> <<>>
    [] name.prefix = 0 /\ Len(name.segs) = 1 -> Nearest(path, LAMBDA q : Has(q \o name.segs)) \o name.segs
    [] OTHER -> Declared(path, name)

IsObject(m, at) == at # <<>> /\ <<Front(at), Last(at)>> \in DOMAIN m.objects
Object(m, at) == m.objects[<<Front(at), Last(at)>>]
Put(m, at, what) == [m EXCEPT !.objects = Stored(@, <<Front(at), Last(at)>>, what)]

(* The names in a package stand for the paths they refer to. *)
Absolute(m, path, v) ==
  LET To(name) == Target(path, name, LAMBDA q : q \in m.spaces \/ IsObject(m, q))
  IN  IF v.type # "package" THEN v
      ELSE [v EXCEPT !.v = [i \in DOMAIN v.v |->
             IF v.v[i].type = "name" THEN Variable("name", Root(To(v.v[i].v))) ELSE v.v[i]]]

(* The fields lie one behind the other in the region, from the gap on. *)
FieldMeaning(m, path, t) ==
  LET region == Target(path, t.name, LAMBDA q : IsObject(m, q))
      fields == t.value.fields
      Offset(i) == FoldLeft(LAMBDA sum, f : sum + f[2], t.value.gap, SubSeq(fields, 1, i - 1))
      One(n, i) == Put(n, Append(path, fields[i][1]),
                       Variable("field", [region |-> Object(m, region).v, access |-> t.value.access,
                                          offset |-> Offset(i), len |-> fields[i][2]]))
  IN  IF IsObject(m, region) THEN FoldLeft(One, m, [i \in DOMAIN fields |-> i]) ELSE m

RECURSIVE Meaning(_, _, _)
Meaning(m, path, terms) ==
  LET One(n, t) ==
        LET at     == Declared(path, t.name)
            source == Target(path, t.value, LAMBDA q : IsObject(n, q))
        IN  CASE t.kind = "name"   -> Put(n, at, Absolute(n, path, t.value))
              [] t.kind = "alias"  -> IF IsObject(n, source) THEN Put(n, at, Object(n, source)) ELSE n
              [] t.kind = "mutex"  -> Put(n, at, Variable("mutex", 0))
              [] t.kind = "region" -> Put(n, at, Variable("region", t.value))
              [] t.kind = "field"  -> FieldMeaning(n, path, t)
              [] t.kind = "index"  -> Put(n, at, Variable("index field", 0))
              [] t.kind = "method" -> Put(n, at, Variable("method", 0))
              [] t.kind = "scope"  -> Meaning(n, Target(path, t.name, LAMBDA q : q \in n.spaces), t.body)
              [] t.kind \in {"device", "processor"} ->
                   Meaning([n EXCEPT !.spaces = @ \union {at}], at, t.body)
              [] OTHER -> n
  IN  FoldLeft(One, m, terms)

Written ==
  Meaning([spaces |-> {<<>>} \union {<<Predefined[i]>> : i \in DOMAIN Predefined}, objects |-> <<>>],
          <<>>, table.terms)
-----------------------------------------------------------------------------
(* An object as it has been parsed.  In the root a name without a prefix is *)
(* an absolute one.                                                         *)
FromRoot(v) ==
  IF v.type # "package" THEN v
  ELSE [v EXCEPT !.v = [i \in DOMAIN v.v |->
         IF v.v[i].type = "name" THEN Variable("name", Root(v.v[i].v.segs)) ELSE v.v[i]]]

What(obj) ==
  CASE obj.type = "name" -> FromRoot(obj.data)
    [] obj.type \in {"region", "field"} -> Variable(obj.type, obj.data)
    [] OTHER -> Variable(obj.type, 0)

Registered(id) == id # root /\ nss[id].parent # 0
                  /\ Lookup(nss[nss[id].parent].namespaces, nss[id].name, 0) = id

Entries == UNION {{<<id, key>> : key \in DOMAIN nss[id].children} : id \in DOMAIN nss}

(* The namespaces and the objects that have been parsed, by path. *)
Parsed ==
  [spaces  |-> {Path(id) : id \in {i \in DOMAIN nss : i = root \/ Registered(i)}},
   objects |-> [at \in {<<Path(e[1]), e[2]>> : e \in Entries} |->
                  LET e == CHOOSE x \in Entries : <<Path(x[1]), x[2]>> = at
                  IN  What(nss[e[1]].children[e[2]])]]

(* The parser takes the terms in the order they are written and each one    *)
(* only where it starts, whatever the lengths, names and nested lists in    *)
(* between (the pointer arithmetic of parse_termlist and the def_           *)
(* functions), also when a method is executed, unless it met one of the     *)
(* constructs that it reads differently (off).                              *)
OnTrack ==
  LET terms == IF entry = 1 THEN table.terms
               ELSE (CHOOSE b \in Bodies(table.terms, 1) : b[1] = entry)[2]
      plan  == Starts(terms, entry)
  IN  ~off => /\ IsPrefix(trace, plan)
              /\ status \in {"done", "called"} => trace = plan

(* When a table has been parsed its namespaces and objects are those that   *)
(* were written, under the paths they were declared at: scopes opened again *)
(* add to what is there, regions are found upwards, the names in packages   *)
(* are absolute, a field lies in its region where the gap before it says    *)
(* (parse_table).  This is so unless something was stored elsewhere         *)
(* (misplaced), as every mutex, every field behind the first and every      *)
(* device that exists further up are.                                       *)
ParsedAsWritten == status = "done" /\ ~off /\ ~misplaced => Parsed = Written

(* At every moment a namespace is the root, the private scope of a method,  *)
(* or the one that its parent has under its name: nothing that was parsed   *)
(* is lost because a second namespace took its place (create_namespace).    *)
NamespacesReachable ==
  ~off => \A id \in DOMAIN nss \ {root} :
            \/ Registered(id)
            \/ /\ nss[id].parent # 0 /\ nss[id].namespaces = <<>>
               /\ nss[id].name \in DOMAIN nss[nss[id].parent].children

(* What is written to the sleep control ports is the pair of the package    *)
(* _S5_ that stands in the root, whatever else is called _S5_ and whatever  *)
(* method has been executed before (execute_sleep).                         *)
SleepsAsWritten ==
  status = "asleep" /\ ~off =>
    /\ <<<<>>, S5>> \in DOMAIN Written.objects
    /\ LET pair == Written.objects[<<<<>>, S5>>].v
       IN  \A i \in {1, 2} : (ports[i] \div 1024) % 8 = pair[i].v % 8 /\ (ports[i] \div 2^13) % 2 = 1
=============================================================================
