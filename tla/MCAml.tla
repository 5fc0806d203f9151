------------------------------- MODULE MCAml -------------------------------
(* Definition blocks of up to two terms, with nested bodies of up to two. *)
EXTENDS AmlTerms

A == 301
B == 302
R == 303

B1(v) == Variable("byte", v)
Sleep5(a, b) == NameTerm(S5, Variable("package", <<B1(a), B1(b)>>))

Leaves ==
  {NameTerm(A, B1(0)), NameTerm(B, Variable("short", 700)),
   NameTerm(A, Variable("package", <<Variable("name", Rel(<<B>>)), Variable("name", Root(<<SB, A>>)), B1(9)>>)),
   NameTerm(A, Variable("buffer", 60)),
   AliasTerm(A, B), MutexTerm(B), RegionTerm(R, 1, 1024, 16), FieldTerm(Rel(<<R>>), 1, 4, <<<<B, 8>>>>),
   IfTerm(<<A, Char, Char, Char>>, <<NameTerm(B, B1(1))>>)}

Few == {NameTerm(A, B1(0)), FieldTerm(Rel(<<R>>), 1, 4, <<<<B, 8>>>>), Sleep5(7, 6), MutexTerm(A),
        NameTerm(B, Variable("package", <<Variable("name", Rel(<<A>>))>>))}

UpTo(n, S) == UNION {[1 .. k -> S] : k \in 0 .. n}

Inner ==
  {DeviceTerm(n, <<t>>) : n \in {Rel(<<A>>), Rel(<<B, A>>)}, t \in Few}
  \union {ScopeTerm(n, <<t>>) : n \in {Rel(<<A>>), Up(<<A>>), Root(<<SB>>), Rel(<<>>), Root(<<SB, A>>)}, t \in Few}
  \union {MethodTerm(n, <<t>>) : n \in {Rel(<<A>>), Up(<<A>>), Root(<<B>>), Rel(<<A, B>>)}, t \in Few}

Outer ==
  {ScopeTerm(Root(<<SB>>), ts) : ts \in UpTo(2, Few \union Inner)}
  \union {DeviceTerm(Rel(<<A>>), ts) : ts \in UpTo(2, Few \union Inner)}

TopTerms == Leaves \union Inner \union
  {Sleep5(5, 0), NameTerm(B, Variable("int", 70000)), NameTerm(B, Variable("string", 2)),
   FieldTerm(Root(<<R>>), 3, 0, <<<<B, 16>>, <<A, 8>>>>), FieldTerm(Root(<<>>), 3, 0, <<<<B, 16>>>>), IndexFieldTerm(A, B, R, 8), ProcessorTerm(A), WordFieldTerm(A, 4, R),
   IfTerm(<<1>>, <<NameTerm(B, B1(1))>>), ElseTerm(<<NameTerm(R, B1(1))>>),
   IfTerm(<<147, A, Char, Char, Char, 10, 3>>, <<NameTerm(R, B1(1))>>),
   DeviceTerm(Root(<<A>>), <<>>), DeviceTerm(Rel(<<B>>), <<NameTerm(A, Variable("buffer", 60))>>),
   ScopeTerm(Root(<<SB>>), <<DeviceTerm(Rel(<<B, A>>), <<>>)>>),
   DeviceTerm(Root(<<SB, A>>), <<NameTerm(B, B1(3))>>)}

MCTables == {Block(ts) : ts \in UpTo(2, TopTerms) \union {<<RegionTerm(R, 1, 1024, 16), t>> : t \in Outer}}
=============================================================================
