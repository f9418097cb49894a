------------------------------- MODULE MCAlgorithms -------------------------------
(***************************************************************************)
(* Merging, sorting, streaming, the block schedulers and the matrices, one *)
(* behaviour for each: which says whose object obj is, ref is what it was  *)
(* given.                                                                  *)
(***************************************************************************)
EXTENDS Integers, Sequences

CONSTANTS Null

VARIABLES which, obj, ref
vars == <<which, obj, ref>>

PM == INSTANCE ParallelMerge WITH Inputs <- [1..2 -> {<<>>, <<1>>, <<2>>, <<1, 2>>, <<1,
     1>>}] \cup [1..3 -> {<<>>, <<1>>, <<1, 2>>, <<2>>}] \cup [1..4 -> {<<1, 2>>,
     <<2>>}] \cup {<<<<1, 2>>, <<>>, <<2>>, <<1>>>>, <<<<1>>>>} \cup [1..5 -> {<<1, 2>>,
     <<2>>}] \cup {<<<<1>>, <<1, 2>>, <<>>, <<2>>, <<1, 1>>>>, <<<<3>>, <<2, 3>>, <<1>>,
     <<1, 2>>, <<1, 3>>>>}, Settings <- {"bubble", "tree", "combined", "sentinel"},
     Lengths <- {0, 2, 5}, Sup <- 9, Merges <- {[keys |-> <<<<1, 2>>, <<1, 1, 1, 2>>>>,
     length |-> 3], [keys |-> <<<<1, 2>>, <<>>, <<2, 3, 3>>>>, length |-> 5], [keys |->
     <<<<1, 2, 4>>, <<2, 2, 3>>>>, length |-> 4], [keys |-> <<<<2>>, <<1, 3, 5, 6>>,
     <<4>>>>, length |-> 5], [keys |-> <<<<2>>, <<1, 3, 5, 6>>, <<4>>>>, length |-> 6]},
     Sorts <- UNION {[1..n -> 1..2] : n \in 2..3} \cup [1..4 -> {1, 3}] \cup {<<3, 2, 4,
     1>>, <<2, 4, 2, 1, 3>>}, Threads <- 3, Oversampling <- 1, Splittings <- {"exact",
     "sampling"}, CopyLasts <- BOOLEAN, Stables <- BOOLEAN, May <- {}
BK == INSTANCE BlockStreams WITH Pools <- {<<1, 0, 1>>, <<2, 1, 1>>, <<4, 2, 1>>, <<4,
     1, 2>>}, Places <- {1, 2, 3}, Junk <- 0, Layouts <- UNION {[1..n -> {0, 1}] : n \in
     {3, 5}} \cup {<<9, 0, 9, 0, 1>>, <<0>>, <<1, 0>>, <<1, 1, 1, 0, 0, 0, 1>>},
     Buffers <- {1, 2, 3}, Cursors <- {1, 2}, MaxDevice <- 2, NoDevice <- 9,
     BlockSize <- 2
RF == INSTANCE RunFormation WITH Shapes <- {<<1, 1>>, <<2, 1>>, <<2, 2>>, <<1, 1, 1>>,
     <<2, 2, 1>>, <<2, 2, 2>>, <<1, 1, 1, 1>>, <<2, 2, 2, 1>>, <<3, 3, 3, 2>>},
     Inputs <- {[B |-> b, m2 |-> m, keys |-> SubSeq(<<4, 2, 5, 1, 3, 2, 4, 1, 5, 2, 3>>,
     1, n)] : b \in {1, 2}, m \in {1, 2}, n \in 0..11}, Sequences <- {[B |-> b, seqs |->
     s] : b \in {1, 2, 3}, s \in {<<<<>>>>, <<<<1>>, <<>>, <<2, 3>>>>, <<<<1, 2, 3>>,
     <<1, 1, 4, 5>>>>, <<<<3, 3>>, <<1, 2, 3>>, <<5>>>>}}, MaxKey <- 9
ES == INSTANCE ExternalSort WITH Calls <- {[keys |-> k, size |-> 2, first |-> f, last
     |-> l, m |-> 2, alg |-> "sort", par |-> TRUE, file |-> FALSE] : k \in [1..8 -> {1,
     2}], f \in {0}, l \in {8}} \cup {[keys |-> k, size |-> 2, first |-> f, last |-> l,
     m |-> 2, alg |-> "sort", par |-> FALSE, file |-> FALSE] : k \in [1..6 -> {1, 2}], f
     \in {1}, l \in {5}} \cup {[keys |-> k, size |-> 2, first |-> f, last |-> l, m |->
     2, alg |-> "sort", par |-> FALSE, file |-> FALSE] : k \in {<<9, 3, 7, 1, 8, 2, 6,
     4, 5, 3, 2, 9>>}, f \in 0..2, l \in {10, 11, 12}} \cup {[keys |-> k, size |-> 2,
     first |-> f, last |-> l, m |-> 2, alg |-> "sort", par |-> TRUE, file |-> FALSE] : k
     \in {<<9, 3, 7, 1, 8, 2, 6, 4, 5, 3, 2, 9>>}, f \in 0..2, l \in {10, 11, 12}} \cup
     {[keys |-> k, size |-> 3, first |-> f, last |-> l, m |-> 1, alg |-> "sort", par |->
     FALSE, file |-> FALSE] : k \in {<<9, 3, 7, 1, 8, 2, 6, 4, 5, 3, 2, 9>>}, f \in
     0..2, l \in {11, 12}} \cup {[keys |-> k, size |-> 2, first |-> f, last |-> l, m |->
     3, alg |-> "sort", par |-> FALSE, file |-> TRUE] : k \in {<<5, 5, 1, 5, 1, 1, 2, 5,
     2, 1, 5, 1, 4, 3>>}, f \in 0..2, l \in {12, 13, 14}} \cup {[keys |-> k, size |-> 2,
     first |-> f, last |-> l, m |-> 4, alg |-> "sort", par |-> TRUE, file |-> FALSE] : k
     \in {<<5, 5, 1, 5, 1, 1, 2, 5, 2, 1, 5, 1, 4, 3>>}, f \in 0..2, l \in {12, 13, 14}}
     \cup {[keys |-> k, size |-> 2, first |-> f, last |-> l, m |-> 8, alg |-> "sort",
     par |-> FALSE, file |-> TRUE] : k \in {<<5, 5, 1, 5, 1, 1, 2, 5, 2, 1, 5, 1, 4,
     3>>}, f \in 0..2, l \in {12, 13}} \cup {[keys |-> k, size |-> 2, first |-> f, last
     |-> l, m |-> 9, alg |-> "ksort", par |-> FALSE, file |-> TRUE] : k \in {<<5, 5, 1,
     5, 1, 1, 2, 5, 2, 1, 5, 1, 4, 3>>}, f \in 0..2, l \in {12, 13}} \cup {[keys |-> k,
     size |-> 2, first |-> f, last |-> l, m |-> 5, alg |-> "ksort", par |-> FALSE, file
     |-> FALSE] : k \in {<<5, 5, 1, 5, 1, 1, 2, 5, 2, 1, 5, 1, 4, 3>>}, f \in 0..2, l
     \in {12, 13, 14}} \cup {[keys |-> k, size |-> 2, first |-> f, last |-> l, m |-> 5,
     alg |-> "ksort", par |-> FALSE, file |-> TRUE] : k \in {<<5, 5, 1, 5, 1, 1, 2, 5,
     2, 1, 5, 1, 4, 3>>}, f \in 0..2, l \in {12, 13, 14}} \cup {[keys |-> k, size |-> 4,
     first |-> f, last |-> l, m |-> 3, alg |-> "ksort", par |-> FALSE, file |-> FALSE] :
     k \in {<<9, 3, 7, 1, 8, 2, 6, 4, 5, 3, 2, 9, 2, 7, 4, 14, 3, 2, 1, 6>>}, f \in
     0..2, l \in {18, 19, 20}}, MinKey <- 0, MaxKey <- 15, KeyBits <- 4, ElemSize <- 3,
     RefSize <- 1, L2Keys <- 100, Unrolled <- 1, May <- {}
SO == INSTANCE Sorter WITH Cases <- {[B |-> 1, m2 |-> 1, mem |-> 7, par |-> FALSE, keys
     |-> <<4, 2, 5, 1, 3, 2>>], [B |-> 1, m2 |-> 1, mem |-> 7, par |-> TRUE, keys |->
     <<4, 2, 5, 1, 3, 2>>], [B |-> 2, m2 |-> 1, mem |-> 5, par |-> FALSE, keys |-> <<4,
     2, 5, 1, 3, 2>>], [B |-> 2, m2 |-> 1, mem |-> 8, par |-> TRUE, keys |-> <<4, 2, 5,
     1, 3, 2, 4>>], [B |-> 2, m2 |-> 2, mem |-> 5, par |-> FALSE, keys |-> <<4, 2, 5, 1,
     3, 2, 4, 1, 5>>], [B |-> 1, m2 |-> 1, mem |-> 5, par |-> TRUE, keys |-> <<4, 2,
     5>>], [B |-> 2, m2 |-> 1, mem |-> 7, par |-> FALSE, keys |-> <<4, 2, 5, 1, 3, 2, 4,
     1, 5, 2, 3>>], [B |-> 2, m2 |-> 3, mem |-> 8, par |-> TRUE, keys |-> <<2, 1, 3, 3,
     7, 7, 1, 6, 8, 6, 6, 8, 5, 9, 9, 5, 5, 6>>]}, MaxKey <- 10, Disks <- 1,
     Unrolled <- 1, May <- {}
ST == INSTANCE Streams WITH Pipelines <- {[class |-> "transform", top |-> 0, consumer
     |-> "materialize", in |-> <<<<1, 3>>>>, limit |-> 1, gens |-> {}], [class |->
     "transform", top |-> 0, consumer |-> "bounded", in |-> <<<<1, 3>>>>, limit |-> 1,
     gens |-> {}], [class |-> "transform", top |-> 0, consumer |-> "materialize", in |->
     <<<<1, 3>>, <<4, 6, 1>>>>, limit |-> 1, gens |-> {}], [class |-> "tuple", top |->
     1, consumer |-> "materialize", in |-> <<<<1, 3>>, <<4, 6, 1>>>>, limit |-> 1, gens
     |-> {}], [class |-> "tuple", top |-> 0, consumer |-> "materialize", in |-> <<<<1,
     3>>, <<4, 6, 1>>>>, limit |-> 9, gens |-> {}], [class |-> "transform", top |-> 0,
     consumer |-> "bounded", in |-> <<<<1, 3>>, <<4, 6, 1>>>>, limit |-> 1, gens |->
     {}], [class |-> "tuple", top |-> 1, consumer |-> "bounded", in |-> <<<<1, 3>>, <<4,
     6, 1>>>>, limit |-> 1, gens |-> {}], [class |-> "tuple", top |-> 0, consumer |->
     "bounded", in |-> <<<<1, 3>>, <<4, 6, 1>>>>, limit |-> 9, gens |-> {}], [class |->
     "transform", top |-> 0, consumer |-> "materialize", in |-> <<<<1, 3, 5>>, <<4,
     6>>>>, limit |-> 1, gens |-> {}], [class |-> "tuple", top |-> 2, consumer |->
     "materialize", in |-> <<<<1, 3, 5>>, <<4, 6>>>>, limit |-> 1, gens |-> {}], [class
     |-> "tuple", top |-> 0, consumer |-> "materialize", in |-> <<<<1, 3, 5>>, <<4,
     6>>>>, limit |-> 9, gens |-> {}], [class |-> "transform", top |-> 0, consumer |->
     "materialize", in |-> <<<<1, 3>>, <<4, 6, 1>>, <<7, 2, 4>>>>, limit |-> 1, gens |->
     {}], [class |-> "tuple", top |-> 1, consumer |-> "materialize", in |-> <<<<1, 3>>,
     <<4, 6, 1>>, <<7, 2, 4>>>>, limit |-> 1, gens |-> {}], [class |-> "tuple", top |->
     0, consumer |-> "materialize", in |-> <<<<1, 3>>, <<4, 6, 1>>, <<7, 2, 4>>>>, limit
     |-> 9, gens |-> {}], [class |-> "transform", top |-> 0, consumer |-> "bounded", in
     |-> <<<<1, 3>>, <<4, 6, 1>>, <<7, 2, 4>>>>, limit |-> 1, gens |-> {}], [class |->
     "tuple", top |-> 1, consumer |-> "bounded", in |-> <<<<1, 3>>, <<4, 6, 1>>, <<7, 2,
     4>>>>, limit |-> 1, gens |-> {}], [class |-> "tuple", top |-> 0, consumer |->
     "bounded", in |-> <<<<1, 3>>, <<4, 6, 1>>, <<7, 2, 4>>>>, limit |-> 9, gens |->
     {}], [class |-> "transform", top |-> 0, consumer |-> "materialize", in |-> <<<<1,
     3, 5>>, <<4, 6>>, <<7, 2, 4>>>>, limit |-> 1, gens |-> {}], [class |-> "tuple", top
     |-> 2, consumer |-> "materialize", in |-> <<<<1, 3, 5>>, <<4, 6>>, <<7, 2, 4>>>>,
     limit |-> 1, gens |-> {}], [class |-> "tuple", top |-> 0, consumer |->
     "materialize", in |-> <<<<1, 3, 5>>, <<4, 6>>, <<7, 2, 4>>>>, limit |-> 9, gens |->
     {}], [class |-> "transform", top |-> 0, consumer |-> "materialize", in |-> <<<<1,
     3, 5>>, <<4, 6, 1>>, <<7, 2>>>>, limit |-> 1, gens |-> {}], [class |-> "tuple", top
     |-> 3, consumer |-> "materialize", in |-> <<<<1, 3, 5>>, <<4, 6, 1>>, <<7, 2>>>>,
     limit |-> 1, gens |-> {}], [class |-> "tuple", top |-> 0, consumer |->
     "materialize", in |-> <<<<1, 3, 5>>, <<4, 6, 1>>, <<7, 2>>>>, limit |-> 9, gens |->
     {}], [class |-> "transform", top |-> 0, consumer |-> "materialize", in |-> <<<<1,
     3>>, <<4, 6, 1>>, <<7, 2, 4>>, <<3, 5, 7>>>>, limit |-> 1, gens |-> {}], [class |->
     "tuple", top |-> 1, consumer |-> "materialize", in |-> <<<<1, 3>>, <<4, 6, 1>>,
     <<7, 2, 4>>, <<3, 5, 7>>>>, limit |-> 1, gens |-> {}], [class |-> "tuple", top |->
     0, consumer |-> "materialize", in |-> <<<<1, 3>>, <<4, 6, 1>>, <<7, 2, 4>>, <<3, 5,
     7>>>>, limit |-> 9, gens |-> {}], [class |-> "transform", top |-> 0, consumer |->
     "bounded", in |-> <<<<1, 3>>, <<4, 6, 1>>, <<7, 2, 4>>, <<3, 5, 7>>>>, limit |-> 1,
     gens |-> {}], [class |-> "tuple", top |-> 1, consumer |-> "bounded", in |-> <<<<1,
     3>>, <<4, 6, 1>>, <<7, 2, 4>>, <<3, 5, 7>>>>, limit |-> 1, gens |-> {}], [class |->
     "tuple", top |-> 0, consumer |-> "bounded", in |-> <<<<1, 3>>, <<4, 6, 1>>, <<7, 2,
     4>>, <<3, 5, 7>>>>, limit |-> 9, gens |-> {}], [class |-> "transform", top |-> 0,
     consumer |-> "materialize", in |-> <<<<1, 3, 5>>, <<4, 6>>, <<7, 2, 4>>, <<3, 5,
     7>>>>, limit |-> 1, gens |-> {}], [class |-> "tuple", top |-> 2, consumer |->
     "materialize", in |-> <<<<1, 3, 5>>, <<4, 6>>, <<7, 2, 4>>, <<3, 5, 7>>>>, limit
     |-> 1, gens |-> {}], [class |-> "tuple", top |-> 0, consumer |-> "materialize", in
     |-> <<<<1, 3, 5>>, <<4, 6>>, <<7, 2, 4>>, <<3, 5, 7>>>>, limit |-> 9, gens |-> {}],
     [class |-> "transform", top |-> 0, consumer |-> "materialize", in |-> <<<<1, 3,
     5>>, <<4, 6, 1>>, <<7, 2>>, <<3, 5, 7>>>>, limit |-> 1, gens |-> {}], [class |->
     "tuple", top |-> 3, consumer |-> "materialize", in |-> <<<<1, 3, 5>>, <<4, 6, 1>>,
     <<7, 2>>, <<3, 5, 7>>>>, limit |-> 1, gens |-> {}], [class |-> "tuple", top |-> 0,
     consumer |-> "materialize", in |-> <<<<1, 3, 5>>, <<4, 6, 1>>, <<7, 2>>, <<3, 5,
     7>>>>, limit |-> 9, gens |-> {}], [class |-> "transform", top |-> 0, consumer |->
     "materialize", in |-> <<<<1, 3, 5>>, <<4, 6, 1>>, <<7, 2, 4>>, <<3, 5>>>>, limit
     |-> 1, gens |-> {}], [class |-> "tuple", top |-> 4, consumer |-> "materialize", in
     |-> <<<<1, 3, 5>>, <<4, 6, 1>>, <<7, 2, 4>>, <<3, 5>>>>, limit |-> 1, gens |-> {}],
     [class |-> "tuple", top |-> 0, consumer |-> "materialize", in |-> <<<<1, 3, 5>>,
     <<4, 6, 1>>, <<7, 2, 4>>, <<3, 5>>>>, limit |-> 9, gens |-> {}], [class |->
     "transform", top |-> 0, consumer |-> "materialize", in |-> <<<<1, 3>>, <<4, 6, 1>>,
     <<7, 2, 4>>, <<3, 5, 7>>, <<6, 1, 3>>>>, limit |-> 1, gens |-> {}], [class |->
     "tuple", top |-> 1, consumer |-> "materialize", in |-> <<<<1, 3>>, <<4, 6, 1>>,
     <<7, 2, 4>>, <<3, 5, 7>>, <<6, 1, 3>>>>, limit |-> 1, gens |-> {}], [class |->
     "tuple", top |-> 0, consumer |-> "materialize", in |-> <<<<1, 3>>, <<4, 6, 1>>,
     <<7, 2, 4>>, <<3, 5, 7>>, <<6, 1, 3>>>>, limit |-> 9, gens |-> {}], [class |->
     "transform", top |-> 0, consumer |-> "bounded", in |-> <<<<1, 3>>, <<4, 6, 1>>,
     <<7, 2, 4>>, <<3, 5, 7>>, <<6, 1, 3>>>>, limit |-> 1, gens |-> {}], [class |->
     "tuple", top |-> 1, consumer |-> "bounded", in |-> <<<<1, 3>>, <<4, 6, 1>>, <<7, 2,
     4>>, <<3, 5, 7>>, <<6, 1, 3>>>>, limit |-> 1, gens |-> {}], [class |-> "tuple", top
     |-> 0, consumer |-> "bounded", in |-> <<<<1, 3>>, <<4, 6, 1>>, <<7, 2, 4>>, <<3, 5,
     7>>, <<6, 1, 3>>>>, limit |-> 9, gens |-> {}], [class |-> "transform", top |-> 0,
     consumer |-> "materialize", in |-> <<<<1, 3, 5>>, <<4, 6>>, <<7, 2, 4>>, <<3, 5,
     7>>, <<6, 1, 3>>>>, limit |-> 1, gens |-> {}], [class |-> "tuple", top |-> 2,
     consumer |-> "materialize", in |-> <<<<1, 3, 5>>, <<4, 6>>, <<7, 2, 4>>, <<3, 5,
     7>>, <<6, 1, 3>>>>, limit |-> 1, gens |-> {}], [class |-> "tuple", top |-> 0,
     consumer |-> "materialize", in |-> <<<<1, 3, 5>>, <<4, 6>>, <<7, 2, 4>>, <<3, 5,
     7>>, <<6, 1, 3>>>>, limit |-> 9, gens |-> {}], [class |-> "transform", top |-> 0,
     consumer |-> "materialize", in |-> <<<<1, 3, 5>>, <<4, 6, 1>>, <<7, 2>>, <<3, 5,
     7>>, <<6, 1, 3>>>>, limit |-> 1, gens |-> {}], [class |-> "tuple", top |-> 3,
     consumer |-> "materialize", in |-> <<<<1, 3, 5>>, <<4, 6, 1>>, <<7, 2>>, <<3, 5,
     7>>, <<6, 1, 3>>>>, limit |-> 1, gens |-> {}], [class |-> "tuple", top |-> 0,
     consumer |-> "materialize", in |-> <<<<1, 3, 5>>, <<4, 6, 1>>, <<7, 2>>, <<3, 5,
     7>>, <<6, 1, 3>>>>, limit |-> 9, gens |-> {}], [class |-> "transform", top |-> 0,
     consumer |-> "materialize", in |-> <<<<1, 3, 5>>, <<4, 6, 1>>, <<7, 2, 4>>, <<3,
     5>>, <<6, 1, 3>>>>, limit |-> 1, gens |-> {}], [class |-> "tuple", top |-> 4,
     consumer |-> "materialize", in |-> <<<<1, 3, 5>>, <<4, 6, 1>>, <<7, 2, 4>>, <<3,
     5>>, <<6, 1, 3>>>>, limit |-> 1, gens |-> {}], [class |-> "tuple", top |-> 0,
     consumer |-> "materialize", in |-> <<<<1, 3, 5>>, <<4, 6, 1>>, <<7, 2, 4>>, <<3,
     5>>, <<6, 1, 3>>>>, limit |-> 9, gens |-> {}], [class |-> "transform", top |-> 0,
     consumer |-> "materialize", in |-> <<<<1, 3, 5>>, <<4, 6, 1>>, <<7, 2, 4>>, <<3, 5,
     7>>, <<6, 1>>>>, limit |-> 1, gens |-> {}], [class |-> "tuple", top |-> 5, consumer
     |-> "materialize", in |-> <<<<1, 3, 5>>, <<4, 6, 1>>, <<7, 2, 4>>, <<3, 5, 7>>,
     <<6, 1>>>>, limit |-> 1, gens |-> {}], [class |-> "tuple", top |-> 0, consumer |->
     "materialize", in |-> <<<<1, 3, 5>>, <<4, 6, 1>>, <<7, 2, 4>>, <<3, 5, 7>>, <<6,
     1>>>>, limit |-> 9, gens |-> {}], [class |-> "transform", top |-> 0, consumer |->
     "materialize", in |-> <<<<1, 3>>, <<4, 6, 1>>, <<7, 2, 4>>, <<3, 5, 7>>, <<6, 1,
     3>>, <<2, 4, 6>>>>, limit |-> 1, gens |-> {}], [class |-> "tuple", top |-> 1,
     consumer |-> "materialize", in |-> <<<<1, 3>>, <<4, 6, 1>>, <<7, 2, 4>>, <<3, 5,
     7>>, <<6, 1, 3>>, <<2, 4, 6>>>>, limit |-> 1, gens |-> {}], [class |-> "tuple", top
     |-> 0, consumer |-> "materialize", in |-> <<<<1, 3>>, <<4, 6, 1>>, <<7, 2, 4>>,
     <<3, 5, 7>>, <<6, 1, 3>>, <<2, 4, 6>>>>, limit |-> 9, gens |-> {}], [class |->
     "transform", top |-> 0, consumer |-> "bounded", in |-> <<<<1, 3>>, <<4, 6, 1>>,
     <<7, 2, 4>>, <<3, 5, 7>>, <<6, 1, 3>>, <<2, 4, 6>>>>, limit |-> 1, gens |-> {}],
     [class |-> "tuple", top |-> 1, consumer |-> "bounded", in |-> <<<<1, 3>>, <<4, 6,
     1>>, <<7, 2, 4>>, <<3, 5, 7>>, <<6, 1, 3>>, <<2, 4, 6>>>>, limit |-> 1, gens |->
     {}], [class |-> "tuple", top |-> 0, consumer |-> "bounded", in |-> <<<<1, 3>>, <<4,
     6, 1>>, <<7, 2, 4>>, <<3, 5, 7>>, <<6, 1, 3>>, <<2, 4, 6>>>>, limit |-> 9, gens |->
     {}], [class |-> "transform", top |-> 0, consumer |-> "materialize", in |-> <<<<1,
     3, 5>>, <<4, 6>>, <<7, 2, 4>>, <<3, 5, 7>>, <<6, 1, 3>>, <<2, 4, 6>>>>, limit |->
     1, gens |-> {}], [class |-> "tuple", top |-> 2, consumer |-> "materialize", in |->
     <<<<1, 3, 5>>, <<4, 6>>, <<7, 2, 4>>, <<3, 5, 7>>, <<6, 1, 3>>, <<2, 4, 6>>>>,
     limit |-> 1, gens |-> {}], [class |-> "tuple", top |-> 0, consumer |->
     "materialize", in |-> <<<<1, 3, 5>>, <<4, 6>>, <<7, 2, 4>>, <<3, 5, 7>>, <<6, 1,
     3>>, <<2, 4, 6>>>>, limit |-> 9, gens |-> {}], [class |-> "transform", top |-> 0,
     consumer |-> "materialize", in |-> <<<<1, 3, 5>>, <<4, 6, 1>>, <<7, 2>>, <<3, 5,
     7>>, <<6, 1, 3>>, <<2, 4, 6>>>>, limit |-> 1, gens |-> {}], [class |-> "tuple", top
     |-> 3, consumer |-> "materialize", in |-> <<<<1, 3, 5>>, <<4, 6, 1>>, <<7, 2>>,
     <<3, 5, 7>>, <<6, 1, 3>>, <<2, 4, 6>>>>, limit |-> 1, gens |-> {}], [class |->
     "tuple", top |-> 0, consumer |-> "materialize", in |-> <<<<1, 3, 5>>, <<4, 6, 1>>,
     <<7, 2>>, <<3, 5, 7>>, <<6, 1, 3>>, <<2, 4, 6>>>>, limit |-> 9, gens |-> {}],
     [class |-> "transform", top |-> 0, consumer |-> "materialize", in |-> <<<<1, 3,
     5>>, <<4, 6, 1>>, <<7, 2, 4>>, <<3, 5>>, <<6, 1, 3>>, <<2, 4, 6>>>>, limit |-> 1,
     gens |-> {}], [class |-> "tuple", top |-> 4, consumer |-> "materialize", in |->
     <<<<1, 3, 5>>, <<4, 6, 1>>, <<7, 2, 4>>, <<3, 5>>, <<6, 1, 3>>, <<2, 4, 6>>>>,
     limit |-> 1, gens |-> {}], [class |-> "tuple", top |-> 0, consumer |->
     "materialize", in |-> <<<<1, 3, 5>>, <<4, 6, 1>>, <<7, 2, 4>>, <<3, 5>>, <<6, 1,
     3>>, <<2, 4, 6>>>>, limit |-> 9, gens |-> {}], [class |-> "transform", top |-> 0,
     consumer |-> "materialize", in |-> <<<<1, 3, 5>>, <<4, 6, 1>>, <<7, 2, 4>>, <<3, 5,
     7>>, <<6, 1>>, <<2, 4, 6>>>>, limit |-> 1, gens |-> {}], [class |-> "tuple", top
     |-> 5, consumer |-> "materialize", in |-> <<<<1, 3, 5>>, <<4, 6, 1>>, <<7, 2, 4>>,
     <<3, 5, 7>>, <<6, 1>>, <<2, 4, 6>>>>, limit |-> 1, gens |-> {}], [class |->
     "tuple", top |-> 0, consumer |-> "materialize", in |-> <<<<1, 3, 5>>, <<4, 6, 1>>,
     <<7, 2, 4>>, <<3, 5, 7>>, <<6, 1>>, <<2, 4, 6>>>>, limit |-> 9, gens |-> {}],
     [class |-> "transform", top |-> 0, consumer |-> "materialize", in |-> <<<<1, 3,
     5>>, <<4, 6, 1>>, <<7, 2, 4>>, <<3, 5, 7>>, <<6, 1, 3>>, <<2, 4>>>>, limit |-> 1,
     gens |-> {}], [class |-> "tuple", top |-> 6, consumer |-> "materialize", in |->
     <<<<1, 3, 5>>, <<4, 6, 1>>, <<7, 2, 4>>, <<3, 5, 7>>, <<6, 1, 3>>, <<2, 4>>>>,
     limit |-> 1, gens |-> {}], [class |-> "tuple", top |-> 0, consumer |->
     "materialize", in |-> <<<<1, 3, 5>>, <<4, 6, 1>>, <<7, 2, 4>>, <<3, 5, 7>>, <<6, 1,
     3>>, <<2, 4>>>>, limit |-> 9, gens |-> {}], [class |-> "transform", top |-> 0,
     consumer |-> "materialize", in |-> <<<<1, 2, 3>>, <<4, 5>>>>, limit |-> 1, gens |->
     {2}], [class |-> "iterator", top |-> 0, consumer |-> "materialize", in |->
     <<<<>>>>, limit |-> 2, gens |-> {}], [class |-> "iterator", top |-> 0, consumer |->
     "bounded", in |-> <<<<>>>>, limit |-> 2, gens |-> {}], [class |-> "iterator", top
     |-> 0, consumer |-> "discard", in |-> <<<<>>>>, limit |-> 2, gens |-> {}], [class
     |-> "iterator", top |-> 7, consumer |-> "materialize", in |-> <<<<>>>>, limit |->
     2, gens |-> {}], [class |-> "iterator", top |-> 7, consumer |-> "bounded", in |->
     <<<<>>>>, limit |-> 2, gens |-> {}], [class |-> "iterator", top |-> 7, consumer |->
     "discard", in |-> <<<<>>>>, limit |-> 2, gens |-> {}], [class |-> "iterator", top
     |-> 8, consumer |-> "materialize", in |-> <<<<>>>>, limit |-> 2, gens |-> {}],
     [class |-> "iterator", top |-> 8, consumer |-> "bounded", in |-> <<<<>>>>, limit
     |-> 2, gens |-> {}], [class |-> "iterator", top |-> 8, consumer |-> "discard", in
     |-> <<<<>>>>, limit |-> 2, gens |-> {}], [class |-> "iterator", top |-> 0, consumer
     |-> "materialize", in |-> <<<<1>>>>, limit |-> 2, gens |-> {}], [class |->
     "iterator", top |-> 0, consumer |-> "bounded", in |-> <<<<1>>>>, limit |-> 2, gens
     |-> {}], [class |-> "iterator", top |-> 0, consumer |-> "discard", in |->
     <<<<1>>>>, limit |-> 2, gens |-> {}], [class |-> "iterator", top |-> 7, consumer
     |-> "materialize", in |-> <<<<1>>>>, limit |-> 2, gens |-> {}], [class |->
     "iterator", top |-> 7, consumer |-> "bounded", in |-> <<<<1>>>>, limit |-> 2, gens
     |-> {}], [class |-> "iterator", top |-> 7, consumer |-> "discard", in |->
     <<<<1>>>>, limit |-> 2, gens |-> {}], [class |-> "iterator", top |-> 8, consumer
     |-> "materialize", in |-> <<<<1>>>>, limit |-> 2, gens |-> {}], [class |->
     "iterator", top |-> 8, consumer |-> "bounded", in |-> <<<<1>>>>, limit |-> 2, gens
     |-> {}], [class |-> "iterator", top |-> 8, consumer |-> "discard", in |->
     <<<<1>>>>, limit |-> 2, gens |-> {}], [class |-> "iterator", top |-> 0, consumer
     |-> "materialize", in |-> <<<<1, 1>>>>, limit |-> 2, gens |-> {}], [class |->
     "iterator", top |-> 0, consumer |-> "bounded", in |-> <<<<1, 1>>>>, limit |-> 2,
     gens |-> {}], [class |-> "iterator", top |-> 0, consumer |-> "discard", in |->
     <<<<1, 1>>>>, limit |-> 2, gens |-> {}], [class |-> "iterator", top |-> 7, consumer
     |-> "materialize", in |-> <<<<1, 1>>>>, limit |-> 2, gens |-> {}], [class |->
     "iterator", top |-> 7, consumer |-> "bounded", in |-> <<<<1, 1>>>>, limit |-> 2,
     gens |-> {}], [class |-> "iterator", top |-> 7, consumer |-> "discard", in |->
     <<<<1, 1>>>>, limit |-> 2, gens |-> {}], [class |-> "iterator", top |-> 8, consumer
     |-> "materialize", in |-> <<<<1, 1>>>>, limit |-> 2, gens |-> {}], [class |->
     "iterator", top |-> 8, consumer |-> "bounded", in |-> <<<<1, 1>>>>, limit |-> 2,
     gens |-> {}], [class |-> "iterator", top |-> 8, consumer |-> "discard", in |->
     <<<<1, 1>>>>, limit |-> 2, gens |-> {}], [class |-> "iterator", top |-> 0, consumer
     |-> "materialize", in |-> <<<<1, 1, 2>>>>, limit |-> 2, gens |-> {}], [class |->
     "iterator", top |-> 0, consumer |-> "bounded", in |-> <<<<1, 1, 2>>>>, limit |-> 2,
     gens |-> {}], [class |-> "iterator", top |-> 0, consumer |-> "discard", in |->
     <<<<1, 1, 2>>>>, limit |-> 2, gens |-> {}], [class |-> "iterator", top |-> 7,
     consumer |-> "materialize", in |-> <<<<1, 1, 2>>>>, limit |-> 2, gens |-> {}],
     [class |-> "iterator", top |-> 7, consumer |-> "bounded", in |-> <<<<1, 1, 2>>>>,
     limit |-> 2, gens |-> {}], [class |-> "iterator", top |-> 7, consumer |->
     "discard", in |-> <<<<1, 1, 2>>>>, limit |-> 2, gens |-> {}], [class |->
     "iterator", top |-> 8, consumer |-> "materialize", in |-> <<<<1, 1, 2>>>>, limit
     |-> 2, gens |-> {}], [class |-> "iterator", top |-> 8, consumer |-> "bounded", in
     |-> <<<<1, 1, 2>>>>, limit |-> 2, gens |-> {}], [class |-> "iterator", top |-> 8,
     consumer |-> "discard", in |-> <<<<1, 1, 2>>>>, limit |-> 2, gens |-> {}], [class
     |-> "iterator", top |-> 0, consumer |-> "materialize", in |-> <<<<1, 2, 2, 3, 3,
     3>>>>, limit |-> 2, gens |-> {}], [class |-> "iterator", top |-> 0, consumer |->
     "bounded", in |-> <<<<1, 2, 2, 3, 3, 3>>>>, limit |-> 2, gens |-> {}], [class |->
     "iterator", top |-> 0, consumer |-> "discard", in |-> <<<<1, 2, 2, 3, 3, 3>>>>,
     limit |-> 2, gens |-> {}], [class |-> "iterator", top |-> 7, consumer |->
     "materialize", in |-> <<<<1, 2, 2, 3, 3, 3>>>>, limit |-> 2, gens |-> {}], [class
     |-> "iterator", top |-> 7, consumer |-> "bounded", in |-> <<<<1, 2, 2, 3, 3, 3>>>>,
     limit |-> 2, gens |-> {}], [class |-> "iterator", top |-> 7, consumer |->
     "discard", in |-> <<<<1, 2, 2, 3, 3, 3>>>>, limit |-> 2, gens |-> {}], [class |->
     "iterator", top |-> 8, consumer |-> "materialize", in |-> <<<<1, 2, 2, 3, 3, 3>>>>,
     limit |-> 2, gens |-> {}], [class |-> "iterator", top |-> 8, consumer |->
     "bounded", in |-> <<<<1, 2, 2, 3, 3, 3>>>>, limit |-> 2, gens |-> {}], [class |->
     "iterator", top |-> 8, consumer |-> "discard", in |-> <<<<1, 2, 2, 3, 3, 3>>>>,
     limit |-> 2, gens |-> {}], [class |-> "iterator", top |-> 0, consumer |->
     "materialize", in |-> <<<<3, 3, 1, 1, 3>>>>, limit |-> 2, gens |-> {}], [class |->
     "iterator", top |-> 0, consumer |-> "bounded", in |-> <<<<3, 3, 1, 1, 3>>>>, limit
     |-> 2, gens |-> {}], [class |-> "iterator", top |-> 0, consumer |-> "discard", in
     |-> <<<<3, 3, 1, 1, 3>>>>, limit |-> 2, gens |-> {}], [class |-> "iterator", top
     |-> 7, consumer |-> "materialize", in |-> <<<<3, 3, 1, 1, 3>>>>, limit |-> 2, gens
     |-> {}], [class |-> "iterator", top |-> 7, consumer |-> "bounded", in |-> <<<<3, 3,
     1, 1, 3>>>>, limit |-> 2, gens |-> {}], [class |-> "iterator", top |-> 7, consumer
     |-> "discard", in |-> <<<<3, 3, 1, 1, 3>>>>, limit |-> 2, gens |-> {}], [class |->
     "iterator", top |-> 8, consumer |-> "materialize", in |-> <<<<3, 3, 1, 1, 3>>>>,
     limit |-> 2, gens |-> {}], [class |-> "iterator", top |-> 8, consumer |->
     "bounded", in |-> <<<<3, 3, 1, 1, 3>>>>, limit |-> 2, gens |-> {}], [class |->
     "iterator", top |-> 8, consumer |-> "discard", in |-> <<<<3, 3, 1, 1, 3>>>>, limit
     |-> 2, gens |-> {}]}, Copies <- 3, Calls <- {c \in [op : {"for_each", "for_each_m",
     "find"}, B : {2}, ps : {1, 2}, init : {<<1, 2, 3, 4, 5, 3, 7, 8>>}, uninit : {{}},
     first : 0..5, last : {3, 5, 6, 8}, out : {0}, in : {<<>>}] \cup [op : {"generate",
     "materialize"}, B : {2}, ps : {1, 2}, init : {<<1, 2, 3, 4, 5, 3, 7, 8>>}, uninit :
     {{}, {1}, {0, 1}}, first : {0}, last : {3, 5, 6, 7, 8}, out : 0..3, in : {<<21, 22,
     23, 24, 25, 26, 27, 28>>}] \cup [op : {"materialize", "materialize_all"}, B : {2},
     ps : {1, 2}, init : {<<1, 2, 3, 4, 5, 3, 7, 8>>}, uninit : {{}}, first : {0}, last
     : {8}, out : 0..3, in : {<<>>, <<21>>, <<21, 22>>, <<21, 22, 23, 24, 25>>}] \cup
     [op : {"copy"}, B : {2}, ps : {1, 2}, init : {<<1, 2, 3, 4, 5, 3, 7, 8>>}, uninit :
     {{}}, first : 0..4, last : {4, 7, 8}, out : 0..3, in : {<<>>}] : c.first <= c.last
     /\ (c.op = "copy" => c.out <= c.first)}, Ahead <- 2, Wanted <- 3, May <- {}
BL == INSTANCE BlockScheduler WITH Programs <- [pre : {<<<<"alloc", 1>>, <<"alloc", 2>>,
     <<"alloc", 3>>, <<"write", 1>>, <<"fill", 2>>, <<"write", 3>>>>}, body : [1..4 ->
     ({"read", "write"} \X (1..2)) \cup {<<"write", 3>>}], alg : {"lfd"}, post :
     {<<<<"read", 1>>, <<"read", 2>>, <<"read", 3>>>>}] \cup [pre : {<<<<"alloc", 1>>,
     <<"alloc", 2>>, <<"alloc", 3>>>>}, body : [1..3 -> {"read", "write"} \X (1..3)],
     alg : {"lfd"}, post : {<<<<"read", 1>>, <<"read", 2>>, <<"read", 3>>>>}] \cup [pre
     : {<<<<"alloc", 1>>, <<"alloc", 2>>, <<"alloc", 3>>>>, <<<<"alloc", 1>>, <<"alloc",
     2>>, <<"alloc", 3>>, <<"write", 1>>, <<"fill", 2>>, <<"write", 3>>>>}, body :
     {<<<<"both", 1, 2>>, <<"twice", 3>>, <<"tick", 0>>, <<"both", 2, 1>>, <<"deinit",
     3>>, <<"both", 3, 1>>>>, <<<<"alloc", 4>>, <<"both", 1, 4>>, <<"fill", 2>>,
     <<"both", 4, 3>>, <<"free", 4>>, <<"write", 2>>, <<"alloc", 4>>, <<"read", 4>>,
     <<"both", 4, 1>>, <<"free", 4>>>>, <<<<"write", 1>>, <<"write", 2>>, <<"extract",
     1>>, <<"read", 3>>, <<"init", 1>>, <<"both", 1, 2>>>>, <<<<"deinit", 1>>, <<"skip",
     1>>, <<"skip", 2>>, <<"read", 1>>, <<"fill", 3>>>>}, alg : {"lru", "lfd"}, post :
     {<<<<"lru", 0>>, <<"read", 1>>, <<"flush", 0>>, <<"both", 2, 3>>>>}], Sizes <- {2,
     3}, AtOnce <- 2, Handles <- 1..4
PS == INSTANCE PrefetchScheduler WITH Programs <- [pre : {<<<<"alloc", 1>>, <<"alloc",
     2>>, <<"alloc", 3>>, <<"write", 1>>, <<"fill", 2>>, <<"write", 3>>>>}, body : [1..3
     -> ({"read", "write"} \X (1..3)) \cup {<<"fill", 2>>, <<"both", 3, 1>>, <<"deinit",
     2>>}], alg : {"pre"}, post : {<<<<"lru", 0>>, <<"read", 1>>, <<"flush", 0>>,
     <<"both", 2, 3>>>>}] \cup [pre : {<<<<"alloc", 1>>, <<"alloc", 2>>, <<"alloc",
     3>>>>, <<<<"alloc", 1>>, <<"alloc", 2>>, <<"alloc", 3>>, <<"write", 1>>, <<"fill",
     2>>, <<"write", 3>>>>}, body : {<<<<"both", 1, 2>>, <<"twice", 3>>, <<"tick", 0>>,
     <<"both", 2, 1>>, <<"deinit", 3>>, <<"both", 3, 1>>>>, <<<<"alloc", 4>>, <<"both",
     1, 4>>, <<"fill", 2>>, <<"both", 4, 3>>, <<"free", 4>>, <<"write", 2>>, <<"alloc",
     4>>, <<"read", 4>>, <<"both", 4, 1>>, <<"free", 4>>>>, <<<<"deinit", 1>>, <<"skip",
     1>>, <<"skip", 2>>, <<"read", 1>>, <<"fill", 3>>>>}, alg : {"pre"}, post :
     {<<<<"lru", 0>>, <<"read", 1>>, <<"flush", 0>>, <<"both", 2, 3>>>>}], Sizes <- {2,
     3}, AtOnce <- 2, Handles <- 1..4, Reorder <- FALSE
MT == INSTANCE MatrixMultiply WITH Side <- 2, Cases <- [kind : {"multiply"}, op : {0,
     1}, n : 1..3, l : 1..3, m : 1..3, ta : BOOLEAN, tb : BOOLEAN, seed : {1}, b : {1},
     cut : {0}] \cup [kind : {"multiply"}, op : {2, 4, 5}, n : {4, 5}, l : {4}, m : {4,
     7}, ta : BOOLEAN, tb : BOOLEAN, seed : {1}, b : {1}, cut : {0}] \cup [kind :
     {"multiply"}, op : {2, 4, 5}, n : {8}, l : {8}, m : {8}, ta : {TRUE}, tb : {FALSE},
     seed : {1}, b : {1}, cut : {0}] \cup [kind : {"multiply"}, op : {3}, n : {4, 5}, l
     : {4}, m : {3, 4}, ta : {FALSE}, tb : {FALSE}, seed : {1}, b : {1}, cut : {0}] \cup
     [kind : {"multiply"}, op : {3}, n : {8}, l : {6}, m : {5}, ta : {FALSE}, tb :
     {FALSE}, seed : {1}, b : {1}, cut : {0}] \cup [kind : {"multiply"}, op : {6}, n :
     {4, 6}, l : {4}, m : {3, 5}, ta : BOOLEAN, tb : BOOLEAN, seed : {1}, b : {1}, cut :
     {0}] \cup [kind : {"multiply"}, op : {6}, n : {5}, l : {5}, m : {5}, ta : {FALSE},
     tb : {FALSE}, seed : {1, 2}, b : {0}, cut : {0}] \cup [kind : {"multiply"}, op :
     {7}, n : {2}, l : {2}, m : {2}, ta : BOOLEAN, tb : BOOLEAN, seed : {1}, b : {1},
     cut : {0}] \cup [kind : {"element"}, op : {"add", "sub", "times"}, n : {2}, l :
     {2}, m : {2}, ta : BOOLEAN, tb : BOOLEAN, seed : {1, 2}, b : {1, 2}, cut : {0}]
     \cup [kind : {"element"}, op : {"times"}, n : {2}, l : {3}, m : {2}, ta : BOOLEAN,
     tb : BOOLEAN, seed : {1}, b : {1}, cut : {0}] \cup [kind : {"vector"}, op :
     {"vector"}, n : 1..3, l : 1..4, m : {1}, ta : BOOLEAN, tb : {FALSE}, seed : {1, 2},
     b : {0}, cut : {0, 1}]
MX == INSTANCE Matrices WITH Side <- 2, Handles <- {"a", "b"}, Iterators <- {"i", "k"},
     Const <- {"k"}, Shapes <- {<<2, 3>>}, MaxOps <- 4, May <- {}

Init ==
    \/ which = "multiwaymerge" /\ PM!MergeInit
    \/ which = "parallelmerge" /\ PM!Init
    \/ which = "prefetcher" /\ BK!Init
    \/ which = "bufferedwriter" /\ BK!WriterInit
    \/ which = "runformation" /\ RF!Init
    \/ which = "externalsort" /\ ES!Init
    \/ which = "sorter" /\ SO!Init
    \/ which = "runscreator" /\ RF!CreatorInit
    \/ which = "scans" /\ ST!ScanInit
    \/ which = "streams" /\ ST!Init
    \/ which = "blockscheduler" /\ BL!Init
    \/ which = "prefetchscheduler" /\ PS!PrefetchInit
    \/ which = "matrixmultiply" /\ MT!Init
    \/ which = "matrices" /\ MX!Init

MultiwayMergeStep == which = "multiwaymerge" /\ PM!MergeNext /\ UNCHANGED which
ParallelMergeStep == which = "parallelmerge" /\ PM!Next /\ UNCHANGED which
PrefetcherStep == which = "prefetcher" /\ BK!Next /\ UNCHANGED which
BufferedWriterStep == which = "bufferedwriter" /\ BK!WriterNext /\ UNCHANGED which
RunFormationStep == which = "runformation" /\ RF!Next /\ UNCHANGED which
ExternalSortStep == which = "externalsort" /\ ES!Next /\ UNCHANGED which
SorterStep == which = "sorter" /\ SO!Next /\ UNCHANGED which
RunsCreatorStep == which = "runscreator" /\ RF!CreatorNext /\ UNCHANGED which
ScansStep == which = "scans" /\ ST!ScanNext /\ UNCHANGED which
StreamsStep == which = "streams" /\ ST!Next /\ UNCHANGED which
BlockSchedulerStep == which = "blockscheduler" /\ BL!Next /\ UNCHANGED which
PrefetchSchedulerStep == which = "prefetchscheduler" /\ PS!PrefetchNext /\ UNCHANGED which
MatrixMultiplyStep == which = "matrixmultiply" /\ MT!Next /\ UNCHANGED which
MatricesStep == which = "matrices" /\ MX!Next /\ UNCHANGED which

Next ==
    \/ MultiwayMergeStep \/ ParallelMergeStep \/ PrefetcherStep \/ BufferedWriterStep
    \/ RunFormationStep \/ ExternalSortStep \/ SorterStep \/ RunsCreatorStep
    \/ ScansStep \/ StreamsStep \/ BlockSchedulerStep \/ PrefetchSchedulerStep
    \/ MatrixMultiplyStep \/ MatricesStep

Spec == Init /\ [][Next]_vars

\* Every object has the type its module states.
TypeOK ==
    /\ which = "multiwaymerge" => PM!MergeTypeOK
    /\ which = "parallelmerge" => PM!TypeOK
    /\ which = "prefetcher" => BK!TypeOK
    /\ which = "bufferedwriter" => BK!WriterTypeOK
    /\ which = "runformation" => RF!TypeOK
    /\ which = "externalsort" => ES!TypeOK
    /\ which = "sorter" => SO!TypeOK
    /\ which = "runscreator" => RF!CreatorTypeOK
    /\ which = "scans" => ST!ScanTypeOK
    /\ which = "streams" => ST!TypeOK
    /\ which = "blockscheduler" => BL!TypeOK
    /\ which = "prefetchscheduler" => PS!TypeOK
    /\ which = "matrixmultiply" => MT!TypeOK
    /\ which = "matrices" => MX!TypeOK

\* Merges, splits and sorts produce the sorted sequence of just the elements
\* they were given, stable where they promise it, and touch nothing else.
SortedRight ==
    \* A multiway merge loses, doubles and invents nothing.
    /\ which = "multiwaymerge" => PM!NothingLost
    \* A multiway merge writes in order.
    /\ which = "multiwaymerge" => PM!OutputSorted
    \* A stable merge keeps equal elements in the order of their sequences.
    /\ which = "multiwaymerge" => PM!MergeStable
    \* A split at a global rank puts just the rank elements on the left.
    /\ which = "parallelmerge" => PM!PartitionExact
    \* The selected element has the rank it was selected by.
    /\ which = "parallelmerge" => PM!SelectionRight
    \* Threads that merge chunks fill the target with the merge.
    /\ which = "parallelmerge" => PM!ThreadsMerge
    \* Threads that sort together sort.
    /\ which = "parallelmerge" => PM!ThreadsSort
    \* A stable parallel sort is stable.
    /\ which = "parallelmerge" => PM!SortStable
    \* After sort() and ksort() the range is sorted.
    /\ which = "externalsort" => ES!RangeSorted
    \* sort() and ksort() leave the elements outside of the range alone.
    /\ which = "externalsort" => ES!OutsideUntouched
    \* A sorter hands out what was pushed in sorted order, as often as it is
    \* rewound.
    /\ which = "sorter" => SO!ReadsSorted
    \* size() is what was pushed or is left to be read.
    /\ which = "sorter" => SO!SizeExact
    \* The runs of a creator hold the input, sorted and on disk.
    /\ which = "runscreator" => RF!RunsComplete

\* Streams, scans, readers and writers pass on every element once, in order
\* and unchanged.
StreamsRight ==
    \* Blocks and records are consumed in the order of the sequence.
    /\ which = "prefetcher" => BK!ConsumedInOrder
    \* What arrives on disk is what was handed in.
    /\ which = "bufferedwriter" => BK!WrittenAsGiven
    \* After flush() everything handed in is on disk.
    /\ which = "bufferedwriter" => BK!AllWritten
    \* After a scan around the cache the vector has its result.
    /\ which = "scans" => ST!VectorHasResult
    \* for_each sees the range in order and find the first equal element.
    /\ which = "scans" => ST!ScanResult
    \* Nothing unsaved is forgotten and no write is left.
    /\ which = "scans" => ST!AnnouncedClean
    \* A pipeline of streams delivers what its combinators stand for.
    /\ which = "streams" => ST!PipelineMeaning
    \* The operation of transform is applied once to each tuple of inputs.
    /\ which = "streams" => ST!AppliedOnce
    \* The object behind the copies of a stream is deleted once.
    /\ which = "streams" => ST!DeletedOnce

\* No buffer is filled, read, reused or released while a transfer or another
\* thread needs it, and nobody waits for a transfer that does not come.
TransfersApart ==
    \* No thread frees or overwrites what another has to merge.
    /\ which = "parallelmerge" => PM!NoThreadTooEarly
    \* The prefetch schedule names every block once.
    /\ which = "prefetcher" => BK!ScheduleComplete
    \* A block that is waited for is already being read.
    /\ which = "prefetcher" => BK!NeverStalls
    \* A buffer in use is not read into.
    /\ which = "prefetcher" => BK!HeldStable
    \* The writer never waits for writes it has not started.
    /\ which = "bufferedwriter" => BK!WriterNeverStuck
    \* Every write buffer is in one place.
    /\ which = "bufferedwriter" => BK!BuffersApart
    \* Every block of every run arrives on disk as it was sorted.
    /\ which = "runformation" => RF!RunsWritten
    \* A read started by a completion handler is there when it is waited for.
    /\ which = "runformation" => RF!NoNullWait
    \* No block of the input is given back before it was read.
    /\ which = "runformation" => RF!NoReadOfDeleted
    \* Buffers are freed when no request uses them.
    /\ which = "runformation" => RF!BuffersIdle
    \* A write of a run has its buffer and its block until it is served.
    /\ which = "sorter" => SO!WritesHaveHome
    \* Elements are not pushed into a buffer that is being written.
    /\ which = "sorter" => SO!FillsIdleBuffer
    \* A half is filled when nothing of it is being written.
    /\ which = "runscreator" => RF!HalfIdle
    \* Reads and writes of one block do not overlap.
    /\ which = "prefetchscheduler" => PS!TransfersOrdered
    \* After prefetching nothing is under way.
    /\ which = "prefetchscheduler" => PS!AllWaitedFor

\* Blocks in memory and on disk are neither lost nor shared nor exceeded by
\* sorters, block schedulers and matrices.
BlocksConserved ==
    /\ TypeOK
    \* sort() and ksort() neither lose a block nor give one back twice.
    /\ which = "externalsort" => ES!BlocksConserved
    \* The interleaved allocation reaches every block of the new runs.
    /\ which = "externalsort" => ES!EveryPlaceAllocated
    \* A merge phase fits into memory and reduces the number of runs.
    /\ which = "externalsort" => ES!PhasesShrink
    \* A sorted file is sorted in place.
    /\ which = "externalsort" => ES!FileStays
    \* A sorter leaks no block and frees none twice.
    /\ which = "sorter" => SO!BlocksExact
    \* Recursive merging stays in its memory.
    /\ which = "sorter" => SO!MergerFits
    \* A run that is sorted again gives its blocks back.
    /\ which = "runscreator" => RF!RunBlocksExact
    \* No internal or external block is lost or shared.
    /\ which = "blockscheduler" => BL!MemoryExact
    \* Exactly the unheld blocks in memory can be evicted.
    /\ which = "blockscheduler" => BL!EvictableExact
    \* Each internal block is free, attached or reserved.
    /\ which = "prefetchscheduler" => PS!PrefetchMemory
    \* A block is held exactly by the iterators in it.
    /\ which = "matrices" => MX!HeldByIterators
    \* Every block is of one matrix that is in use.
    /\ which = "matrices" => MX!NoBlockLeaks

\* Swappable blocks show what was written to them under every scheduling
\* algorithm, and matrices compute what their operations mean.
MatricesRight ==
    \* A client of the block scheduler sees what it last wrote, whatever was
    \* swapped out.
    /\ which = "blockscheduler" => BL!BlockContents
    \* Simulation answers as the replay does.
    /\ which = "blockscheduler" => BL!SimulationAgrees
    \* offline_lfd evicts the block that is needed last.
    /\ which = "blockscheduler" => BL!LongestForward
    \* Prefetching changes nothing for the client, in whatever order the
    \* disks serve.
    /\ which = "prefetchscheduler" => PS!PrefetchContents
    \* Every multiplication algorithm computes the product.
    /\ which = "matrixmultiply" => MT!ProductExact
    \* Element operations regard transposition and zero blocks.
    /\ which = "matrixmultiply" => MT!ElementOpsExact
    \* Products of matrices and vectors are exact.
    /\ which = "matrixmultiply" => MT!VectorProductsExact
    \* Vector operations fit the products.
    /\ which = "matrixmultiply" => MT!VectorLaws
    \* Matrices that share blocks are independent of each other.
    /\ which = "matrices" => MX!CopiesIndependent
    \* Iterators go through the elements in their order and see them.
    /\ which = "matrices" => MX!IteratorsRight
=============================================================================
