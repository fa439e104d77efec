----------------------------- MODULE MCLibrary -----------------------------
(* What the rest of the kernel builds on, side by side: a behaviour is one of
   lists, of a hash table, of descriptors, or one call of a function. *)
EXTENDS ListsProperties, HashTable, FileTable, AlgorithmsProperties

MCKeyOf(e) == e % 5
MCHashOf(key) == <<0, 5, 2, 5, 3>>[key + 1]
MCFds == {-1, 0, 1, 2, 3, 5, 7}
MCOffsets == {-1, 1}
MCKeys == [code : {2, 26, 30}, release : {FALSE}] \cup [code : {30, CapsLock, 42, 54, 57400, 29}, release : BOOLEAN]
MCCharacters == {8, 9, 10, 12, 13, 65, 66}
MCDevices == [type : {"none", "ata", "sata", "packet"}, reset : {0, 1, 3, 4, 8}, error : {1, 2, 129}, answers : BOOLEAN, id : {<<7, 1>>}]
MCShadows == [type : {"shadow"}, reset : {0}, error : {1, 129}, answers : {FALSE}, id : {<<0, 0>>}]
MCWords == [dash : {TRUE}, name : {"-q", "-Q", "-h", "-x"}, value : {NoValue}]
           \cup [dash : {TRUE}, name : {"-F"}, value : {NoValue, 3, 5}]
           \cup [dash : {FALSE}, name : {"run", "ls", "x"}, value : {NoValue}]
MCInputs == [kind : {"division"}, n : 0..(b * b - 1)]
            \cup [kind : {"array"}, a : BoundedSeq(1..3, 6)]
            \cup [kind : {"memory"}, m : [0..5 -> 0..2]]
            \cup [kind : {"number"}, digits : BoundedSeq({0, 1, 7, 8}, 3)]
            \cup [kind : {"command"}, first : MCWords, others : {BoundedSeq(MCWords, 3)}]
            \cup [kind : {"seed"}, seed : [1..4 -> 0..3]]
            \cup [kind : {"speed"}, speed : 0..127]
            \cup [kind : {"frequencies", "sectors"}]
            \cup [kind : {"channel"}, master : MCDevices, slaves : {MCDevices \cup MCShadows}]
            \cup [kind : {"name"}, name : [1..4 -> {0, 32, 65, 66}]]
            \cup [kind : {"memory size"}, pages : 0..9]
            \cup [kind : {"files"}, files : {<<f, g>> : f, g \in {SubSeq(<<5, 6, 7, 8, 9>>, 1, n) : n \in 0..5}}]
            \cup [kind : {"bitmap"}, cnt : 0..7]
            \cup [kind : {"keys"}, first : MCKeys, others : {BoundedSeq(MCKeys, 3)}]
            \cup [kind : {"screen"}, first : MCCharacters, others : {BoundedSeq(MCCharacters, 4)}]
            \cup [kind : {"conversion"}, flags : SUBSET Flags, width : {0, 6}]
\* A behaviour is about elements or about files, never both: the same names do for both.
MCSymmetry == Permutations(Elem \cup File) \cup Permutations(Process)

VARIABLE subject
vars == <<subject, listVars, hashVars, fileVars, input>>

MCInit ==
    /\ subject \in {"lists", "hash", "files", "functions"}
    /\ ListsInit /\ HashInit /\ FilesInit
    /\ subject # "lists" => \A e \in Elem : value[e] = 1
    /\ IF subject = "functions" THEN input \in Inputs ELSE input = None
MCNext ==
    /\ UNCHANGED <<subject, input>>
    /\ \/ subject = "lists" /\ ListsNext /\ UNCHANGED <<hashVars, fileVars>>
       \/ subject = "hash" /\ HashNext /\ UNCHANGED <<listVars, fileVars>>
       \/ subject = "files" /\ FilesNext /\ UNCHANGED <<listVars, hashVars>>
\* What the library computes from data: the functions give what they should for every input,
\* and the calls on lists that compare elements find, sort and filter the right ones.
LibraryComputes == FunctionsCompute /\ OrderIsRight

MCSpec == MCInit /\ [][MCNext]_vars
=============================================================================
