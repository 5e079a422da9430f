------------------------------ MODULE MCFileFs ------------------------------
EXTENDS FileFs

MCNames == {"a", "b", "c"}
\* a is less than a block, b fills three; c is a directory or a file the user
\* does not have.
MCUserFiles == [a |-> <<"a1">>, b |-> <<"b1", "b2", "b3", "b4", "b5", "b6">>]
\* ... and one that ends within its second block.
MCOddFiles == [b |-> <<"b1", "b2", "b3">>]
ASSUME FilesAssumption == FilesFit(MCUserFiles) /\ ~FilesFit(MCOddFiles)
MCPaths == {<< >>, <<"a">>, <<"b">>, <<"c">>, <<"c", "a">>, <<"c", "b">>, <<"c", "a", "b">>}
=============================================================================
