------------------------------ MODULE MCCodegen ------------------------------
EXTENDS Codegen

MCThreads == <<"t1", "t2">>
MCPaths == <<"rules.spec", "src/A.sol">>
=============================================================================
