---------------------------- MODULE MCAblerSession ----------------------------
\* AblerSession with a few processes; commands, servers and paths are alike.
EXTENDS AblerSession, TLC

Symmetric == Permutations(Client) \cup Permutations(Admin) \cup Permutations(Path)

===============================================================================
