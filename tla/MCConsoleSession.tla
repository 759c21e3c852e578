-------------------------- MODULE MCConsoleSession --------------------------
EXTENDS ConsoleSession, TLC

\* Sessions and commands are interchangeable.
MCSymmetry == Permutations(Session) \cup Permutations(Command)
=============================================================================
