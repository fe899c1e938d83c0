------------------------------ MODULE MCHistory ------------------------------
(* An instance of History for TLC: three days of three units and files that    *)
(* meet in a directory, in a start, or over a midnight, with names of each     *)
(* shape, one of which cannot be read.                                         *)
EXTENDS History

MCFile(name, parts, start, end) ==
  [dir |-> start \div DayLength, name |-> name, parts |-> parts, start |-> start, end |-> end]

\* Names that begin with the start sort before those that begin with the sensor.
MCFiles ==
  { MCFile(1, 6, 0, 1), MCFile(2, 10, 1, 3), MCFile(1, 6, 4, 7), MCFile(2, 4, 3, 5),
    MCFile(3, 9, 4, 4), MCFile(1, 10, 6, 8), MCFile(2, 6, 8, 8) }
==============================================================================
