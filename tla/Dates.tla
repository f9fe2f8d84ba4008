------------------------------- MODULE Dates --------------------------------
(***************************************************************************)
(* The date of a day number, as the report's header prints it (utc_string  *)
(* of src/src/report.rs).  The years are those from March on, four hundred *)
(* to an era.                                                              *)
(***************************************************************************)
EXTENDS Integers

\* Mutant: the centuries are taken for leap years.
year_of_era_Julian(doe) == (doe - doe \div 1460) \div 365

year_of_era(doe) == (doe - doe \div 1460 + doe \div 36524 - doe \div 146096) \div 365

\* The date of a day counted from 1970-01-01.
civil(days) ==
    LET z   == days + 719468
        era == z \div 146097
        doe == z - era * 146097
        yoe == year_of_era(doe)
        doy == doe - (365 * yoe + yoe \div 4 - yoe \div 100)
        mp  == (5 * doy + 2) \div 153
        m   == IF mp < 10 THEN mp + 3 ELSE mp - 9
    IN  [y |-> yoe + era * 400 + (IF m <= 2 THEN 1 ELSE 0),
         m |-> m,
         d |-> doy - (153 * mp + 2) \div 5 + 1]
=============================================================================
