-------------------------------- MODULE MCBuild --------------------------------
(* Build with the stock contents that the small instances start from.        *)
EXTENDS Build

Standard == [auto_run |-> {"avogetty"}, login |-> {"version"}]
StandardOnly == {Standard}
AnyLayout ==
  {Standard, [Standard EXCEPT !.auto_run = {}], [Standard EXCEPT !.login = {}]}

EachFeature == {{"modem"}, {"avsp"}, {"java"}, {"enh"}, {"gg"}}
SomeFeatures == {{}, {"java"}, {"modem", "enh"}, Features}
================================================================================
