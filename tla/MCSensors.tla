------------------------------ MODULE MCSensors ------------------------------
(* The instance: two power sensors, both in the total, and a table of one  *)
(* entry.                                                                  *)
EXTENDS Sensors

MCValue == << {1, 2}, {2} >>
MCLimit == <<1, 2, NoLimit>>
MCRequest == {"power", "total", "fpt", "flags"}
=============================================================================
