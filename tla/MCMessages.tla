------------------------------ MODULE MCMessages ------------------------------
(* Instances of Messages: a frame of a real device, with its key, and enough *)
(* values for every field to be there and not to be there.                   *)
EXTENDS Messages

MCSeeds == {3, 14, 60, 125, 250}
MCPayloads == {<<>>, <<7>>, <<1, 2, 3, 4>>}
MCManufacturers == {LG_MAN_CODE, NO_MANUFACTURER}

(* All combinations of the fields that may be there, the other bits by turns. *)
MCOptions == {1, 66, 4, 71, 128, 195, 132, 134}
MCExtendedOptions == {0, 18, 32 + 18, 128 + 9, 64 + 32 + 18, 160 + 27, 192 + 6, 224 + 18}
MCAppInformations == {0, 1, 2, 4, 8, 5, 14, 15}

MCGenuine ==
  [status |-> 0, link_value |-> 222, sequence_number |-> 173, application_id |-> 0,
   source_id |-> <<10, 0, 84, 0>>, source_again |-> <<10, 0, 84, 0>>, endpoint |-> 197,
   security |-> 2, key_type |-> 4, auto_commissioning |-> FALSE, rx_after_tx |-> TRUE,
   security_frame_counter |-> <<173, 16, 0, 0>>, command_id |-> 162,
   mic |-> <<181, 146, 35, 78>>, proxy_table_entry |-> 0,
   payload |-> <<1, 0, 32, 0, 32, 32, 0, 0, 0, 64, 66, 5, 49, 46, 48, 46, 48>>]
MCGenuineKey == <<172, 242, 3, 111, 85, 130, 114, 8, 90, 48, 176, 109, 96, 54, 131, 95>>
MCWrongKey == <<173, 242, 3, 111, 85, 130, 114, 8, 90, 48, 176, 109, 96, 54, 131, 95>>
MCMasks == {1, 16, 128}

(* Stacks 5.7.3.0 and 6.5.5.0 among them, and firmware of two hardwares.     *)
MCAdapters ==
  [protocol : {5, 8}, stackType : {1, 2}, stack : {22320, 25936}, manufacturer : {0, LEGRAND},
   version : {4625, 8721, 4881}, answers : {"whole", "cut", "whole, cut"}]

(* A string that makes a report as long as a payload can be, among them.     *)
(* Left out: temperatures from -0.99 to -0.01, shown without their sign.     *)
Readings == {
  <<"temperature", <<-12, 34>>>>, <<"temperature", <<0, 5>>>>, <<"temperature", <<21, 50>>>>,
  <<"humidity", <<99, 99>>>>, <<"battery", <<3, 1>>>>, <<"door", "open">>, <<"door", "closed">>,
  <<"firmware", <<>>>>, <<"firmware", <<49, 46, 48>>>>, <<"occupancy", <<1>>>>}
MCMeasurements ==
  UNION {[1 .. n -> Readings] : n \in 1 .. 2}
    \cup {<< <<"firmware", [i \in 1 .. 249 |-> 65]>> >>,
          << <<"battery", <<3, 2>>>>, <<"firmware", <<49, 46, 48, 46, 48>>>>, <<"door", "open">> >>}
MCCuts == {0, 1, 2, 6, 8, 30}

Sections(kind, n) ==
  [id |-> CASE kind = "header" -> <<235, 23, 166, 3>> [] kind = "prog" -> <<254, 1, 1, 254>>
            [] kind = "application" -> ApplicationId [] kind = "end" -> <<252, 4, 4, 252>>,
   payload |-> Ramp(n, n)]
Applications == {Sections("application", n) : n \in {12, 27, 28, 30, 64, 65}}
ImageHeader == Sections("header", 8)
ImageProg == Sections("prog", 300)
ImageEnd == Sections("end", 4)
MCImages ==
  {<<ImageHeader, a, ImageProg, ImageEnd>> : a \in Applications} \cup {<<ImageHeader, ImageProg, a>> : a \in Applications}
    \cup {<<a, b>> : a, b \in Applications} \cup {<<ImageHeader, ImageProg, ImageEnd>>}

Arg(o, n) == [opt |-> o, number |-> n, id |-> <<10, 0, 84, 0>>, key |-> GenuineKey, fault |-> "none"]
Device(i, fault) == [Arg("s", 0) EXCEPT !.id = i, !.fault = fault]
Args ==
  {Arg(o, 0) : o \in {"l", "G", "k", "w", "*", "r"}} \cup {Arg("c", 11), Arg("c", 26), Arg("C", 60)}
    \cup {Device(<<173, 16, 254, 18>>, f) : f \in {"none", "noSlash", "short", "letter", "long"}}
    \cup {[Arg("r", 0) EXCEPT !.id = <<1, 0, 0, 0>>]}
MCCommandLines == UNION {[1 .. n -> Args] : n \in 0 .. 3}

=============================================================================
