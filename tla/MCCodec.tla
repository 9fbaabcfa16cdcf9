------------------------------ MODULE MCCodec ------------------------------
(***************************************************************************)
(* Small instances of Codec: three tags, and who does what where.          *)
(***************************************************************************)
EXTENDS Codec

CONSTANTS near, far, long

(* near is as strong as the code for "no tag", and its EPC holds header,   *)
(* end and error bytes; long has an EPC of 128 bits.                       *)
EpcOfNear == <<226, 0, 170, 21, 221, 255, 1, 9, 16, 171, 205, 239>>
EpcOfFar  == <<226, 0, 170, 21, 221, 255, 1, 9, 16, 171, 205, 238>>
MCTags ==
  near :> [rssi |-> 21, epc |-> EpcOfNear]
    @@ far  :> [rssi |-> 200, epc |-> EpcOfFar]
    @@ long :> [rssi |-> 190, epc |-> EpcOfNear \o <<1, 2, 3, 4>>]

(* The hex text of an EPC, and one digit many times, as tuples. *)
Text(epc) == HexUpper(epc) \o <<>>
Times(n, digit) == [i \in 1..n |-> digit] \o <<>>

Plain(names) == {[name |-> n] : n \in names}
Powers(values) == {[name |-> "set_transmission_power", power |-> v] : v \in values}

Memory(name, password, bank, addr, more) ==
  more @@ [name |-> name, password |-> password, bank |-> bank, addr |-> addr]
Read(password, bank, addr, length) == Memory("read_mem", password, bank, addr, [length |-> length])
Write(bank, addr, text) == Memory("write_mem", Zeroes, bank, addr, [text |-> text])

(* Settings, in front of a reader that may refuse any request with any     *)
(* kind of code, or with an empty error response. 2650 is 26.50 dBm; 1689  *)
(* and 1690 differ by a truncation.                                        *)
Codes ==
  {0, 9, 16, 18, 19, 20, 21, 22, 23, 26, 27, 29, 32, 42, 43, 46,  \* the named ones
   160, 179, 204, 223, 225, 240, 255}

Settings ==
  [calls |->
     Plain({"get_working_area", "get_working_channel", "get_transmit_power",
            "stop_multiple_polling_instructions", "clear_select"})
       \cup Powers({-100, 0, 1689, 1690, 2650, 65535, 70000})
       \cup {[name |-> "set_working_area", area |-> a] : a \in DOMAIN AreaCode}
       \cup {[name |-> "enable_multiple_polling_instructions", times |-> n] : n \in {100, 65535}},
   errors |-> {<<>>} \cup {<<b>> : b \in Codes},
   tags |-> {}, builds |-> {"debug"}]

(* Tags: words of user memory on both sides of address 256, where the      *)
(* address needs its second byte; an EPC written over another; a selection *)
(* by hand, of far and of the EPC written.                                 *)
Rewritten == <<226, 0, 170, 21, 221, 255, 1, 9, 16, 171, 0, 221>>

TagWork ==
  [calls |->
     Plain({"single_polling_instruction", "clear_select"})
       \cup {[name |-> "select_tag", text |-> t] :
               t \in {Text(EpcOfFar), Text(Rewritten)}}
       \cup {Read(Zeroes, 3, 255, 3), Read(Zeroes, 1, 2, 6), Read(<<0, 0, 0, 1>>, 3, 255, 2)}
       \cup {Write(3, 255, <<0, 0, 1, 2, 13, 13, 15, 15>>), Write(1, 2, Text(Rewritten)),
             Write(3, 0, <<1, 2>>)}
       \cup {[name |-> "kill_tag", password |-> <<0, 0, 0, 1>>],
             [name |-> "lock_tag", password |-> Zeroes, data |-> <<2, 0, 128>>]},
   errors |-> {<<23>>},
   tags |-> {near, far, long}, builds |-> {"debug"}]

(* Reads and writes of 130 words, whose sums pass 65535, and text that is  *)
(* no hex, with a character of two bytes across two pairs and in one.      *)
LongFrames ==
  [calls |-> {[name |-> "select_tag", text |-> [Text(EpcOfFar) EXCEPT ![24] = Bad]],
              Read(Zeroes, 3, 0, 130), Read(Zeroes, 3, 0, 120),
              Write(3, 0, Times(520, 15)), Write(3, 0, Times(480, 14)),
              Write(3, 2, <<1, Bad, Plus, 3>>),
              Write(3, 2, <<1, Wide, Rest, 3>>), Write(3, 2, <<Wide, Rest, 1, 3>>)},
   errors |-> {}, tags |-> {far}, builds |-> {"debug", "release"}]

MCSites == {Settings, TagWork, LongFrames}
SettingsSites == {Settings}
TagSites == {TagWork}
=============================================================================
