--------------------------- MODULE SettingsRegistry ---------------------------
(***************************************************************************)
(* The settings the dashboard edits (app/core/settings_registry.py).  A    *)
(* value is [kind, n], n counting halves: 2.5 is [float, 5], True is       *)
(* [bool, 2]; a text is a number of its own.                               *)
(***************************************************************************)
EXTENDS Integers, TLC

SettingValue == [kind : {"bool", "int", "float", "text"}, n : Int]

Whole(n) == [kind |-> "int", n |-> 2 * n]
Half(n) == [kind |-> "float", n |-> n]
Flag(on) == [kind |-> "bool", n |-> IF on THEN 2 ELSE 0]
Text(i) == [kind |-> "text", n |-> i]

NoMax == -1

SettingDef(type, default, choices, min, max) ==
  [type |-> type, default |-> default, choices |-> choices, min |-> min, max |-> max]

Bool(on) == SettingDef("bool", Flag(on), {}, 0, NoMax)
IntFrom(min, max, n) ==
  SettingDef("int", Whole(n), {}, 2 * min, IF max = NoMax THEN NoMax ELSE 2 * max)
FloatFrom(min, max, n) == SettingDef("float", Half(2 * n), {}, 2 * min, 2 * max)
String == SettingDef("string", Text(0), {}, 0, NoMax)
Enum(size) == SettingDef("enum", Text(0), {Text(i) : i \in 0 .. size - 1}, 0, NoMax)

SETTINGS ==
     ("general.site_name" :> String)
  @@ ("general.timezone" :> String)
  @@ ("retention.days" :> IntFrom(0, NoMax, 0))
  @@ ("retention.default_deadband_percent" :> FloatFrom(0, 50, 0))
  @@ ("alarms.require_acknowledgment" :> Bool(FALSE))
  @@ ("security.access_token_expire_minutes" :> IntFrom(5, 10080, 480))
  @@ ("opcua_server.enabled" :> Bool(FALSE))
  @@ ("opcua_server.port" :> IntFrom(1, 65535, 4841))
  @@ ("opcua_server.require_auth" :> Bool(TRUE))
  @@ ("modbus_server.enabled" :> Bool(FALSE))
  @@ ("modbus_server.port" :> IntFrom(1, 65535, 5020))
  @@ ("display.time_format" :> Enum(2))
  @@ ("display.language" :> Enum(6))
=============================================================================
