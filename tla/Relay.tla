-------------------------------- MODULE Relay --------------------------------
(***************************************************************************)
(* Power and reset of the board, main/gpio_control.c and the handlers that *)
(* call it: the operations, for the module that runs them (Device).        *)
(***************************************************************************)
EXTENDS Naturals

CONSTANTS
    MinToggle,  \* MIN_POWER_TOGGLE_MS, in ticks
    MaxNow      \* bound: ticks since boot

ASSUME RelayAssumption == MinToggle \in Nat /\ MaxNow \in Nat \ {0}

VARIABLES
    now,                \* esp_timer_get_time: ticks since boot
    power_on,           \* s_status.power_on, and the level of the relay
    last_power_toggle,  \* 0: no change since boot
    reset_low,          \* the reset line is driven low
    power_on_default,   \* the configured level at boot
    moved               \* history: when a request last moved it; 0: never

relayVars == <<now, power_on, last_power_toggle, reset_low, power_on_default,
               moved>>

RelayTypeOK ==
    /\ now \in 1..MaxNow /\ moved \in 0..now
    /\ last_power_toggle \in 0..now
    /\ power_on \in BOOLEAN /\ power_on_default \in BOOLEAN
    /\ reset_low \in BOOLEAN

\* What a board holds before its first boot; time is past 0 in app_main.
RelayInit ==
    /\ power_on_default \in BOOLEAN /\ power_on = FALSE
    /\ now = 1 /\ last_power_toggle = 0 /\ moved = 0 /\ reset_low = FALSE

\* A reset floats the pins; gpio_control_init then sets them.
RelayReset ==
    /\ power_on' = FALSE /\ reset_low' = FALSE
    /\ now' = 1 /\ last_power_toggle' = 0 /\ moved' = 0
    /\ UNCHANGED power_on_default

gpio_control_init ==
    /\ power_on' = power_on_default
    /\ last_power_toggle' = 0
    /\ UNCHANGED <<now, reset_low, power_on_default, moved>>

RelayTick ==
    /\ now < MaxNow /\ now' = now + 1
    /\ UNCHANGED <<power_on, last_power_toggle, reset_low, power_on_default,
                   moved>>

TooFast ==
    last_power_toggle > 0 /\ now - last_power_toggle < MinToggle

\* power_set: what is so already moves nothing; too soon moves nothing.
power_set(on) ==
    IF power_on = on \/ TooFast THEN UNCHANGED relayVars
    ELSE /\ power_on' = on
         /\ last_power_toggle' = now /\ moved' = now
         /\ UNCHANGED <<now, reset_low, power_on_default>>

\* handle_power: a body says which level, no body toggles.
Power_SetsLevel ==
    \/ \E on \in BOOLEAN :
          /\ power_on' = on
          /\ moved' = IF on = power_on THEN moved ELSE now
          /\ UNCHANGED <<now, last_power_toggle, reset_low, power_on_default>>
    \/ power_set(~power_on)

Power == power_set(~power_on) \/ \E on \in BOOLEAN : power_set(on)

\* gpio_sbc_reset, before and after its delay
PulseStart ==
    /\ reset_low' = TRUE
    /\ UNCHANGED <<now, power_on, last_power_toggle, power_on_default, moved>>

PulseEnd ==
    /\ reset_low' = FALSE
    /\ UNCHANGED <<now, power_on, last_power_toggle, power_on_default, moved>>
=============================================================================
